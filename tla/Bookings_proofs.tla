--------------------------- MODULE Bookings_proofs ---------------------------
(***************************************************************************)
(* Proofs about Bookings, the execution of one event await by await, for any*)
(* workers, events and conversations: that an appointment keeps its customer*)
(* and how many customers are made; and for one worker what jobs are made  *)
(* and that diary, leads and links agree.                                  *)
(***************************************************************************)
EXTENDS BookingsInvariants, FiniteSetTheorems, SequenceTheorems, TLAPS

-----------------------------------------------------------------------------
LEMMA EventIs == ASSUME NEW w \in Worker, NEW e, work[w].event = {e} PROVE Event(w) = e
  BY DEF Event

LEMMA CommandsAre ==
  ASSUME NEW e \in Events
  PROVE  /\ e.kind \in Kinds /\ e.conv \in Conversation /\ e.booking \in Slots
         /\ Len(Commands(e)) \in {1, 2} /\ \A i \in 1 .. Len(Commands(e)) : Commands(e)[i] \in Cmds
         /\ e.kind = "confirmed" => Len(Commands(e)) = 2 /\ Commands(e)[1] = "Link" /\ Commands(e)[2] = "CreateOrUpdate"
         /\ e.kind = "recovered" => Len(Commands(e)) = 1 /\ Commands(e)[1] = "CreateOrUpdate"
         /\ \A i \in 1 .. Len(Commands(e)) : Commands(e)[i] = "CreateOrUpdate" => e.kind \in { "confirmed", "completed", "recovered" }
<1>1. e.kind \in Kinds /\ e.conv \in Conversation /\ e.booking \in Slots BY BookingsAssumption DEF Slots
<1> QED BY <1>1 DEF Kinds, Commands, Cmds

LEMMA SameCommand ==
  ASSUME NEW w \in Worker, work'[w].event = work[w].event, work'[w].step = work[w].step
  PROVE  Event(w)' = Event(w) /\ Cmd(w)' = Cmd(w) /\ Conv(w)' = Conv(w) /\ Wanted(w)' = Wanted(w) /\ Name(w)' = Name(w)
  BY DEF Event, Cmd, Conv, Wanted, Name

LEMMA BusyIs ==
  ASSUME BusyInv, NEW w \in Worker, ~On(w, "idle")
  PROVE  Busy(w) /\ Cmd(w) \in Cmds /\ Conv(w) \in Conversation /\ Wanted(w) \in Slots /\ Event(w).kind \in Kinds
<1>1. Busy(w) BY DEF BusyInv, Vacant
<1> QED BY <1>1, CommandsAre DEF Busy, Cmd, Conv, Wanted

\* The laying of a patch over a row.
LEMMA LaidIs ==
  ASSUME NEW p \in Patches, NEW l \in Row
  PROVE  /\ Laid(p, l) \in Row
         /\ Laid(p, l).customer = IF "customer" \in DOMAIN p THEN p.customer ELSE l.customer
         /\ Laid(p, l).job = IF "job" \in DOMAIN p THEN p.job ELSE l.job
         /\ Laid(p, l).lead = IF "lead" \in DOMAIN p THEN p.lead ELSE l.lead
         /\ Laid(p, l).appt = IF "appt" \in DOMAIN p THEN p.appt ELSE l.appt
<1> DEFINE F == { "row", "lead", "customer", "job", "appt", "booking", "review" }
<1>1. DOMAIN l = F BY DEF Row
<1>2. \A f \in F : Laid(p, l)[f] = IF f = "row" THEN TRUE ELSE IF f \in DOMAIN p THEN p[f] ELSE l[f]
  BY <1>1 DEF Laid
<1>3. /\ Laid(p, l).customer = IF "customer" \in DOMAIN p THEN p.customer ELSE l.customer
      /\ Laid(p, l).job = IF "job" \in DOMAIN p THEN p.job ELSE l.job
      /\ Laid(p, l).lead = IF "lead" \in DOMAIN p THEN p.lead ELSE l.lead
      /\ Laid(p, l).appt = IF "appt" \in DOMAIN p THEN p.appt ELSE l.appt
      /\ Laid(p, l).booking = IF "booking" \in DOMAIN p THEN p.booking ELSE l.booking
      /\ Laid(p, l).review = IF "review" \in DOMAIN p THEN p.review ELSE l.review
      /\ Laid(p, l).row = TRUE
  BY <1>2
<1>4. 0 \in CustomerIds /\ 0 \in JobIds /\ 0 \in LeadIds /\ Nothing \in ApptIds BY DEF CustomerIds, JobIds, LeadIds, ApptIds
<1>5. /\ "customer" \in DOMAIN p => p.customer \in CustomerIds
      /\ "job" \in DOMAIN p => p.job \in JobIds
      /\ "lead" \in DOMAIN p => p.lead \in LeadIds
      /\ "appt" \in DOMAIN p => p.appt \in ApptIds
      /\ "booking" \in DOMAIN p => p.booking \in Slots
      /\ "review" \in DOMAIN p => p.review \in BOOLEAN
  BY <1>4 DEF Patches, NoPatch, ReviewPatches, LeadPatches, CustomerPatches, JobPatches
<1>6. Laid(p, l) = [row |-> Laid(p, l).row, lead |-> Laid(p, l).lead, customer |-> Laid(p, l).customer, job |-> Laid(p, l).job,
                    appt |-> Laid(p, l).appt, booking |-> Laid(p, l).booking, review |-> Laid(p, l).review]
  <2> DEFINE q == Laid(p, l)
  <2>1. q = [f \in F |-> q[f]] BY <1>1 DEF Laid
  <2> HIDE DEF q
  <2>2. q = [row |-> q.row, lead |-> q.lead, customer |-> q.customer, job |-> q.job, appt |-> q.appt, booking |-> q.booking,
             review |-> q.review]
    BY <2>1
  <2> QED BY <2>2 DEF q
<1>7. /\ Laid(p, l).customer \in CustomerIds /\ Laid(p, l).job \in JobIds /\ Laid(p, l).lead \in LeadIds
      /\ Laid(p, l).appt \in ApptIds /\ Laid(p, l).booking \in Slots /\ Laid(p, l).review \in BOOLEAN /\ Laid(p, l).row \in BOOLEAN
  BY <1>3, <1>5 DEF Row
<1>8. Laid(p, l) \in Row BY <1>6, <1>7 DEF Row
<1> QED BY <1>3, <1>8

-----------------------------------------------------------------------------
(* How a worker moves within a command.                                    *)

LEMMA GotoTo ==
  ASSUME work \in [Worker -> Task'], NEW w \in Worker, NEW pc \in Places, GoOn(w, pc)
  PROVE  /\ work' \in [Worker -> Task']
         /\ To(w, pc, work[w].next, work[w].mine, work[w].seen, work[w].patch, work[w].ext, work[w].got)
<1> DEFINE q == [work[w] EXCEPT !.pc = pc]
<1>1. work' = [work EXCEPT ![w] = q] BY DEF GoOn
<1>2. /\ q \in Task' /\ q.pc = pc /\ q.event = work[w].event /\ q.step = work[w].step /\ q.mine = work[w].mine
      /\ q.seen = work[w].seen /\ q.patch = work[w].patch /\ q.next = work[w].next /\ q.ext = work[w].ext
      /\ q.how = work[w].how /\ q.got = work[w].got
  BY DEF Task
<1> HIDE DEF q
<1>3. work'[w] = q /\ (\A v \in Worker \ {w} : work'[v] = work[v]) /\ work' \in [Worker -> Task'] BY <1>1, <1>2
<1> QED BY <1>2, <1>3 DEF To

LEMMA GotoWithTo ==
  ASSUME work \in [Worker -> Task'], NEW w \in Worker, NEW pc \in Places, NEW l \in Row', GotoWith(w, pc, l)
  PROVE  /\ work' \in [Worker -> Task']
         /\ To(w, pc, work[w].next, l, work[w].seen, work[w].patch, work[w].ext, work[w].got)
<1> DEFINE q == [work[w] EXCEPT !.pc = pc, !.mine = l]
<1>1. work' = [work EXCEPT ![w] = q] BY DEF GotoWith
<1>0. "linkRead" \in Places /\ "linkWrite" \in Places /\ "find" \in Places /\ "ensure" \in Places /\ "idle" \in Places BY DEF Places
<1>2. q \in Task' BY <1>0 DEF Task
<1>3. /\ q.event = work[w].event /\ q.step = work[w].step /\ q.how = work[w].how
      /\ q.pc = pc /\ q.next = work[w].next /\ q.mine = l /\ q.seen = work[w].seen /\ q.patch = work[w].patch /\ q.ext = work[w].ext /\ q.got = work[w].got
  BY DEF Task
<1> HIDE DEF q
<1>4. work'[w] = q /\ (\A v \in Worker \ {w} : work'[v] = work[v]) /\ work' \in [Worker -> Task'] BY <1>1, <1>2
<1> QED BY <1>3, <1>4 DEF To

LEMMA WriteLinkTo ==
  ASSUME work \in [Worker -> Task'], NEW w \in Worker, NEW patch \in Patches', NEW next \in Places, WriteLink(w, patch, next)
  PROVE  /\ work' \in [Worker -> Task']
         /\ To(w, "linkRead", next, work[w].mine, work[w].seen, patch, work[w].ext, work[w].got)
<1> DEFINE q == [work[w] EXCEPT !.pc = "linkRead", !.next = next, !.patch = patch]
<1>1. work' = [work EXCEPT ![w] = q] BY DEF WriteLink
<1>0. "linkRead" \in Places /\ "linkWrite" \in Places /\ "find" \in Places /\ "ensure" \in Places /\ "idle" \in Places BY DEF Places
<1>2. q \in Task' BY <1>0 DEF Task
<1>3. /\ q.event = work[w].event /\ q.step = work[w].step /\ q.how = work[w].how
      /\ q.pc = "linkRead" /\ q.next = next /\ q.mine = work[w].mine /\ q.seen = work[w].seen /\ q.patch = patch /\ q.ext = work[w].ext /\ q.got = work[w].got
  BY DEF Task
<1> HIDE DEF q
<1>4. work'[w] = q /\ (\A v \in Worker \ {w} : work'[v] = work[v]) /\ work' \in [Worker -> Task'] BY <1>1, <1>2
<1> QED BY <1>3, <1>4 DEF To

LEMMA LinkReadTo ==
  ASSUME work \in [Worker -> Task'], NEW w \in Worker, LinkRead(w), link[Conv(w)] \in Row'
  PROVE  /\ work' \in [Worker -> Task']
         /\ To(w, "linkWrite", work[w].next, work[w].mine, link[Conv(w)], work[w].patch, work[w].ext, work[w].got)
<1> DEFINE q == [work[w] EXCEPT !.pc = "linkWrite", !.seen = link[Conv(w)]]
<1>1. work' = [work EXCEPT ![w] = q] BY DEF LinkRead
<1>0. "linkRead" \in Places /\ "linkWrite" \in Places /\ "find" \in Places /\ "ensure" \in Places /\ "idle" \in Places BY DEF Places
<1>2. q \in Task' BY <1>0 DEF Task
<1>3. /\ q.event = work[w].event /\ q.step = work[w].step /\ q.how = work[w].how
      /\ q.pc = "linkWrite" /\ q.next = work[w].next /\ q.mine = work[w].mine /\ q.seen = link[Conv(w)] /\ q.patch = work[w].patch /\ q.ext = work[w].ext /\ q.got = work[w].got
  BY DEF Task
<1> HIDE DEF q
<1>4. work'[w] = q /\ (\A v \in Worker \ {w} : work'[v] = work[v]) /\ work' \in [Worker -> Task'] BY <1>1, <1>2
<1> QED BY <1>3, <1>4 DEF To

LEMMA LinkWriteTo ==
  ASSUME work \in [Worker -> Task'], NEW w \in Worker, LinkWrite(w), Mine(w) \in Row', NoLink \in Row', NoPatch \in Patches'
  PROVE  /\ work' \in [Worker -> Task']
         /\ To(w, work[w].next, "idle", Mine(w), NoLink, NoPatch, work[w].ext, work[w].got)
<1> DEFINE q == [work[w] EXCEPT !.pc = work[w].next, !.next = "idle", !.mine = Mine(w), !.seen = NoLink, !.patch = NoPatch]
<1>1. work' = [work EXCEPT ![w] = q] BY DEF LinkWrite, Mine
<1>0. "linkRead" \in Places /\ "linkWrite" \in Places /\ "find" \in Places /\ "ensure" \in Places /\ "idle" \in Places BY DEF Places
<1>2. q \in Task' BY <1>0 DEF Task
<1>3. /\ q.event = work[w].event /\ q.step = work[w].step /\ q.how = work[w].how
      /\ q.pc = work[w].next /\ q.next = "idle" /\ q.mine = Mine(w) /\ q.seen = NoLink /\ q.patch = NoPatch /\ q.ext = work[w].ext /\ q.got = work[w].got
  BY DEF Task
<1> HIDE DEF q
<1>4. work'[w] = q /\ (\A v \in Worker \ {w} : work'[v] = work[v]) /\ work' \in [Worker -> Task'] BY <1>1, <1>2
<1> QED BY <1>3, <1>4 DEF To

\* A worker that has got a customer, that looks for one, that has looked for the appointment.
LEMMA GotTo ==
  ASSUME work \in [Worker -> Task'], NEW w \in Worker, NEW pc \in Places, NEW k \in Nat, work' = [work EXCEPT ![w].pc = pc, ![w].got = k]
  PROVE  /\ work' \in [Worker -> Task']
         /\ To(w, pc, work[w].next, work[w].mine, work[w].seen, work[w].patch, work[w].ext, k)
<1> DEFINE q == [work[w] EXCEPT !.pc = pc, !.got = k]
<1>1. work' = [work EXCEPT ![w] = q] OBVIOUS
<1>0. "linkRead" \in Places /\ "linkWrite" \in Places /\ "find" \in Places /\ "ensure" \in Places /\ "idle" \in Places BY DEF Places
<1>2. q \in Task' BY <1>0 DEF Task
<1>3. /\ q.event = work[w].event /\ q.step = work[w].step /\ q.how = work[w].how
      /\ q.pc = pc /\ q.next = work[w].next /\ q.mine = work[w].mine /\ q.seen = work[w].seen /\ q.patch = work[w].patch /\ q.ext = work[w].ext /\ q.got = k
  BY DEF Task
<1> HIDE DEF q
<1>4. work'[w] = q /\ (\A v \in Worker \ {w} : work'[v] = work[v]) /\ work' \in [Worker -> Task'] BY <1>1, <1>2
<1> QED BY <1>3, <1>4 DEF To

LEMMA FindTo ==
  ASSUME work \in [Worker -> Task'], NEW w \in Worker, NEW next \in Places, work' = [work EXCEPT ![w].pc = "find", ![w].next = next]
  PROVE  /\ work' \in [Worker -> Task']
         /\ To(w, "find", next, work[w].mine, work[w].seen, work[w].patch, work[w].ext, work[w].got)
<1> DEFINE q == [work[w] EXCEPT !.pc = "find", !.next = next]
<1>1. work' = [work EXCEPT ![w] = q] OBVIOUS
<1>0. "linkRead" \in Places /\ "linkWrite" \in Places /\ "find" \in Places /\ "ensure" \in Places /\ "idle" \in Places BY DEF Places
<1>2. q \in Task' BY <1>0 DEF Task
<1>3. /\ q.event = work[w].event /\ q.step = work[w].step /\ q.how = work[w].how
      /\ q.pc = "find" /\ q.next = next /\ q.mine = work[w].mine /\ q.seen = work[w].seen /\ q.patch = work[w].patch /\ q.ext = work[w].ext /\ q.got = work[w].got
  BY DEF Task
<1> HIDE DEF q
<1>4. work'[w] = q /\ (\A v \in Worker \ {w} : work'[v] = work[v]) /\ work' \in [Worker -> Task'] BY <1>1, <1>2
<1> QED BY <1>3, <1>4 DEF To

LEMMA FindWithTo ==
  ASSUME work \in [Worker -> Task'], NEW w \in Worker, NEW next \in Places, NEW l \in Row', work' = [work EXCEPT ![w].pc = "find", ![w].next = next, ![w].mine = l]
  PROVE  /\ work' \in [Worker -> Task']
         /\ To(w, "find", next, l, work[w].seen, work[w].patch, work[w].ext, work[w].got)
<1> DEFINE q == [work[w] EXCEPT !.pc = "find", !.next = next, !.mine = l]
<1>1. work' = [work EXCEPT ![w] = q] OBVIOUS
<1>0. "linkRead" \in Places /\ "linkWrite" \in Places /\ "find" \in Places /\ "ensure" \in Places /\ "idle" \in Places BY DEF Places
<1>2. q \in Task' BY <1>0 DEF Task
<1>3. /\ q.event = work[w].event /\ q.step = work[w].step /\ q.how = work[w].how
      /\ q.pc = "find" /\ q.next = next /\ q.mine = l /\ q.seen = work[w].seen /\ q.patch = work[w].patch /\ q.ext = work[w].ext /\ q.got = work[w].got
  BY DEF Task
<1> HIDE DEF q
<1>4. work'[w] = q /\ (\A v \in Worker \ {w} : work'[v] = work[v]) /\ work' \in [Worker -> Task'] BY <1>1, <1>2
<1> QED BY <1>3, <1>4 DEF To

LEMMA EnsureTo ==
  ASSUME work \in [Worker -> Task'], NEW w \in Worker, NEW ext \in BOOLEAN, work' = [work EXCEPT ![w].pc = "ensure", ![w].ext = ext]
  PROVE  /\ work' \in [Worker -> Task']
         /\ To(w, "ensure", work[w].next, work[w].mine, work[w].seen, work[w].patch, ext, work[w].got)
<1> DEFINE q == [work[w] EXCEPT !.pc = "ensure", !.ext = ext]
<1>1. work' = [work EXCEPT ![w] = q] OBVIOUS
<1>0. "linkRead" \in Places /\ "linkWrite" \in Places /\ "find" \in Places /\ "ensure" \in Places /\ "idle" \in Places BY DEF Places
<1>2. q \in Task' BY <1>0 DEF Task
<1>3. /\ q.event = work[w].event /\ q.step = work[w].step /\ q.how = work[w].how
      /\ q.pc = "ensure" /\ q.next = work[w].next /\ q.mine = work[w].mine /\ q.seen = work[w].seen /\ q.patch = work[w].patch /\ q.ext = ext /\ q.got = work[w].got
  BY DEF Task
<1> HIDE DEF q
<1>4. work'[w] = q /\ (\A v \in Worker \ {w} : work'[v] = work[v]) /\ work' \in [Worker -> Task'] BY <1>1, <1>2
<1> QED BY <1>3, <1>4 DEF To


\* A worker that takes up a command.
LEMMA RowsAre ==
  ASSUME RowTypes
  PROVE  /\ Len(customers) \in Nat /\ Len(leads) \in Nat /\ Len(crmJobs) \in Nat
         /\ DOMAIN customers = 1 .. Len(customers) /\ DOMAIN leads = 1 .. Len(leads) /\ DOMAIN crmJobs = 1 .. Len(crmJobs)
         /\ 0 \in CustomerIds /\ 0 \in LeadIds /\ 0 \in JobIds /\ Nothing \in ApptIds /\ Nothing \in Slots
         /\ NoLink \in Row /\ NoPatch \in Patches
<1>1. /\ Len(customers) \in Nat /\ Len(leads) \in Nat /\ Len(crmJobs) \in Nat
      /\ DOMAIN customers = 1 .. Len(customers) /\ DOMAIN leads = 1 .. Len(leads) /\ DOMAIN crmJobs = 1 .. Len(crmJobs)
  BY DEF RowTypes
<1>2. 0 \in CustomerIds /\ 0 \in LeadIds /\ 0 \in JobIds /\ Nothing \in ApptIds /\ Nothing \in Slots
  BY <1>1 DEF CustomerIds, LeadIds, JobIds, ApptIds, Slots
<1>3. NoLink \in Row BY <1>2 DEF NoLink, Row
<1>4. NoPatch \in Patches BY DEF Patches
<1> QED BY <1>1, <1>2, <1>3, <1>4

LEMMA TaskOf ==
  ASSUME RowTypes, NEW e \in Events, NEW step \in 1 .. Len(Commands(e)), NEW how \in Recoveries \cup {"none"}, NEW got \in Nat,
         NEW t, t = CommandAt(e, step, how, got)
  PROVE  /\ t \in Task /\ Commands(e)[step] \in Cmds
         /\ t.event = {e} /\ t.step = step /\ t.how = how /\ t.got = got
         /\ t.pc = FirstStep(Commands(e)[step]) /\ t.next = Found(Commands(e)[step])
         /\ t.mine = NoLink /\ t.seen = NoLink /\ t.patch = NoPatch /\ ~t.ext
<1>4. step \in Nat
  <2>1. PICK n \in {1, 2} : n = Len(Commands(e)) BY CommandsAre
  <2>2. step \in 1 .. n BY <2>1
  <2> QED BY <2>2
<1> DEFINE cmd == Commands(e)[step]
<1>1. cmd \in Cmds /\ Len(Commands(e)) \in {1, 2} BY CommandsAre
<1>2. FirstStep(cmd) \in Places /\ Found(cmd) \in Places BY <1>1 DEF Cmds, FirstStep, Found, Places
<1>3. NoLink \in Row /\ NoPatch \in Patches BY RowsAre
<1>5. "idle" \in Places BY DEF Places
<1> HIDE DEF cmd
<1> DEFINE q == [Resting EXCEPT !.pc = FirstStep(cmd), !.event = {e}, !.step = step, !.next = Found(cmd), !.how = how, !.got = got]
<1>6. q \in Task BY <1>2, <1>3, <1>4, <1>5 DEF Resting, Task
<1>7. /\ q.event = {e} /\ q.step = step /\ q.how = how /\ q.got = got
      /\ q.pc = FirstStep(cmd) /\ q.next = Found(cmd) /\ q.mine = NoLink /\ q.seen = NoLink /\ q.patch = NoPatch
  BY DEF Resting
<1>8. q.ext = FALSE BY Zenon DEF Resting
<1>9. t = q BY DEF CommandAt, cmd
<1> HIDE DEF q
<1> QED BY <1>1, <1>6, <1>7, <1>8, <1>9 DEF cmd

-----------------------------------------------------------------------------
(* Rows are added and changed, never removed.                              *)

LEMMA GrownTypes ==
  ASSUME RowTypes, Len(customers)' \in Nat, Len(leads)' \in Nat, Len(crmJobs)' \in Nat, Grown
  PROVE  /\ CustomerIds \subseteq CustomerIds' /\ LeadIds \subseteq LeadIds' /\ JobIds \subseteq JobIds'
         /\ ApptIds \subseteq ApptIds' /\ Row \subseteq Row' /\ JobRow \subseteq JobRow' /\ Appt \subseteq Appt'
         /\ Patches \subseteq Patches' /\ Task \subseteq Task'
<1>1. /\ CustomerIds \subseteq CustomerIds' /\ LeadIds \subseteq LeadIds' /\ JobIds \subseteq JobIds'
      /\ ApptIds \subseteq ApptIds'
  BY RowsAre DEF Grown, CustomerIds, LeadIds, JobIds, ApptIds
<1>2. Row \subseteq Row' BY <1>1 DEF Row
<1>3. JobRow \subseteq JobRow' /\ Appt \subseteq Appt' BY <1>1 DEF JobRow, Appt
<1>4. ReviewPatches \subseteq ReviewPatches' BY <1>1 DEF ReviewPatches
<1>5. LeadPatches \subseteq LeadPatches' BY <1>1 DEF LeadPatches
<1>6. CustomerPatches \subseteq CustomerPatches' BY <1>1 DEF CustomerPatches
<1>7. JobPatches \subseteq JobPatches' BY <1>1 DEF JobPatches
<1>8. Patches \subseteq Patches' BY <1>4, <1>5, <1>6, <1>7 DEF Patches
<1>9. Task \subseteq Task' BY <1>2, <1>8 DEF Task
<1> QED BY <1>1, <1>2, <1>3, <1>8, <1>9

LEMMA SetAt ==
  ASSUME NEW S, NEW s \in Seq(S), NEW i, NEW v \in S
  PROVE  /\ [s EXCEPT ![i] = v] \in Seq(S) /\ Len([s EXCEPT ![i] = v]) = Len(s)
         /\ \A j \in 1 .. Len(s) : [s EXCEPT ![i] = v][j] = IF j = i THEN v ELSE s[j]
<1>1. CASE i \in 1 .. Len(s) BY <1>1, ExceptSeq
<1>2. CASE i \notin 1 .. Len(s)
  <2>1. s \in [1 .. Len(s) -> S] BY LenProperties
  <2>2. [s EXCEPT ![i] = v] = s BY <1>2, <2>1
  <2> QED BY <1>2, <2>2
<1> QED BY <1>1, <1>2

LEMMA PutLast ==
  ASSUME NEW S, NEW s \in Seq(S), NEW v \in S
  PROVE  LET t == Append(s, v) IN
         t \in Seq(S) /\ Len(t) = Len(s) + 1 /\ t[Len(s) + 1] = v /\ \A j \in 1 .. Len(s) : t[j] = s[j]
  OBVIOUS

LEMMA SeqMore == ASSUME NEW S, NEW T, S \subseteq T, NEW s \in Seq(S) PROVE s \in Seq(T)
  OBVIOUS

LEMMA WithCustomerIs ==
  ASSUME RowTypes, NEW l, l.customer \in CustomerIds
  PROVE  LET t == WithCustomer(l) IN
         /\ t \in Seq(CustomerIds) /\ Len(t) = Len(leads)
         /\ \A j \in 1 .. Len(leads) : t[j] = IF j = l.lead /\ l.lead # 0 /\ l.customer # 0 THEN l.customer ELSE leads[j]
<1>1. leads \in Seq(CustomerIds) BY DEF RowTypes
<1>2. CASE l.lead = 0 \/ l.customer = 0 BY <1>1, <1>2 DEF WithCustomer
<1>3. CASE ~(l.lead = 0 \/ l.customer = 0)
  <2>1. WithCustomer(l) = [leads EXCEPT ![l.lead] = l.customer] BY <1>3 DEF WithCustomer
  <2> QED BY <1>1, <1>3, <2>1, SetAt
<1> QED BY <1>2, <1>3

\* Appointments: one is put in, or one is changed.
LEMMA PutIs ==
  ASSUME RowTypes, NEW b \in Slots, NEW a \in Appt
  PROVE  LET t == Put(b, a) IN
         /\ DOMAIN t = DOMAIN appts \cup {b} /\ t \in [DOMAIN t -> Appt] /\ t[b] = a
         /\ \A k \in DOMAIN appts \ {b} : t[k] = appts[k]
  BY DEF Put, RowTypes

LEMMA ChangeIs ==
  ASSUME RowTypes, NEW b, NEW a, b \in DOMAIN appts => a \in Appt
  PROVE  LET t == [appts EXCEPT ![b] = a] IN
         /\ DOMAIN t = DOMAIN appts /\ t \in [DOMAIN t -> Appt]
         /\ \A k \in DOMAIN appts : t[k] = IF k = b THEN a ELSE appts[k]
  BY DEF RowTypes

LEMMA RowsStay ==
  ASSUME RowTypes, UNCHANGED << crm, link >>
  PROVE  RowTypes' /\ Grown
<1>1. /\ customers' = customers /\ leads' = leads /\ crmJobs' = crmJobs /\ appts' = appts /\ link' = link BY DEF crm
<1>2. Grown BY <1>1, RowsAre DEF Grown
<1>3. CustomerIds' = CustomerIds /\ LeadIds' = LeadIds /\ JobIds' = JobIds /\ ApptIds' = ApptIds
  BY <1>1 DEF CustomerIds, LeadIds, JobIds, ApptIds
<1>4. Row' = Row /\ JobRow' = JobRow /\ Appt' = Appt BY <1>3 DEF Row, JobRow, Appt
<1>5. RowTypes' BY <1>1, <1>3, <1>4 DEF RowTypes
<1> QED BY <1>2, <1>5

LEMMA RowsGrow ==
  ASSUME RowTypes,
         customers' \in Seq(Names), Len(customers) <= Len(customers'),
         leads' \in Seq(CustomerIds), Len(leads) <= Len(leads'),
         crmJobs' = crmJobs \/ \E r \in JobRow : crmJobs' = Append(crmJobs, r),
         DOMAIN appts \subseteq DOMAIN appts', DOMAIN appts' \subseteq Slots, appts' \in [DOMAIN appts' -> Appt],
         link' = link \/ \E c \in Conversation : \E r \in Row : link' = [link EXCEPT ![c] = r]
  PROVE  RowTypes' /\ Grown
<1>1. crmJobs \in Seq(JobRow) /\ link \in [Conversation -> Row] BY DEF RowTypes
<1>2. crmJobs' \in Seq(JobRow) /\ Len(crmJobs) <= Len(crmJobs)'
  <2>1. Len(crmJobs) \in Nat BY RowsAre
  <2>2. CASE crmJobs' = crmJobs BY <1>1, <2>1, <2>2
  <2>3. CASE \E r \in JobRow : crmJobs' = Append(crmJobs, r)
    <3>1. PICK r \in JobRow : crmJobs' = Append(crmJobs, r) BY <2>3
    <3>2. Append(crmJobs, r) \in Seq(JobRow) /\ Len(Append(crmJobs, r)) = Len(crmJobs) + 1 BY <1>1, PutLast
    <3> QED BY <2>1, <3>1, <3>2
  <2> QED BY <2>2, <2>3
<1>3. Len(customers)' \in Nat /\ Len(leads)' \in Nat /\ Len(crmJobs)' \in Nat BY <1>2
<1>4. Grown BY <1>2 DEF Grown
<1>5. CustomerIds \subseteq CustomerIds' /\ Row \subseteq Row' /\ JobRow \subseteq JobRow' /\ Appt \subseteq Appt'
  BY <1>3, <1>4, GrownTypes
<1>6. leads' \in Seq(CustomerIds') /\ crmJobs' \in Seq(JobRow') BY <1>2, <1>5, SeqMore
<1>7. link' \in [Conversation -> Row] BY <1>1
<1>8. link' \in [Conversation -> Row'] /\ appts' \in [DOMAIN appts' -> Appt'] BY <1>5, <1>7
<1>9. customers' \in Seq(Names') BY DEF Names
<1>10. DOMAIN appts' \subseteq Slots' BY DEF Slots
<1>11. RowTypes' BY <1>6, <1>8, <1>9, <1>10 DEF RowTypes
<1> QED BY <1>4, <1>11

\* What a worker holds.
LEMMA TaskHas ==
  ASSUME BookTypes, NEW w \in Worker
  PROVE  /\ work[w] \in Task
         /\ work[w].mine \in Row /\ work[w].seen \in Row /\ work[w].patch \in Patches /\ work[w].got \in Nat
         /\ work[w].next \in Places /\ work[w].pc \in Places /\ work[w].ext \in BOOLEAN
         /\ work[w].mine.customer \in CustomerIds /\ work[w].mine.lead \in LeadIds /\ work[w].mine.job \in JobIds
         /\ work[w].mine.appt \in ApptIds /\ work[w].mine.booking \in Slots
<1>1. work[w] \in Task BY DEF BookTypes
<1>2. work[w].mine \in Row /\ work[w].seen \in Row /\ work[w].patch \in Patches /\ work[w].got \in Nat
      /\ work[w].next \in Places /\ work[w].pc \in Places /\ work[w].ext \in BOOLEAN
  BY <1>1 DEF Task
<1>3. /\ work[w].mine.customer \in CustomerIds /\ work[w].mine.lead \in LeadIds /\ work[w].mine.job \in JobIds
      /\ work[w].mine.appt \in ApptIds /\ work[w].mine.booking \in Slots
  BY <1>2 DEF Row
<1> QED BY <1>1, <1>2, <1>3

LEMMA NameIs == ASSUME BookShape, NEW w \in Worker, ~On(w, "idle") PROVE Name(w) \in Names
<1>1. Conv(w) \in Conversation BY BusyIs DEF BookShape
<1> QED BY <1>1 DEF Name, Names

LEMMA CustomerRows ==
  ASSUME BookShape, NEW w \in Worker, InsertCustomer(w) \/ UpdateCustomer(w)
  PROVE  RowTypes' /\ Grown
<1>1. RowTypes BY DEF BookShape, BookTypes
<1>2. ~On(w, "idle") BY DEF InsertCustomer, UpdateCustomer, On
<1>3. Name(w) \in Names /\ customers \in Seq(Names) /\ Len(customers) \in Nat BY <1>1, <1>2, NameIs, RowsAre DEF RowTypes
<1>4. UNCHANGED << leads, crmJobs, appts, link >> BY DEF InsertCustomer, UpdateCustomer
<1>5. customers' \in Seq(Names) /\ Len(customers) <= Len(customers')
  <2>1. CASE InsertCustomer(w)
    <3>1. customers' = Append(customers, Name(w)) BY <2>1 DEF InsertCustomer
    <3> QED BY <1>3, <3>1, PutLast
  <2>2. CASE UpdateCustomer(w)
    <3>1. customers' = customers \/ customers' = [customers EXCEPT ![work[w].got] = Name(w)] BY <2>2 DEF UpdateCustomer
    <3> QED BY <1>3, <3>1, SetAt
  <2> QED BY <2>1, <2>2
<1>6. /\ leads' \in Seq(CustomerIds) /\ Len(leads) <= Len(leads') /\ DOMAIN appts \subseteq DOMAIN appts'
      /\ DOMAIN appts' \subseteq Slots /\ appts' \in [DOMAIN appts' -> Appt]
  BY <1>1, <1>4, RowsAre DEF RowTypes
<1> QED BY <1>1, <1>4, <1>5, <1>6, RowsGrow

LEMMA LinkRows ==
  ASSUME BookShape, NEW w \in Worker, LinkWrite(w)
  PROVE  RowTypes' /\ Grown
<1>1. RowTypes /\ BookTypes BY DEF BookShape, BookTypes
<1>2. ~On(w, "idle") BY DEF LinkWrite, On
<1>3. Conv(w) \in Conversation BY <1>2, BusyIs DEF BookShape
<1>4. Laid(work[w].patch, work[w].seen) \in Row BY <1>1, TaskHas, LaidIs
<1>5. UNCHANGED << customers, leads, crmJobs, appts >> /\ link' = [link EXCEPT ![Conv(w)] = Laid(work[w].patch, work[w].seen)]
  BY DEF LinkWrite, crm
<1>6. \E c \in Conversation : \E r \in Row : link' = [link EXCEPT ![c] = r] BY <1>3, <1>4, <1>5
<1>7. /\ leads' \in Seq(CustomerIds) /\ Len(leads) <= Len(leads') /\ DOMAIN appts \subseteq DOMAIN appts'
      /\ DOMAIN appts' \subseteq Slots /\ appts' \in [DOMAIN appts' -> Appt]
      /\ customers' \in Seq(Names) /\ Len(customers) <= Len(customers') /\ crmJobs' = crmJobs
  BY <1>1, <1>5, RowsAre DEF RowTypes
<1> QED BY <1>1, <1>6, <1>7, RowsGrow

\* The leads, the jobs and the diary.
LEMMA DiaryRows ==
  ASSUME RowTypes, customers' = customers, link' = link,
         leads' = leads \/ (\E l : l.customer \in CustomerIds /\ leads' = WithCustomer(l)) \/ leads' = Append(leads, 0),
         crmJobs' = crmJobs \/ \E r \in JobRow : crmJobs' = Append(crmJobs, r),
         \/ appts' = appts
         \/ \E b \in Slots : \E a \in Appt : appts' = Put(b, a)
         \/ \E b, a : (b \in DOMAIN appts => a \in Appt) /\ appts' = [appts EXCEPT ![b] = a]
  PROVE  RowTypes' /\ Grown
<1>1. leads' \in Seq(CustomerIds) /\ Len(leads) <= Len(leads')
  <2>1. leads \in Seq(CustomerIds) /\ 0 \in CustomerIds /\ Len(leads) \in Nat BY RowsAre DEF RowTypes
  <2>2. CASE leads' = Append(leads, 0) BY <2>1, <2>2, PutLast
  <2>3. CASE \E l : l.customer \in CustomerIds /\ leads' = WithCustomer(l)
    <3>1. PICK l : l.customer \in CustomerIds /\ leads' = WithCustomer(l) BY <2>3
    <3> QED BY <2>1, <3>1, WithCustomerIs
  <2> QED BY <2>1, <2>2, <2>3
<1>2. DOMAIN appts \subseteq DOMAIN appts' /\ DOMAIN appts' \subseteq Slots /\ appts' \in [DOMAIN appts' -> Appt]
  <2>1. DOMAIN appts \subseteq Slots /\ appts \in [DOMAIN appts -> Appt] BY DEF RowTypes
  <2>2. CASE \E b \in Slots : \E a \in Appt : appts' = Put(b, a)
    <3>1. PICK b \in Slots, a \in Appt : appts' = Put(b, a) BY <2>2
    <3> DEFINE q == Put(b, a)
    <3>2. DOMAIN q = DOMAIN appts \cup {b} /\ q \in [DOMAIN q -> Appt] BY PutIs
    <3> HIDE DEF q
    <3> QED BY <2>1, <3>1, <3>2 DEF q
  <2>3. CASE \E b, a : (b \in DOMAIN appts => a \in Appt) /\ appts' = [appts EXCEPT ![b] = a]
    <3>1. PICK b, a : (b \in DOMAIN appts => a \in Appt) /\ appts' = [appts EXCEPT ![b] = a] BY <2>3
    <3> QED BY <2>1, <3>1, ChangeIs
  <2> QED BY <2>1, <2>2, <2>3
<1>3. customers' \in Seq(Names) /\ Len(customers) <= Len(customers') BY RowsAre DEF RowTypes
<1> QED BY <1>1, <1>2, <1>3, RowsGrow

\* A worker that goes on within its command.
LEMMA ToKeeps ==
  ASSUME BookShape, RowTypes', Grown, work' \in [Worker -> Task'], UNCHANGED << status, acked, failures >>,
         flagged' \subseteq Slots, switches' \in Nat, settled' \subseteq Conversation,
         NEW w \in Worker, ~On(w, "idle"), NEW pc, NEW next, NEW mine, NEW seen, NEW patch, NEW ext, NEW got,
         To(w, pc, next, mine, seen, patch, ext, got), PlacedIn(Cmd(w), pc, next),
         GotFor(work[w].how, pc, next, got, ext, Wanted(w))'
  PROVE  BookShape'
<1>1. RowTypes /\ BusyInv /\ GotInv /\ Busy(w) BY BusyIs DEF BookShape, BookTypes
<1>2. BookTypes'
  <2>1. /\ status' \in [Events -> { "waiting", "running", "failed", "done" }] /\ acked' \in [Events -> Nat] /\ failures' \in Nat
    BY DEF BookShape, BookTypes
  <2>2. Slots' = Slots BY DEF Slots
  <2> QED BY <2>1, <2>2 DEF BookTypes
<1>3. Event(w)' = Event(w) /\ Cmd(w)' = Cmd(w) BY SameCommand DEF To
<1>4. Busy(w)' BY <1>1, <1>3 DEF To, Busy, PlacedIn
<1>5. \A v \in Worker \ {w} : Vacant(v)' \/ Busy(v)'
  <2> SUFFICES ASSUME NEW v \in Worker \ {w} PROVE Vacant(v)' \/ Busy(v)' OBVIOUS
  <2>1. work'[v] = work[v] /\ Event(v)' = Event(v) BY DEF To, Event
  <2>2. CASE Vacant(v) BY <2>1, <2>2 DEF Vacant, On
  <2>3. CASE Busy(v) BY <2>1, <2>3 DEF Busy, PlacedIn, Cmd
  <2> QED BY <1>1, <2>2, <2>3 DEF BusyInv
<1>6. BusyInv'
  <2>1. \A u, v \in Worker : work[u].event = work[v].event => u = v \/ Vacant(u) BY <1>1 DEF BusyInv
  <2>2. \A v \in Worker : work'[v].event = work[v].event BY DEF To
  <2>3. \A v \in Worker \ {w} : Vacant(v) => Vacant(v)' BY DEF To, Vacant, On
  <2>4. ~Vacant(w) BY DEF Vacant
  <2>5. \A u, v \in Worker : work'[u].event = work'[v].event => u = v \/ Vacant(u)' BY <2>1, <2>2, <2>3, <2>4
  <2>6. \A e \in Events : status'[e] # "done" => acked'[e] < Len(Commands(e)) BY <1>1 DEF BusyInv
  <2> QED BY <1>4, <1>5, <2>5, <2>6 DEF BusyInv
<1>7. GotInv'
  <2> SUFFICES ASSUME NEW v \in Worker, ~On(v, "idle")' PROVE GotBy(v)' BY DEF GotInv
  <2>1. CASE v = w
    <3>1. PICK b : b = Wanted(w) OBVIOUS
    <3>2. Wanted(w)' = b BY <3>1, SameCommand DEF To
    <3> QED BY <2>1, <3>1, <3>2 DEF To, GotFor, GotBy, HasOne, Early, InReview
  <2>2. CASE v # w
    <3>1. work'[v] = work[v] /\ Wanted(v)' = Wanted(v) BY <2>2 DEF To, Wanted, Event
    <3>2. GotBy(v) BY <1>1, <3>1 DEF GotInv, On
    <3>3. DOMAIN customers \subseteq DOMAIN customers' /\ DOMAIN crmJobs \subseteq DOMAIN crmJobs' /\ CustomerIds \subseteq CustomerIds'
          /\ DOMAIN appts \subseteq DOMAIN appts'
      <4>1. Len(customers)' \in Nat /\ Len(leads)' \in Nat /\ Len(crmJobs)' \in Nat BY DEF RowTypes
      <4>2. CustomerIds \subseteq CustomerIds' BY <1>1, <4>1, GrownTypes
      <4>3. DOMAIN customers = 1 .. Len(customers) /\ DOMAIN crmJobs = 1 .. Len(crmJobs) BY <1>1, RowsAre
      <4>4. DOMAIN customers' = 1 .. Len(customers') /\ DOMAIN crmJobs' = 1 .. Len(crmJobs') BY DEF RowTypes
      <4>5. Len(customers) \in Nat /\ Len(crmJobs) \in Nat BY <1>1, RowsAre
      <4> QED BY <4>1, <4>2, <4>3, <4>4, <4>5 DEF Grown
    <3> QED BY <3>1, <3>2, <3>3 DEF GotFor, GotBy, HasOne, Early, InReview
  <2> QED BY <2>1, <2>2
<1> QED BY <1>2, <1>6, <1>7 DEF BookShape

\* A step that only reads.
LEMMA Quiet ==
  ASSUME BookShape, UNCHANGED << crm, link >>
  PROVE  /\ RowTypes' /\ Grown /\ work \in [Worker -> Task']
         /\ CustomerIds' = CustomerIds /\ JobIds' = JobIds /\ LeadIds' = LeadIds /\ ApptIds' = ApptIds
         /\ Row' = Row /\ Patches' = Patches /\ Slots' = Slots
         /\ DOMAIN customers' = DOMAIN customers /\ DOMAIN crmJobs' = DOMAIN crmJobs
         /\ \A how, pc, next, got, ext, b : GotFor(how, pc, next, got, ext, b)' = GotFor(how, pc, next, got, ext, b)
<1>1. RowTypes /\ work \in [Worker -> Task] BY DEF BookShape, BookTypes
<1>2. RowTypes' /\ Grown BY <1>1, RowsStay
<1>3. customers' = customers /\ leads' = leads /\ crmJobs' = crmJobs /\ appts' = appts BY DEF crm
<1>4. CustomerIds' = CustomerIds /\ JobIds' = JobIds /\ LeadIds' = LeadIds /\ ApptIds' = ApptIds
  BY <1>3 DEF CustomerIds, JobIds, LeadIds, ApptIds
<1>5. Row' = Row BY <1>4 DEF Row
<1>6. Patches' = Patches BY <1>4 DEF Patches, ReviewPatches, LeadPatches, CustomerPatches, JobPatches
<1>7. Slots' = Slots BY DEF Slots
<1>8. Task' = Task BY <1>5, <1>6 DEF Task
<1>9. \A how, pc, next, got, ext, b : GotFor(how, pc, next, got, ext, b)' = GotFor(how, pc, next, got, ext, b) BY <1>3, <1>4 DEF GotFor
<1> QED BY <1>1, <1>2, <1>3, <1>4, <1>5, <1>6, <1>7, <1>8, <1>9

\* What is known of a worker that is at a step.
LEMMA AtStep ==
  ASSUME BookShape, NEW w \in Worker, ~On(w, "idle")
  PROVE  /\ Busy(w) /\ Cmd(w) \in Cmds /\ Conv(w) \in Conversation /\ Wanted(w) \in Slots
         /\ PlacedIn(Cmd(w), work[w].pc, work[w].next)
         /\ GotBy(w)
         /\ flagged \subseteq Slots /\ switches \in Nat /\ settled \subseteq Conversation
         /\ link[Conv(w)] \in Row
<1>1. Busy(w) /\ Cmd(w) \in Cmds /\ Conv(w) \in Conversation /\ Wanted(w) \in Slots BY BusyIs DEF BookShape
<1>2. link[Conv(w)] \in Row BY <1>1 DEF BookShape, BookTypes, RowTypes
<1> QED BY <1>1, <1>2 DEF BookShape, BookTypes, GotInv, Busy

LEMMA QuietMove ==
  ASSUME BookShape, UNCHANGED << crm, link, status, acked, failures, switches, settled >>, flagged' \subseteq Slots,
         work' \in [Worker -> Task'], NEW w \in Worker, ~On(w, "idle"),
         NEW pc, NEW next, NEW mine, NEW seen, NEW patch, NEW ext, NEW got,
         To(w, pc, next, mine, seen, patch, ext, got), PlacedIn(Cmd(w), pc, next), GotFor(work[w].how, pc, next, got, ext, Wanted(w))
  PROVE  BookShape' /\ Grown
<1>1. RowTypes' /\ Grown BY Quiet
<1>3. switches' \in Nat /\ settled' \subseteq Conversation BY AtStep
<1>4. GotFor(work[w].how, pc, next, got, ext, Wanted(w))'
  <2>1. PICK h, b : h = work[w].how /\ b = Wanted(w) OBVIOUS
  <2>2. GotFor(h, pc, next, got, ext, b)' BY <2>1, Quiet
  <2>3. work'[w].how = h BY <2>1 DEF To
  <2>4. Wanted(w)' = b BY <2>1, SameCommand DEF To
  <2> QED BY <2>2, <2>3, <2>4
<1> QED BY <1>1, <1>3, <1>4, ToKeeps

LEMMA PatchesAre == PatchKinds
<1>1. /\ \A b \in Slots : \A r \in BOOLEAN : [customer |-> 0, job |-> 0, booking |-> b, review |-> r] \in ReviewPatches
      /\ \A a \in ApptIds : \A b \in Slots : \A r \in BOOLEAN :
           [appt |-> a, customer |-> 0, job |-> 0, booking |-> b, review |-> r] \in ReviewPatches
      /\ \A a \in ApptIds : \A b \in Slots : \A r \in BOOLEAN : [appt |-> a, booking |-> b, review |-> r] \in ReviewPatches
      /\ \A a \in ApptIds : [appt |-> a] \in ReviewPatches
  BY DEF ReviewPatches
<1>2. /\ \A l \in LeadIds : [lead |-> l] \in LeadPatches
      /\ \A l \in LeadIds : \A b \in Slots : \A r \in BOOLEAN : [lead |-> l, booking |-> b, review |-> r] \in LeadPatches
      /\ \A l \in LeadIds : \A b \in Slots : \A r \in BOOLEAN :
           [lead |-> l, booking |-> b, review |-> r, customer |-> 0, job |-> 0, appt |-> Nothing] \in LeadPatches
  BY DEF LeadPatches
<1>3. /\ \A k \in CustomerIds : [customer |-> k] \in CustomerPatches
      /\ \A k \in CustomerIds : \A r \in BOOLEAN : [customer |-> k, review |-> r] \in CustomerPatches
  BY DEF CustomerPatches
<1>4. /\ \A j \in JobIds : [job |-> j] \in JobPatches
      /\ \A j \in JobIds : \A r \in BOOLEAN : [job |-> j, review |-> r] \in JobPatches
      /\ \A r \in BOOLEAN : [review |-> r] \in JobPatches
      /\ \A j \in JobIds : \A k \in CustomerIds : \A r \in BOOLEAN : [job |-> j, customer |-> k, review |-> r] \in JobPatches
  BY DEF JobPatches
<1>5. ReviewPatches \subseteq Patches /\ LeadPatches \subseteq Patches /\ CustomerPatches \subseteq Patches /\ JobPatches \subseteq Patches
  BY DEF Patches
<1> QED BY <1>1, <1>2, <1>3, <1>4, <1>5 DEF PatchKinds

LEMMA PatchesWillBe == PatchKinds'
  BY PatchesAre, PTL

-----------------------------------------------------------------------------
(* The steps of the commands, one by one.                                  *)

LEMMA FindNoneMoves ==
  ASSUME BookShape, NEW w \in Worker, FindNone(w)
  PROVE  BookShape' /\ Grown /\ Went(w, "insert")
<1>1. work[w].pc = "find" /\ ~On(w, "idle") BY DEF FindNone, On
<1>2. UNCHANGED << crm, link, status, acked, failures, flagged, switches, settled >> BY DEF FindNone, bookkeeping, memory
<1>3. work' \in [Worker -> Task'] /\ Went(w, "insert")
  <2>1. GoOn(w, "insert") /\ "insert" \in Places BY DEF FindNone, Places
  <2> QED BY <1>2, <2>1, Quiet, GotoTo DEF Went
<1>4. PlacedIn(Cmd(w), "insert", work[w].next) /\ GotFor(work[w].how, "insert", work[w].next, work[w].got, work[w].ext, Wanted(w))
  BY <1>1, AtStep DEF PlacedIn, Steps, Cmds, Looking, Writing, GotFor, GotBy, HasOne, Early, InReview
<1>5. flagged' \subseteq Slots BY <1>1, <1>2, AtStep
<1> QED BY <1>1, <1>2, <1>3, <1>4, <1>5, QuietMove DEF Went

LEMMA FindOneMoves ==
  ASSUME BookShape, NEW w \in Worker, FindOne(w)
  PROVE  /\ BookShape' /\ Grown
         /\ \E k \in DOMAIN customers : Got(w, "update", k) /\ (IF Chosen(w) THEN k = work[w].got ELSE ~Conflict(w, k))
<1>1. work[w].pc = "find" /\ ~On(w, "idle") BY DEF FindOne, On
<1>2. UNCHANGED << crm, link, status, acked, failures, flagged, switches, settled >> BY DEF FindOne, bookkeeping, memory
<1>3. PICK k \in DOMAIN customers : /\ IF Chosen(w) THEN k = work[w].got ELSE ~Conflict(w, k)
                                    /\ work' = [work EXCEPT ![w].pc = "update", ![w].got = k]
  BY DEF FindOne
<1>4. k \in Nat /\ k \in CustomerIds BY RowsAre DEF BookShape, BookTypes, CustomerIds
<1>5. work' \in [Worker -> Task'] /\ Got(w, "update", k)
  <2>1. "update" \in Places BY DEF Places
  <2> QED BY <1>2, <1>3, <1>4, <2>1, Quiet, GotTo DEF Got
<1>6. PlacedIn(Cmd(w), "update", work[w].next) /\ GotFor(work[w].how, "update", work[w].next, k, work[w].ext, Wanted(w))
  BY <1>1, <1>3, <1>4, AtStep DEF PlacedIn, Steps, Cmds, Looking, Writing, GotFor, GotBy, HasOne, Early, InReview
<1>7. flagged' \subseteq Slots BY <1>1, <1>2, AtStep
<1>8. BookShape' /\ Grown BY <1>1, <1>2, <1>5, <1>6, <1>7, QuietMove DEF Got
<1> QED BY <1>3, <1>5, <1>8

LEMMA MatchedMoves ==
  ASSUME BookShape, NEW w \in Worker, Matched(w)
  PROVE  BookShape' /\ Grown /\ Wrote(w, [customer |-> work[w].got], "ack")
<1>1. work[w].pc = "matched" /\ ~On(w, "idle") BY DEF Matched, On
<1>2. UNCHANGED << crm, link, status, acked, failures, flagged, switches, settled >> BY DEF Matched, bookkeeping, memory
<1>3. work[w].got \in CustomerIds
  <2>1. work[w].got \in DOMAIN customers BY <1>1, AtStep DEF GotFor, GotBy, HasOne
  <2> QED BY <2>1, RowsAre DEF BookShape, BookTypes, CustomerIds
<1>4. work' \in [Worker -> Task'] /\ Wrote(w, [customer |-> work[w].got], "ack")
  <2> DEFINE p == [customer |-> work[w].got]
  <2>1. WriteLink(w, p, "ack") /\ "ack" \in Places BY DEF Matched, Places
  <2>2. p \in Patches BY <1>3, PatchesAre DEF PatchKinds
  <2> HIDE DEF p
  <2>3. work' \in [Worker -> Task'] /\ Wrote(w, p, "ack") BY <1>2, <2>1, <2>2, Quiet, WriteLinkTo DEF Wrote
  <2> QED BY <2>3 DEF p
<1>5. PlacedIn(Cmd(w), "linkRead", "ack") /\ GotFor(work[w].how, "linkRead", "ack", work[w].got, work[w].ext, Wanted(w))
  BY <1>1, AtStep DEF PlacedIn, Steps, WritesOf, Cmds, Looking, Writing, GotFor, GotBy, HasOne, Early, InReview
<1>6. flagged' \subseteq Slots BY <1>1, <1>2, AtStep
<1> QED BY <1>1, <1>2, <1>4, <1>5, <1>6, QuietMove DEF Wrote

LEMMA LinkedMoves ==
  ASSUME BookShape, NEW w \in Worker, Linked(w)
  PROVE  BookShape' /\ Grown /\ Wrote(w, [customer |-> work[w].got], "findJob")
<1>1. work[w].pc = "linked" /\ ~On(w, "idle") BY DEF Linked, On
<1>2. UNCHANGED << crm, link, status, acked, failures, flagged, switches, settled >> BY DEF Linked, bookkeeping, memory
<1>3. flagged' \subseteq Slots BY <1>1, <1>2, AtStep
<1>4. work[w].got \in CustomerIds
  <2>1. work[w].got \in DOMAIN customers BY <1>1, AtStep DEF GotFor, GotBy, HasOne
  <2> QED BY <2>1, RowsAre DEF BookShape, BookTypes, CustomerIds
<1>5. work' \in [Worker -> Task'] /\ Wrote(w, [customer |-> work[w].got], "findJob")
  <2> DEFINE p == [customer |-> work[w].got]
  <2>1. WriteLink(w, p, "findJob") /\ "findJob" \in Places BY DEF Linked, Places
  <2>2. p \in Patches BY <1>4, PatchesAre DEF PatchKinds
  <2> HIDE DEF p
  <2>3. work' \in [Worker -> Task'] /\ Wrote(w, p, "findJob") BY <1>2, <2>1, <2>2, Quiet, WriteLinkTo DEF Wrote
  <2> QED BY <2>3 DEF p
<1>6. PlacedIn(Cmd(w), "linkRead", "findJob") /\ GotFor(work[w].how, "linkRead", "findJob", work[w].got, work[w].ext, Wanted(w))
  BY <1>1, AtStep DEF PlacedIn, Steps, LookupsOf, WritesOf, Cmds, Looking, Writing, GotFor, GotBy, HasOne, Early, InReview
<1> QED BY <1>1, <1>2, <1>3, <1>5, <1>6, QuietMove DEF Wrote

LEMMA ResolvedMoves ==
  ASSUME BookShape, NEW w \in Worker, Resolved(w)
  PROVE  BookShape' /\ Grown /\ Wrote(w, [customer |-> work[w].got, review |-> FALSE], "attachLead")
<1>1. work[w].pc = "resolved" /\ ~On(w, "idle") BY DEF Resolved, On
<1>2. UNCHANGED << crm, link, status, acked, failures, flagged, switches, settled >> BY DEF Resolved, bookkeeping, memory
<1>3. flagged' \subseteq Slots BY <1>1, <1>2, AtStep
<1>4. work[w].got \in CustomerIds
  <2>1. work[w].got \in DOMAIN customers BY <1>1, AtStep DEF GotFor, GotBy, HasOne
  <2> QED BY <2>1, RowsAre DEF BookShape, BookTypes, CustomerIds
<1>5. work' \in [Worker -> Task'] /\ Wrote(w, [customer |-> work[w].got, review |-> FALSE], "attachLead")
  <2> DEFINE p == [customer |-> work[w].got, review |-> FALSE]
  <2>1. WriteLink(w, p, "attachLead") /\ "attachLead" \in Places BY DEF Resolved, Places
  <2>2. p \in Patches BY <1>4, PatchesAre DEF PatchKinds
  <2> HIDE DEF p
  <2>3. work' \in [Worker -> Task'] /\ Wrote(w, p, "attachLead") BY <1>2, <2>1, <2>2, Quiet, WriteLinkTo DEF Wrote
  <2> QED BY <2>3 DEF p
<1>6. PlacedIn(Cmd(w), "linkRead", "attachLead") /\ GotFor(work[w].how, "linkRead", "attachLead", work[w].got, work[w].ext, Wanted(w))
  BY <1>1, AtStep DEF PlacedIn, Steps, LookupsOf, WritesOf, Cmds, Looking, Writing, GotFor, GotBy, HasOne, Early, InReview
<1> QED BY <1>1, <1>2, <1>3, <1>5, <1>6, QuietMove DEF Wrote

LEMMA HealedMoves ==
  ASSUME BookShape, NEW w \in Worker, Healed(w)
  PROVE  BookShape' /\ Grown /\ Wrote(w, [customer |-> work[w].got], "reread")
<1>1. work[w].pc = "healed" /\ ~On(w, "idle") BY DEF Healed, On
<1>2. UNCHANGED << crm, link, status, acked, failures, flagged, switches, settled >> BY DEF Healed, bookkeeping, memory
<1>3. flagged' \subseteq Slots BY <1>1, <1>2, AtStep
<1>4. work[w].got \in CustomerIds
  <2>1. work[w].got \in DOMAIN customers BY <1>1, AtStep DEF GotFor, GotBy, HasOne
  <2> QED BY <2>1, RowsAre DEF BookShape, BookTypes, CustomerIds
<1>5. work' \in [Worker -> Task'] /\ Wrote(w, [customer |-> work[w].got], "reread")
  <2> DEFINE p == [customer |-> work[w].got]
  <2>1. WriteLink(w, p, "reread") /\ "reread" \in Places BY DEF Healed, Places
  <2>2. p \in Patches BY <1>4, PatchesAre DEF PatchKinds
  <2> HIDE DEF p
  <2>3. work' \in [Worker -> Task'] /\ Wrote(w, p, "reread") BY <1>2, <2>1, <2>2, Quiet, WriteLinkTo DEF Wrote
  <2> QED BY <2>3 DEF p
<1>6. PlacedIn(Cmd(w), "linkRead", "reread") /\ GotFor(work[w].how, "linkRead", "reread", work[w].got, work[w].ext, Wanted(w))
  BY <1>1, AtStep DEF PlacedIn, Steps, LookupsOf, WritesOf, Cmds, Looking, Writing, GotFor, GotBy, HasOne, Early, InReview
<1> QED BY <1>1, <1>2, <1>3, <1>5, <1>6, QuietMove DEF Wrote

LEMMA Review2Moves ==
  ASSUME BookShape, NEW w \in Worker, Review2(w)
  PROVE  BookShape' /\ Grown /\ Wrote(w, [appt |-> Wanted(w), customer |-> 0, job |-> 0, booking |-> Wanted(w), review |-> TRUE], "ack")
<1>1. work[w].pc = "review2" /\ ~On(w, "idle") BY DEF Review2, On
<1>2. UNCHANGED << crm, link, status, acked, failures, flagged, switches, settled >> BY DEF Review2, bookkeeping, memory
<1>3. flagged' \subseteq Slots BY <1>1, <1>2, AtStep
<1>4. Wanted(w) \in ApptIds /\ Wanted(w) \in Slots
  BY <1>1, AtStep DEF GotFor, GotBy, InReview, ApptIds
<1>5. work' \in [Worker -> Task'] /\ Wrote(w, [appt |-> Wanted(w), customer |-> 0, job |-> 0, booking |-> Wanted(w), review |-> TRUE], "ack")
  <2> DEFINE p == [appt |-> Wanted(w), customer |-> 0, job |-> 0, booking |-> Wanted(w), review |-> TRUE]
  <2>1. WriteLink(w, p, "ack") /\ "ack" \in Places BY DEF Review2, Places
  <2>2. p \in Patches BY <1>4, PatchesAre DEF PatchKinds
  <2> HIDE DEF p
  <2>3. work' \in [Worker -> Task'] /\ Wrote(w, p, "ack") BY <1>2, <2>1, <2>2, Quiet, WriteLinkTo DEF Wrote
  <2> QED BY <2>3 DEF p
<1>6. PlacedIn(Cmd(w), "linkRead", "ack") /\ GotFor(work[w].how, "linkRead", "ack", work[w].got, work[w].ext, Wanted(w))
  BY <1>1, AtStep DEF PlacedIn, Steps, LookupsOf, WritesOf, Cmds, Looking, Writing, GotFor, GotBy, HasOne, Early, InReview
<1> QED BY <1>1, <1>2, <1>3, <1>5, <1>6, QuietMove DEF Wrote

LEMMA LeadStartMoves ==
  ASSUME BookShape, NEW w \in Worker, LeadStart(w)
  PROVE  BookShape' /\ Grown /\ Took(w, IF link[Conv(w)].lead = 0 THEN "leadInsert" ELSE "leadAttach", link[Conv(w)])
<1>1. work[w].pc = "leadStart" /\ ~On(w, "idle") BY DEF LeadStart, On
<1>2. UNCHANGED << crm, link, status, acked, failures, flagged, switches, settled >> BY DEF LeadStart, bookkeeping, memory
<1>3. flagged' \subseteq Slots BY <1>1, <1>2, AtStep
<1>4. work' \in [Worker -> Task'] /\ Took(w, IF link[Conv(w)].lead = 0 THEN "leadInsert" ELSE "leadAttach", link[Conv(w)])
  <2> DEFINE pc == IF link[Conv(w)].lead = 0 THEN "leadInsert" ELSE "leadAttach"
  <2>1. GotoWith(w, pc, link[Conv(w)]) /\ pc \in Places BY DEF LeadStart, Places
  <2>2. link[Conv(w)] \in Row' BY <1>1, <1>2, AtStep, Quiet
  <2> HIDE DEF pc
  <2>3. work' \in [Worker -> Task'] /\ Took(w, pc, link[Conv(w)]) BY <1>2, <2>1, <2>2, Quiet, GotoWithTo DEF Took
  <2> QED BY <2>3 DEF pc
<1>5. PlacedIn(Cmd(w), IF link[Conv(w)].lead = 0 THEN "leadInsert" ELSE "leadAttach", work[w].next) /\ GotFor(work[w].how, IF link[Conv(w)].lead = 0 THEN "leadInsert" ELSE "leadAttach", work[w].next, work[w].got, work[w].ext, Wanted(w))
  BY <1>1, AtStep DEF PlacedIn, Steps, LookupsOf, WritesOf, Cmds, Looking, Writing, GotFor, GotBy, HasOne, Early, InReview
<1> QED BY <1>1, <1>2, <1>3, <1>4, <1>5, QuietMove DEF Took

LEMMA EnsureMoves ==
  ASSUME BookShape, NEW w \in Worker, Ensure(w)
  PROVE  BookShape' /\ Grown /\ Took(w, IF link[Conv(w)].lead # 0 /\ ~Different(w, link[Conv(w)]) THEN "status" ELSE "newLead", link[Conv(w)])
<1>1. work[w].pc = "ensure" /\ ~On(w, "idle") BY DEF Ensure, On
<1>2. UNCHANGED << crm, link, status, acked, failures, flagged, switches, settled >> BY DEF Ensure, bookkeeping, memory
<1>3. flagged' \subseteq Slots BY <1>1, <1>2, AtStep
<1>4. work' \in [Worker -> Task'] /\ Took(w, IF link[Conv(w)].lead # 0 /\ ~Different(w, link[Conv(w)]) THEN "status" ELSE "newLead", link[Conv(w)])
  <2> DEFINE pc == IF link[Conv(w)].lead # 0 /\ ~Different(w, link[Conv(w)]) THEN "status" ELSE "newLead"
  <2>1. GotoWith(w, pc, link[Conv(w)]) /\ pc \in Places BY DEF Ensure, Places
  <2>2. link[Conv(w)] \in Row' BY <1>1, <1>2, AtStep, Quiet
  <2> HIDE DEF pc
  <2>3. work' \in [Worker -> Task'] /\ Took(w, pc, link[Conv(w)]) BY <1>2, <2>1, <2>2, Quiet, GotoWithTo DEF Took
  <2> QED BY <2>3 DEF pc
<1>5. PlacedIn(Cmd(w), IF link[Conv(w)].lead # 0 /\ ~Different(w, link[Conv(w)]) THEN "status" ELSE "newLead", work[w].next) /\ GotFor(work[w].how, IF link[Conv(w)].lead # 0 /\ ~Different(w, link[Conv(w)]) THEN "status" ELSE "newLead", work[w].next, work[w].got, work[w].ext, Wanted(w))
  BY <1>1, AtStep DEF PlacedIn, Steps, LookupsOf, WritesOf, Cmds, Looking, Writing, GotFor, GotBy, HasOne, Early, InReview
<1> QED BY <1>1, <1>2, <1>3, <1>4, <1>5, QuietMove DEF Took

LEMMA RereadMoves ==
  ASSUME BookShape, NEW w \in Worker, Reread(w)
  PROVE  BookShape' /\ Grown /\ Took(w, "attach", link[Conv(w)])
<1>1. work[w].pc = "reread" /\ ~On(w, "idle") BY DEF Reread, On
<1>2. UNCHANGED << crm, link, status, acked, failures, flagged, switches, settled >> BY DEF Reread, bookkeeping, memory
<1>3. flagged' \subseteq Slots BY <1>1, <1>2, AtStep
<1>4. work' \in [Worker -> Task'] /\ Took(w, "attach", link[Conv(w)])
  <2> DEFINE pc == "attach"
  <2>1. GotoWith(w, pc, link[Conv(w)]) /\ pc \in Places BY DEF Reread, Places
  <2>2. link[Conv(w)] \in Row' BY <1>1, <1>2, AtStep, Quiet
  <2> HIDE DEF pc
  <2>3. work' \in [Worker -> Task'] /\ Took(w, pc, link[Conv(w)]) BY <1>2, <2>1, <2>2, Quiet, GotoWithTo DEF Took
  <2> QED BY <2>3 DEF pc
<1>5. PlacedIn(Cmd(w), "attach", work[w].next) /\ GotFor(work[w].how, "attach", work[w].next, work[w].got, work[w].ext, Wanted(w))
  BY <1>1, AtStep DEF PlacedIn, Steps, LookupsOf, WritesOf, Cmds, Looking, Writing, GotFor, GotBy, HasOne, Early, InReview
<1> QED BY <1>1, <1>2, <1>3, <1>4, <1>5, QuietMove DEF Took

LEMMA LinkReadMoves ==
  ASSUME BookShape, NEW w \in Worker, LinkRead(w)
  PROVE  /\ BookShape' /\ Grown
         /\ To(w, "linkWrite", work[w].next, work[w].mine, link[Conv(w)], work[w].patch, work[w].ext, work[w].got)
<1>1. work[w].pc = "linkRead" /\ ~On(w, "idle") BY DEF LinkRead, On
<1>2. UNCHANGED << crm, link, status, acked, failures, flagged, switches, settled >> BY DEF LinkRead, bookkeeping, memory
<1>3. flagged' \subseteq Slots BY <1>1, <1>2, AtStep
<1>4. link[Conv(w)] \in Row' BY <1>1, <1>2, AtStep, Quiet
<1>5. /\ work' \in [Worker -> Task']
      /\ To(w, "linkWrite", work[w].next, work[w].mine, link[Conv(w)], work[w].patch, work[w].ext, work[w].got)
  BY <1>2, <1>4, Quiet, LinkReadTo
<1>6. PlacedIn(Cmd(w), "linkWrite", work[w].next) /\ GotFor(work[w].how, "linkWrite", work[w].next, work[w].got, work[w].ext, Wanted(w))
  BY <1>1, AtStep DEF PlacedIn, Steps, LookupsOf, WritesOf, Cmds, Looking, Writing, GotFor, GotBy, HasOne, Early, InReview
<1> QED BY <1>1, <1>2, <1>3, <1>5, <1>6, QuietMove

LEMMA LinkStartMoves ==
  ASSUME BookShape, NEW w \in Worker, LinkStart(w)
  PROVE  /\ BookShape' /\ Grown
         /\ \/ ~link[Conv(w)].row /\ Wrote(w, NoPatch, "ack")
            \/ link[Conv(w)].customer = 0 /\ Looked(w, "linked", link[Conv(w)])
            \/ Took(w, "findJob", link[Conv(w)])
<1>1. work[w].pc = "linkStart" /\ ~On(w, "idle") BY DEF LinkStart, On
<1>2. UNCHANGED << crm, link, status, acked, failures, flagged, switches, settled >> BY DEF LinkStart, bookkeeping, memory
<1>3. flagged' \subseteq Slots BY <1>1, <1>2, AtStep
<1>4. CASE ~link[Conv(w)].row
  <2>1. NoPatch \in Patches
    BY DEF Patches
  <2> DEFINE p == NoPatch
  <2>2. WriteLink(w, p, "ack") /\ "ack" \in Places BY <1>1, <1>4 DEF LinkStart, Places
  <2>3. p \in Patches BY <2>1
  <2> HIDE DEF p
  <2>4. work' \in [Worker -> Task'] /\ Wrote(w, p, "ack") BY <1>2, <2>2, <2>3, Quiet, WriteLinkTo DEF Wrote
  <2>5. PlacedIn(Cmd(w), "linkRead", "ack") /\ GotFor(work[w].how, "linkRead", "ack", work[w].got, work[w].ext, Wanted(w))
    BY <1>1, <1>4, AtStep DEF PlacedIn, Steps, LookupsOf, WritesOf, Cmds, Looking, Writing, GotFor, GotBy, HasOne, Early, InReview
  <2>6. BookShape' /\ Grown BY <1>1, <1>2, <1>3, <2>4, <2>5, QuietMove DEF Wrote
  <2> QED BY <1>4, <2>4, <2>6 DEF p
<1>5. CASE link[Conv(w)].row /\ link[Conv(w)].customer = 0
  <2>1. link[Conv(w)] \in Row' BY <1>1, <1>2, AtStep, Quiet
  <2>2. work' = [work EXCEPT ![w].pc = "find", ![w].next = "linked", ![w].mine = link[Conv(w)]] BY <1>1, <1>5 DEF LinkStart
  <2>3. "linked" \in Places BY DEF Places
  <2>4. work' \in [Worker -> Task'] /\ Looked(w, "linked", link[Conv(w)]) BY <1>2, <2>1, <2>2, <2>3, Quiet, FindWithTo DEF Looked
  <2>5. PlacedIn(Cmd(w), "find", "linked") /\ GotFor(work[w].how, "find", "linked", work[w].got, work[w].ext, Wanted(w))
    BY <1>1, <1>5, AtStep DEF PlacedIn, Steps, LookupsOf, WritesOf, Cmds, Looking, Writing, GotFor, GotBy, HasOne, Early, InReview
  <2> QED BY <1>1, <1>5, <1>2, <1>3, <2>4, <2>5, QuietMove DEF Looked
<1>6. CASE link[Conv(w)].row /\ link[Conv(w)].customer # 0
  <2>1. GotoWith(w, "findJob", link[Conv(w)]) /\ "findJob" \in Places BY <1>1, <1>6 DEF LinkStart, GotoWith, Places
  <2>2. link[Conv(w)] \in Row' BY <1>1, <1>2, AtStep, Quiet
  <2>3. work' \in [Worker -> Task'] /\ Took(w, "findJob", link[Conv(w)]) BY <1>2, <2>1, <2>2, Quiet, GotoWithTo DEF Took
  <2>4. PlacedIn(Cmd(w), "findJob", work[w].next) /\ GotFor(work[w].how, "findJob", work[w].next, work[w].got, work[w].ext, Wanted(w))
    BY <1>1, <1>6, AtStep DEF PlacedIn, Steps, LookupsOf, WritesOf, Cmds, Looking, Writing, GotFor, GotBy, HasOne, Early, InReview
  <2> QED BY <1>1, <1>6, <1>2, <1>3, <2>3, <2>4, QuietMove DEF Took
<1> QED BY <1>4, <1>5, <1>6

LEMMA ResolveMoves ==
  ASSUME BookShape, NEW w \in Worker, Resolve(w)
  PROVE  /\ BookShape' /\ Grown
         /\ IF work[w].mine.customer # 0 THEN Went(w, "book") ELSE Looked(w, "resolved", work[w].mine)
<1>1. work[w].pc = "resolve" /\ ~On(w, "idle") BY DEF Resolve, On
<1>2. UNCHANGED << crm, link, status, acked, failures, flagged, switches, settled >> BY DEF Resolve, bookkeeping, memory
<1>3. flagged' \subseteq Slots BY <1>1, <1>2, AtStep
<1>4. CASE work[w].mine.customer # 0
  <2>1. GoOn(w, "book") /\ "book" \in Places BY <1>1, <1>4 DEF Resolve, GoOn, Places
  <2>2. work' \in [Worker -> Task'] /\ Went(w, "book") BY <1>2, <2>1, Quiet, GotoTo DEF Went
  <2>3. PlacedIn(Cmd(w), "book", work[w].next) /\ GotFor(work[w].how, "book", work[w].next, work[w].got, work[w].ext, Wanted(w))
    BY <1>1, <1>4, AtStep DEF PlacedIn, Steps, LookupsOf, WritesOf, Cmds, Looking, Writing, GotFor, GotBy, HasOne, Early, InReview
  <2> QED BY <1>1, <1>4, <1>2, <1>3, <2>2, <2>3, QuietMove DEF Went
<1>5. CASE work[w].mine.customer = 0
  <2>1. work[w].mine \in Row' BY <1>2, TaskHas, Quiet DEF BookShape
  <2>2. work' = [work EXCEPT ![w].pc = "find", ![w].next = "resolved"] BY <1>1, <1>5 DEF Resolve
  <2>3. "resolved" \in Places BY DEF Places
  <2>4. work' \in [Worker -> Task'] /\ Looked(w, "resolved", work[w].mine) BY <1>2, <2>1, <2>2, <2>3, Quiet, FindTo DEF Looked
  <2>5. PlacedIn(Cmd(w), "find", "resolved") /\ GotFor(work[w].how, "find", "resolved", work[w].got, work[w].ext, Wanted(w))
    BY <1>1, <1>5, AtStep DEF PlacedIn, Steps, LookupsOf, WritesOf, Cmds, Looking, Writing, GotFor, GotBy, HasOne, Early, InReview
  <2> QED BY <1>1, <1>5, <1>2, <1>3, <2>4, <2>5, QuietMove DEF Looked
<1> QED BY <1>4, <1>5

LEMMA RefreshMoves ==
  ASSUME BookShape, NEW w \in Worker, Refresh(w)
  PROVE  /\ BookShape' /\ Grown
         /\ IF link[Conv(w)].customer # 0 THEN Took(w, "attach", link[Conv(w)]) ELSE Looked(w, "healed", link[Conv(w)])
<1>1. work[w].pc = "refresh" /\ ~On(w, "idle") BY DEF Refresh, On
<1>2. UNCHANGED << crm, link, status, acked, failures, flagged, switches, settled >> BY DEF Refresh, bookkeeping, memory
<1>3. flagged' \subseteq Slots BY <1>1, <1>2, AtStep
<1>4. CASE link[Conv(w)].customer # 0
  <2>1. GotoWith(w, "attach", link[Conv(w)]) /\ "attach" \in Places BY <1>1, <1>4 DEF Refresh, GotoWith, Places
  <2>2. link[Conv(w)] \in Row' BY <1>1, <1>2, AtStep, Quiet
  <2>3. work' \in [Worker -> Task'] /\ Took(w, "attach", link[Conv(w)]) BY <1>2, <2>1, <2>2, Quiet, GotoWithTo DEF Took
  <2>4. PlacedIn(Cmd(w), "attach", work[w].next) /\ GotFor(work[w].how, "attach", work[w].next, work[w].got, work[w].ext, Wanted(w))
    BY <1>1, <1>4, AtStep DEF PlacedIn, Steps, LookupsOf, WritesOf, Cmds, Looking, Writing, GotFor, GotBy, HasOne, Early, InReview
  <2> QED BY <1>1, <1>4, <1>2, <1>3, <2>3, <2>4, QuietMove DEF Took
<1>5. CASE link[Conv(w)].customer = 0
  <2>1. link[Conv(w)] \in Row' BY <1>1, <1>2, AtStep, Quiet
  <2>2. work' = [work EXCEPT ![w].pc = "find", ![w].next = "healed", ![w].mine = link[Conv(w)]] BY <1>1, <1>5 DEF Refresh
  <2>3. "healed" \in Places BY DEF Places
  <2>4. work' \in [Worker -> Task'] /\ Looked(w, "healed", link[Conv(w)]) BY <1>2, <2>1, <2>2, <2>3, Quiet, FindWithTo DEF Looked
  <2>5. PlacedIn(Cmd(w), "find", "healed") /\ GotFor(work[w].how, "find", "healed", work[w].got, work[w].ext, Wanted(w))
    BY <1>1, <1>5, AtStep DEF PlacedIn, Steps, LookupsOf, WritesOf, Cmds, Looking, Writing, GotFor, GotBy, HasOne, Early, InReview
  <2> QED BY <1>1, <1>5, <1>2, <1>3, <2>4, <2>5, QuietMove DEF Looked
<1> QED BY <1>4, <1>5

LEMMA FindJobMoves ==
  ASSUME BookShape, NEW w \in Worker, FindJob(w)
  PROVE  /\ BookShape' /\ Grown
         /\ \/ Went(w, "attachAll")
            \/ \E j \in DOMAIN crmJobs :
                 work[w].mine.job = 0 /\ crmJobs[j].customer = work[w].mine.customer /\ Wrote(w, [job |-> j], "attachAll")
<1>1. work[w].pc = "findJob" /\ ~On(w, "idle") BY DEF FindJob, On
<1>2. UNCHANGED << crm, link, status, acked, failures, flagged, switches, settled >> BY DEF FindJob, bookkeeping, memory
<1>3. flagged' \subseteq Slots BY <1>1, <1>2, AtStep
<1>4. CASE GoOn(w, "attachAll")
  <2>1. GoOn(w, "attachAll") /\ "attachAll" \in Places BY <1>1, <1>4 DEF FindJob, Places
  <2>2. work' \in [Worker -> Task'] /\ Went(w, "attachAll") BY <1>2, <2>1, Quiet, GotoTo DEF Went
  <2>3. PlacedIn(Cmd(w), "attachAll", work[w].next) /\ GotFor(work[w].how, "attachAll", work[w].next, work[w].got, work[w].ext, Wanted(w))
    BY <1>1, <1>4, AtStep DEF PlacedIn, Steps, LookupsOf, WritesOf, Cmds, Looking, Writing, GotFor, GotBy, HasOne, Early, InReview
  <2> QED BY <1>1, <1>4, <1>2, <1>3, <2>2, <2>3, QuietMove DEF Went
<1>5. CASE work[w].mine.job = 0 /\ \E j \in { i \in DOMAIN crmJobs : crmJobs[i].customer = work[w].mine.customer } : WriteLink(w, [job |-> j], "attachAll")
  <2>0. PICK j \in DOMAIN crmJobs : crmJobs[j].customer = work[w].mine.customer /\ WriteLink(w, [job |-> j], "attachAll")
    BY <1>5
  <2>1. j \in JobIds
    BY <2>0, RowsAre DEF BookShape, BookTypes, JobIds
  <2> DEFINE p == [job |-> j]
  <2>2. WriteLink(w, p, "attachAll") /\ "attachAll" \in Places BY <2>0 DEF Places
  <2>3. p \in Patches BY <2>1, PatchesAre DEF PatchKinds
  <2> HIDE DEF p
  <2>4. work' \in [Worker -> Task'] /\ Wrote(w, p, "attachAll") BY <1>2, <2>2, <2>3, Quiet, WriteLinkTo DEF Wrote
  <2>5. PlacedIn(Cmd(w), "linkRead", "attachAll") /\ GotFor(work[w].how, "linkRead", "attachAll", work[w].got, work[w].ext, Wanted(w))
    BY <1>1, <1>5, AtStep DEF PlacedIn, Steps, LookupsOf, WritesOf, Cmds, Looking, Writing, GotFor, GotBy, HasOne, Early, InReview
  <2>6. BookShape' /\ Grown BY <1>1, <1>2, <1>3, <2>4, <2>5, QuietMove DEF Wrote
  <2> QED BY <1>5, <2>0, <2>4, <2>6 DEF p
<1> QED BY <1>4, <1>5 DEF FindJob

LEMMA LookupMoves ==
  ASSUME BookShape, NEW w \in Worker, Lookup(w)
  PROVE  /\ BookShape' /\ Grown
         /\ IF Duplicate(w, Wanted(w) \in DOMAIN appts, link[Conv(w)])
            THEN Wrote(w, [appt |-> link[Conv(w)].appt, booking |-> link[Conv(w)].booking, review |-> TRUE], "ack") /\ flagged' = flagged \cup {Wanted(w)}
            ELSE To(w, "ensure", work[w].next, work[w].mine, work[w].seen, work[w].patch, Wanted(w) \in DOMAIN appts, work[w].got)
<1>1. work[w].pc = "lookup" /\ ~On(w, "idle") BY DEF Lookup, On
<1>2. UNCHANGED << crm, link, status, acked, failures, switches, settled >> BY DEF Lookup, bookkeeping, memory
<1>3. flagged' \subseteq Slots BY <1>1, AtStep DEF Lookup, Refer
<1>4. CASE Duplicate(w, Wanted(w) \in DOMAIN appts, link[Conv(w)])
  <2>1. link[Conv(w)].appt \in ApptIds /\ link[Conv(w)].booking \in Slots
    BY <1>1, AtStep DEF Row
  <2> DEFINE p == [appt |-> link[Conv(w)].appt, booking |-> link[Conv(w)].booking, review |-> TRUE]
  <2>2. WriteLink(w, p, "ack") /\ "ack" \in Places BY <1>1, <1>4 DEF Lookup, Places, Refer
  <2>3. p \in Patches BY <2>1, PatchesAre DEF PatchKinds
  <2> HIDE DEF p
  <2>4. work' \in [Worker -> Task'] /\ Wrote(w, p, "ack") BY <1>2, <2>2, <2>3, Quiet, WriteLinkTo DEF Wrote
  <2>5. PlacedIn(Cmd(w), "linkRead", "ack") /\ GotFor(work[w].how, "linkRead", "ack", work[w].got, work[w].ext, Wanted(w))
    BY <1>1, <1>4, AtStep DEF PlacedIn, Steps, LookupsOf, WritesOf, Cmds, Looking, Writing, GotFor, GotBy, HasOne, Early, InReview
  <2>6. BookShape' /\ Grown BY <1>1, <1>2, <1>3, <2>4, <2>5, QuietMove DEF Wrote
  <2>7. flagged' = flagged \cup {Wanted(w)} BY <1>1, <1>4 DEF Lookup, Refer
  <2> QED BY <2>7, <1>4, <2>4, <2>6 DEF p
<1>5. CASE ~Duplicate(w, Wanted(w) \in DOMAIN appts, link[Conv(w)])
  <2> DEFINE ext == Wanted(w) \in DOMAIN appts
  <2>1. work' = [work EXCEPT ![w].pc = "ensure", ![w].ext = ext] BY <1>1, <1>5 DEF Lookup
  <2>2. ext \in BOOLEAN OBVIOUS
  <2>3. GotFor(work[w].how, "ensure", work[w].next, work[w].got, ext, Wanted(w))
    BY <1>1, AtStep DEF GotFor, GotBy, HasOne, Early, InReview, Writing
  <2> HIDE DEF ext
  <2>4. /\ work' \in [Worker -> Task']
        /\ To(w, "ensure", work[w].next, work[w].mine, work[w].seen, work[w].patch, ext, work[w].got)
    BY <1>2, <2>1, <2>2, Quiet, EnsureTo
  <2>5. PlacedIn(Cmd(w), "ensure", work[w].next) BY <1>1, AtStep DEF PlacedIn, Steps, Cmds, Looking, Writing
  <2>6. BookShape' /\ Grown BY <1>1, <1>2, <1>3, <2>3, <2>4, <2>5, QuietMove
  <2> QED BY <1>5, <2>4, <2>6 DEF ext
<1> QED BY <1>4, <1>5

LEMMA FindConflictMoves ==
  ASSUME BookShape, NEW w \in Worker, FindConflict(w)
  PROVE  /\ BookShape' /\ Grown
         /\ \/ work[w].next = "linked" /\ Wrote(w, [customer |-> 0, job |-> 0, booking |-> Wanted(w), review |-> TRUE], "ack") /\ flagged' = flagged \cup {Wanted(w)}
            \/ work[w].next = "resolved" /\ Went(w, "review")
            \/ work[w].next = "healed" /\ Went(w, "attach")
            \/ work[w].next = "upsert" /\ Went(w, "upsert")
<1>1. work[w].pc = "find" /\ ~On(w, "idle") BY DEF FindConflict, On
<1>2. UNCHANGED << crm, link, status, acked, failures, switches, settled >> BY DEF FindConflict, bookkeeping, memory
<1>0. work[w].next \in { "linked", "resolved", "healed", "upsert" }
  <2>1. Event(w).kind # "started" BY DEF FindConflict, Conflict, ForBooking
  <2>2. Cmd(w) # "Match" BY <1>1, <2>1, AtStep, CommandsAre DEF Busy, Cmd, Commands
  <2> QED BY <1>1, <2>2, AtStep DEF PlacedIn, Steps, LookupsOf, Cmds, Looking, Writing
<1>3. flagged' \subseteq Slots
  <2>1. CASE work[w].next = "linked"
    <3>1. flagged' = flagged \cup {Wanted(w)} BY <2>1 DEF FindConflict
    <3> QED BY <1>1, <3>1, AtStep
  <2>2. CASE work[w].next # "linked"
    <3>1. UNCHANGED flagged BY <1>0, <2>2 DEF FindConflict
    <3> QED BY <1>1, <3>1, AtStep
  <2> QED BY <2>1, <2>2
<1>4. CASE work[w].next = "linked"
  <2>1. Wanted(w) \in Slots
    BY <1>1, AtStep
  <2> DEFINE p == [customer |-> 0, job |-> 0, booking |-> Wanted(w), review |-> TRUE]
  <2>2. WriteLink(w, p, "ack") /\ "ack" \in Places BY <1>1, <1>4 DEF FindConflict, Places
  <2>3. p \in Patches BY <2>1, PatchesAre DEF PatchKinds
  <2> HIDE DEF p
  <2>4. work' \in [Worker -> Task'] /\ Wrote(w, p, "ack") BY <1>2, <2>2, <2>3, Quiet, WriteLinkTo DEF Wrote
  <2>5. PlacedIn(Cmd(w), "linkRead", "ack") /\ GotFor(work[w].how, "linkRead", "ack", work[w].got, work[w].ext, Wanted(w))
    BY <1>1, <1>4, AtStep DEF PlacedIn, Steps, LookupsOf, WritesOf, Cmds, Looking, Writing, GotFor, GotBy, HasOne, Early, InReview
  <2>6. BookShape' /\ Grown BY <1>1, <1>2, <1>3, <2>4, <2>5, QuietMove DEF Wrote
  <2>7. flagged' = flagged \cup {Wanted(w)} BY <1>1, <1>4 DEF FindConflict
  <2> QED BY <2>7, <1>4, <2>4, <2>6 DEF p
<1>5. CASE work[w].next = "resolved"
  <2>1. GoOn(w, "review") /\ "review" \in Places BY <1>1, <1>5 DEF FindConflict, Places
  <2>2. work' \in [Worker -> Task'] /\ Went(w, "review") BY <1>2, <2>1, Quiet, GotoTo DEF Went
  <2>3. PlacedIn(Cmd(w), "review", work[w].next) /\ GotFor(work[w].how, "review", work[w].next, work[w].got, work[w].ext, Wanted(w))
    BY <1>1, <1>5, AtStep DEF PlacedIn, Steps, LookupsOf, WritesOf, Cmds, Looking, Writing, GotFor, GotBy, HasOne, Early, InReview
  <2> QED BY <1>1, <1>5, <1>2, <1>3, <2>2, <2>3, QuietMove DEF Went
<1>6. CASE work[w].next = "healed"
  <2>1. GoOn(w, "attach") /\ "attach" \in Places BY <1>1, <1>6 DEF FindConflict, Places
  <2>2. work' \in [Worker -> Task'] /\ Went(w, "attach") BY <1>2, <2>1, Quiet, GotoTo DEF Went
  <2>3. PlacedIn(Cmd(w), "attach", work[w].next) /\ GotFor(work[w].how, "attach", work[w].next, work[w].got, work[w].ext, Wanted(w))
    BY <1>1, <1>6, AtStep DEF PlacedIn, Steps, LookupsOf, WritesOf, Cmds, Looking, Writing, GotFor, GotBy, HasOne, Early, InReview
  <2> QED BY <1>1, <1>6, <1>2, <1>3, <2>2, <2>3, QuietMove DEF Went
<1>7. CASE work[w].next = "upsert"
  <2>1. GoOn(w, "upsert") /\ "upsert" \in Places BY <1>1, <1>7 DEF FindConflict, Places
  <2>2. work' \in [Worker -> Task'] /\ Went(w, "upsert") BY <1>2, <2>1, Quiet, GotoTo DEF Went
  <2>3. PlacedIn(Cmd(w), "upsert", work[w].next) /\ GotFor(work[w].how, "upsert", work[w].next, work[w].got, work[w].ext, Wanted(w))
    BY <1>1, <1>7, AtStep DEF PlacedIn, Steps, LookupsOf, WritesOf, Cmds, Looking, Writing, GotFor, GotBy, HasOne, Early, InReview
  <2> QED BY <1>1, <1>7, <1>2, <1>3, <2>2, <2>3, QuietMove DEF Went
<1> QED BY <1>0, <1>4, <1>5, <1>6, <1>7

-----------------------------------------------------------------------------
(* Steps that write rows.                                                  *)

LEMMA Loud ==
  ASSUME BookShape, RowTypes', Grown
  PROVE  /\ work \in [Worker -> Task'] /\ Patches \subseteq Patches' /\ Row \subseteq Row'
         /\ CustomerIds \subseteq CustomerIds' /\ DOMAIN customers \subseteq DOMAIN customers' /\ DOMAIN crmJobs \subseteq DOMAIN crmJobs'
         /\ DOMAIN appts \subseteq DOMAIN appts'
         /\ \A how, pc, next, got, ext, b : GotFor(how, pc, next, got, ext, b) => GotFor(how, pc, next, got, ext, b)'
<1>1. RowTypes /\ work \in [Worker -> Task] BY DEF BookShape, BookTypes
<1>2. Len(customers)' \in Nat /\ Len(leads)' \in Nat /\ Len(crmJobs)' \in Nat BY DEF RowTypes
<1>3. CustomerIds \subseteq CustomerIds' /\ Patches \subseteq Patches' /\ Row \subseteq Row' /\ Task \subseteq Task' BY <1>1, <1>2, GrownTypes
<1>4. DOMAIN customers \subseteq DOMAIN customers' /\ DOMAIN crmJobs \subseteq DOMAIN crmJobs' /\ DOMAIN appts \subseteq DOMAIN appts'
  <2>1. DOMAIN customers = 1 .. Len(customers) /\ DOMAIN crmJobs = 1 .. Len(crmJobs) BY <1>1, RowsAre
  <2>2. DOMAIN customers' = 1 .. Len(customers') /\ DOMAIN crmJobs' = 1 .. Len(crmJobs') BY DEF RowTypes
  <2>3. Len(customers) \in Nat /\ Len(crmJobs) \in Nat BY <1>1, RowsAre
  <2> QED BY <1>2, <2>1, <2>2, <2>3 DEF Grown
<1>5. \A how, pc, next, got, ext, b : GotFor(how, pc, next, got, ext, b) => GotFor(how, pc, next, got, ext, b)'
  BY <1>3, <1>4 DEF GotFor
<1>6. work \in [Worker -> Task'] BY <1>1, <1>3
<1> QED BY <1>3, <1>4, <1>5, <1>6

LEMMA LoudMove ==
  ASSUME BookShape, RowTypes', Grown, UNCHANGED << status, acked, failures >>,
         flagged' \subseteq Slots, switches' \in Nat, settled' \subseteq Conversation,
         work' \in [Worker -> Task'], NEW w \in Worker, ~On(w, "idle"),
         NEW pc, NEW next, NEW mine, NEW seen, NEW patch, NEW ext, NEW got,
         To(w, pc, next, mine, seen, patch, ext, got), PlacedIn(Cmd(w), pc, next), GotFor(work[w].how, pc, next, got, ext, Wanted(w))
  PROVE  BookShape'
<1>1. GotFor(work[w].how, pc, next, got, ext, Wanted(w))'
  <2>1. PICK h, b : h = work[w].how /\ b = Wanted(w) OBVIOUS
  <2>2. GotFor(h, pc, next, got, ext, b)' BY <2>1, Loud
  <2>3. work'[w].how = h BY <2>1 DEF To
  <2>4. Wanted(w)' = b BY <2>1, SameCommand DEF To
  <2> QED BY <2>2, <2>3, <2>4
<1> QED BY <1>1, ToKeeps

LEMMA InsertCustomerMoves ==
  ASSUME BookShape, NEW w \in Worker, InsertCustomer(w)
  PROVE  BookShape' /\ Grown /\ Got(w, work[w].next, Len(customers) + 1)
<1>1. work[w].pc = "insert" /\ ~On(w, "idle") BY DEF InsertCustomer, On
<1>2. UNCHANGED << status, acked, failures, flagged, switches, settled >> BY DEF InsertCustomer, bookkeeping, memory
<1>3. flagged' \subseteq Slots /\ switches' \in Nat /\ settled' \subseteq Conversation BY <1>1, <1>2, AtStep
<1>4. RowTypes' /\ Grown BY CustomerRows
<1>5. work' \in [Worker -> Task'] /\ Got(w, work[w].next, Len(customers) + 1)
  <2>1. work[w].next \in Places /\ Len(customers) + 1 \in Nat BY TaskHas, RowsAre DEF BookShape, BookTypes
  <2>2. work' = [work EXCEPT ![w].pc = work[w].next, ![w].got = Len(customers) + 1] BY DEF InsertCustomer
  <2> QED BY <1>4, <2>1, <2>2, Loud, GotTo DEF Got
<1>6. PlacedIn(Cmd(w), work[w].next, work[w].next)
  BY <1>1, AtStep DEF PlacedIn, Steps, LookupsOf, Cmds, Looking, Writing
<1>7. Len(customers) + 1 \in DOMAIN customers' /\ Len(customers) + 1 \in CustomerIds'
  <2>1. customers' = Append(customers, Name(w)) BY DEF InsertCustomer
  <2>2. customers \in Seq(Names) /\ customers' \in Seq(Names') BY <1>4 DEF BookShape, BookTypes, RowTypes
  <2> QED BY <2>1, <2>2 DEF CustomerIds
<1>8. BookShape'
  <2>1. PICK h, n, b, k, x : h = work[w].how /\ n = work[w].next /\ b = Wanted(w) /\ k = Len(customers) + 1 /\ x = work[w].ext
    OBVIOUS
  <2>2. GotFor(h, n, n, k, x, b)'
    <3>1. n \in { "matched", "linked", "upsert", "resolved", "healed" }
      BY <1>1, <2>1, AtStep DEF PlacedIn, Steps, LookupsOf, Cmds, Looking, Writing
    <3>2. x => b \in DOMAIN appts' BY <1>1, <1>4, <2>1, AtStep DEF GotFor, GotBy, Grown
    <3> QED BY <1>7, <2>1, <3>1, <3>2 DEF GotFor, HasOne, Early, InReview, Writing
  <2>3. To(w, n, n, work[w].mine, work[w].seen, work[w].patch, x, k) BY <1>5, <2>1 DEF Got
  <2>4. work'[w].how = h /\ Wanted(w)' = b BY <2>1, <2>3, SameCommand DEF To
  <2>5. GotFor(work[w].how, n, n, k, x, Wanted(w))' BY <2>2, <2>4
  <2>6. PlacedIn(Cmd(w), n, n) BY <1>6, <2>1
  <2> QED BY <1>1, <1>2, <1>3, <1>4, <1>5, <2>3, <2>5, <2>6, ToKeeps
<1> QED BY <1>4, <1>5, <1>8

LEMMA UpdateCustomerMoves ==
  ASSUME BookShape, NEW w \in Worker, UpdateCustomer(w)
  PROVE  BookShape' /\ Grown /\ Went(w, work[w].next)
<1>1. work[w].pc = "update" /\ ~On(w, "idle") BY DEF UpdateCustomer, On
<1>2. UNCHANGED << status, acked, failures, flagged, switches, settled >> BY DEF UpdateCustomer, bookkeeping, memory
<1>3. flagged' \subseteq Slots /\ switches' \in Nat /\ settled' \subseteq Conversation BY <1>1, <1>2, AtStep
<1>4. RowTypes' /\ Grown BY CustomerRows
<1>5. work' \in [Worker -> Task'] /\ Went(w, work[w].next)
  <2>1. work[w].next \in Places BY TaskHas DEF BookShape, BookTypes
  <2>2. GoOn(w, work[w].next) BY DEF UpdateCustomer
  <2> QED BY <1>4, <2>1, <2>2, Loud, GotoTo DEF Went
<1>6. PlacedIn(Cmd(w), work[w].next, work[w].next)
  BY <1>1, AtStep DEF PlacedIn, Steps, LookupsOf, Cmds, Looking, Writing
<1>7. GotFor(work[w].how, work[w].next, work[w].next, work[w].got, work[w].ext, Wanted(w))
  <2>1. work[w].next \in { "matched", "linked", "upsert", "resolved", "healed" }
    BY <1>1, AtStep DEF PlacedIn, Steps, LookupsOf, Cmds, Looking, Writing
  <2> QED BY <1>1, <2>1, AtStep DEF GotFor, GotBy, HasOne, Early, InReview, Writing
<1> QED BY <1>1, <1>2, <1>3, <1>4, <1>5, <1>6, <1>7, LoudMove DEF Went

LEMMA LinkWriteMoves ==
  ASSUME BookShape, NEW w \in Worker, LinkWrite(w)
  PROVE  /\ BookShape' /\ Grown
         /\ To(w, work[w].next, "idle", Mine(w), NoLink, NoPatch, work[w].ext, work[w].got)
<1>1. work[w].pc = "linkWrite" /\ ~On(w, "idle") BY DEF LinkWrite, On
<1>2. UNCHANGED << status, acked, failures, flagged, switches, settled >> BY DEF LinkWrite, bookkeeping, memory
<1>3. flagged' \subseteq Slots /\ switches' \in Nat /\ settled' \subseteq Conversation BY <1>1, <1>2, AtStep
<1>4. RowTypes' /\ Grown BY LinkRows
<1>5. /\ work' \in [Worker -> Task']
      /\ To(w, work[w].next, "idle", Mine(w), NoLink, NoPatch, work[w].ext, work[w].got)
  <2>1. Mine(w) \in Row
    <3>1. Laid(work[w].patch, work[w].seen) \in Row /\ Laid(work[w].patch, work[w].mine) \in Row BY TaskHas, LaidIs DEF BookShape
    <3> QED BY <3>1 DEF Mine
  <2>2. NoLink \in Row /\ NoPatch \in Patches BY RowsAre DEF BookShape, BookTypes
  <2> QED BY <1>4, <2>1, <2>2, Loud, LinkWriteTo
<1>6. PlacedIn(Cmd(w), work[w].next, "idle")
  BY <1>1, AtStep DEF PlacedIn, Steps, WritesOf, Cmds, Looking, Writing
<1>7. GotFor(work[w].how, work[w].next, "idle", work[w].got, work[w].ext, Wanted(w))
  <2>1. work[w].next \notin Writing /\ work[w].next \notin { "update", "matched", "linked", "resolved", "healed", "lookup", "ensure", "newLead" }
    BY <1>1, AtStep DEF PlacedIn, Steps, WritesOf, Cmds, Looking, Writing
  <2> QED BY <1>1, <2>1, AtStep DEF GotFor, GotBy, HasOne, Early, InReview, Writing
<1> QED BY <1>1, <1>2, <1>3, <1>4, <1>5, <1>6, <1>7, LoudMove


\* A recovery is one command, and no other event is one that the office decided.
LEMMA RecoveryIs ==
  ASSUME NEW w \in Worker, Busy(w)
  PROVE  /\ Event(w).kind = "recovered" => Cmd(w) = "CreateOrUpdate" /\ Len(Commands(Event(w))) = 1 /\ work[w].step = 1
         /\ Cmd(w) = "CreateOrUpdate" => Event(w).kind \in { "confirmed", "completed", "recovered" }
<1>1. Event(w) \in Events /\ work[w].step \in 1 .. Len(Commands(Event(w))) BY DEF Busy
<1>2. Cmd(w) = "CreateOrUpdate" => Event(w).kind \in { "confirmed", "completed", "recovered" } BY <1>1, CommandsAre DEF Cmd
<1>3. ASSUME Event(w).kind = "recovered"
      PROVE  Cmd(w) = "CreateOrUpdate" /\ Len(Commands(Event(w))) = 1 /\ work[w].step = 1
  <2>1. Len(Commands(Event(w))) = 1 /\ Commands(Event(w))[1] = "CreateOrUpdate" BY <1>1, <1>3, CommandsAre
  <2>2. work[w].step = 1 BY <1>1, <2>1
  <2> QED BY <2>1, <2>2 DEF Cmd
<1> QED BY <1>2, <1>3

\* An appointment as the steps leave it.
LEMMA AttachedIs ==
  ASSUME NEW a \in Appt, NEW l \in Row
  PROVE  /\ Attached(a, l) \in Appt /\ Attached(a, l).state = a.state
         /\ Attached(a, l).customer = IF l.customer = 0 THEN a.customer ELSE l.customer
         /\ Attached(a, l).job = IF l.job = 0 THEN a.job ELSE l.job
         /\ Attached(a, l).lead = IF l.lead = 0 THEN a.lead ELSE l.lead
<1>1. l.lead \in LeadIds /\ l.customer \in CustomerIds /\ l.job \in JobIds BY DEF Row
<1> QED BY <1>1 DEF Attached, Appt

LEMMA AppointmentIs ==
  ASSUME NEW l, l.customer \in CustomerIds, l.lead \in LeadIds, l.job \in JobIds, NEW s \in { "scheduled", "completed", "cancelled" }
  PROVE  /\ Appointment(l, s) \in Appt /\ Appointment(l, s).customer = l.customer /\ Appointment(l, s).job = l.job
         /\ Appointment(l, s).lead = l.lead
  BY DEF Appointment, Appt

LEMMA AttachAllMoves ==
  ASSUME BookShape, NEW w \in Worker, AttachAll(w)
  PROVE  BookShape' /\ Grown /\ Went(w, "ack")
<1>1. work[w].pc = "attachAll" /\ ~On(w, "idle") BY DEF AttachAll, On
<1>2. UNCHANGED << customers, link, status, acked, failures, flagged, switches >> BY DEF AttachAll, bookkeeping, memory
<1>3. flagged' \subseteq Slots /\ switches' \in Nat /\ settled' \subseteq Conversation BY <1>1, <1>2, AtStep DEF AttachAll
<1>4. work[w].mine \in Row /\ work[w].mine.customer \in CustomerIds /\ work[w].mine.lead \in LeadIds /\ work[w].mine.job \in JobIds
      /\ work[w].mine.appt \in ApptIds
  BY TaskHas DEF BookShape
<1>5. RowTypes' /\ Grown
  <2>1. RowTypes BY DEF BookShape, BookTypes
  <2>2. \E l : l.customer \in CustomerIds /\ leads' = WithCustomer(l) BY <1>4 DEF AttachAll
  <2>3. crmJobs' = crmJobs BY DEF AttachAll
  <2>4. appts' = appts \/ \E b, a : (b \in DOMAIN appts => a \in Appt) /\ appts' = [appts EXCEPT ![b] = a]
    <3>1. CASE work[w].mine.appt = Nothing BY <3>1 DEF AttachAll
    <3>2. CASE work[w].mine.appt # Nothing
      <4>1. appts' = [appts EXCEPT ![work[w].mine.appt] = Attached(appts[work[w].mine.appt], work[w].mine)] BY <3>2 DEF AttachAll
      <4>2. appts[work[w].mine.appt] \in Appt BY <1>4, <2>1, <3>2 DEF ApptIds, RowTypes
      <4>3. Attached(appts[work[w].mine.appt], work[w].mine) \in Appt BY <1>4, <4>2, AttachedIs
      <4> QED BY <4>1, <4>3
    <3> QED BY <3>1, <3>2
  <2> QED BY <1>2, <2>1, <2>2, <2>3, <2>4, DiaryRows
<1>6. work' \in [Worker -> Task'] /\ Went(w, "ack")
  <2>1. GoOn(w, "ack") /\ "ack" \in Places BY DEF AttachAll, Places
  <2> QED BY <1>5, <2>1, Loud, GotoTo DEF Went
<1>7. PlacedIn(Cmd(w), "ack", work[w].next) /\ GotFor(work[w].how, "ack", work[w].next, work[w].got, work[w].ext, Wanted(w))
  BY <1>1, AtStep DEF PlacedIn, Steps, LookupsOf, WritesOf, Cmds, Looking, Writing, GotFor, GotBy, HasOne, Early, InReview
<1> QED BY <1>1, <1>2, <1>3, <1>5, <1>6, <1>7, LoudMove DEF Went

LEMMA LeadAttachMoves ==
  ASSUME BookShape, NEW w \in Worker, LeadAttach(w)
  PROVE  BookShape' /\ Grown /\ Went(w, "ack")
<1>1. work[w].pc = "leadAttach" /\ ~On(w, "idle") BY DEF LeadAttach, On
<1>2. UNCHANGED << customers, link, status, acked, failures, flagged, switches, settled >> BY DEF LeadAttach, bookkeeping, memory
<1>3. flagged' \subseteq Slots /\ switches' \in Nat /\ settled' \subseteq Conversation BY <1>1, <1>2, AtStep
<1>4. work[w].mine \in Row /\ work[w].mine.customer \in CustomerIds /\ work[w].mine.lead \in LeadIds /\ work[w].mine.job \in JobIds
      /\ work[w].mine.appt \in ApptIds
  BY TaskHas DEF BookShape
<1>5. RowTypes' /\ Grown
  <2>1. RowTypes BY DEF BookShape, BookTypes
  <2>2. \E l : l.customer \in CustomerIds /\ leads' = WithCustomer(l) BY <1>4 DEF LeadAttach
  <2>3. crmJobs' = crmJobs BY DEF LeadAttach
  <2>4. appts' = appts BY DEF LeadAttach
  <2> QED BY <1>2, <2>1, <2>2, <2>3, <2>4, DiaryRows
<1>6. work' \in [Worker -> Task'] /\ Went(w, "ack")
  <2>1. GoOn(w, "ack") /\ "ack" \in Places BY DEF LeadAttach, Places
  <2> QED BY <1>5, <2>1, Loud, GotoTo DEF Went
<1>7. PlacedIn(Cmd(w), "ack", work[w].next) /\ GotFor(work[w].how, "ack", work[w].next, work[w].got, work[w].ext, Wanted(w))
  BY <1>1, AtStep DEF PlacedIn, Steps, LookupsOf, WritesOf, Cmds, Looking, Writing, GotFor, GotBy, HasOne, Early, InReview
<1> QED BY <1>1, <1>2, <1>3, <1>5, <1>6, <1>7, LoudMove DEF Went

LEMMA AttachLeadMoves ==
  ASSUME BookShape, NEW w \in Worker, AttachLead(w)
  PROVE  BookShape' /\ Grown /\ Went(w, "book")
<1>1. work[w].pc = "attachLead" /\ ~On(w, "idle") BY DEF AttachLead, On
<1>2. UNCHANGED << customers, link, status, acked, failures, flagged, switches, settled >> BY DEF AttachLead, bookkeeping, memory
<1>3. flagged' \subseteq Slots /\ switches' \in Nat /\ settled' \subseteq Conversation BY <1>1, <1>2, AtStep
<1>4. work[w].mine \in Row /\ work[w].mine.customer \in CustomerIds /\ work[w].mine.lead \in LeadIds /\ work[w].mine.job \in JobIds
      /\ work[w].mine.appt \in ApptIds
  BY TaskHas DEF BookShape
<1>5. RowTypes' /\ Grown
  <2>1. RowTypes BY DEF BookShape, BookTypes
  <2>2. \E l : l.customer \in CustomerIds /\ leads' = WithCustomer(l)
    <3> DEFINE l == [work[w].mine EXCEPT !.customer = work[w].got]
    <3>1. leads' = WithCustomer(l) BY DEF AttachLead
    <3>2. l.customer = work[w].got BY <1>4 DEF Row
    <3>3. work[w].got \in CustomerIds
      <4>1. work[w].got \in DOMAIN customers BY <1>1, AtStep DEF GotFor, GotBy, HasOne
      <4> QED BY <2>1, <4>1, RowsAre DEF CustomerIds
    <3> QED BY <3>1, <3>2, <3>3
  <2>3. crmJobs' = crmJobs BY DEF AttachLead
  <2>4. appts' = appts BY DEF AttachLead
  <2> QED BY <1>2, <2>1, <2>2, <2>3, <2>4, DiaryRows
<1>6. work' \in [Worker -> Task'] /\ Went(w, "book")
  <2>1. GoOn(w, "book") /\ "book" \in Places BY DEF AttachLead, Places
  <2> QED BY <1>5, <2>1, Loud, GotoTo DEF Went
<1>7. PlacedIn(Cmd(w), "book", work[w].next) /\ GotFor(work[w].how, "book", work[w].next, work[w].got, work[w].ext, Wanted(w))
  BY <1>1, AtStep DEF PlacedIn, Steps, LookupsOf, WritesOf, Cmds, Looking, Writing, GotFor, GotBy, HasOne, Early, InReview
<1> QED BY <1>1, <1>2, <1>3, <1>5, <1>6, <1>7, LoudMove DEF Went

LEMMA AttachMoves ==
  ASSUME BookShape, NEW w \in Worker, Attach(w)
  PROVE  BookShape' /\ Grown /\ Went(w, "job")
<1>1. work[w].pc = "attach" /\ ~On(w, "idle") BY DEF Attach, On
<1>2. UNCHANGED << customers, link, status, acked, failures, flagged, switches, settled >> BY DEF Attach, bookkeeping, memory
<1>3. flagged' \subseteq Slots /\ switches' \in Nat /\ settled' \subseteq Conversation BY <1>1, <1>2, AtStep
<1>4. work[w].mine \in Row /\ work[w].mine.customer \in CustomerIds /\ work[w].mine.lead \in LeadIds /\ work[w].mine.job \in JobIds
      /\ work[w].mine.appt \in ApptIds
  BY TaskHas DEF BookShape
<1>5. RowTypes' /\ Grown
  <2>1. RowTypes BY DEF BookShape, BookTypes
  <2>2. \E l : l.customer \in CustomerIds /\ leads' = WithCustomer(l) BY <1>4 DEF Attach
  <2>3. crmJobs' = crmJobs BY DEF Attach
  <2>4. appts' = appts \/ \E b, a : (b \in DOMAIN appts => a \in Appt) /\ appts' = [appts EXCEPT ![b] = a]
    <3>1. CASE work[w].mine.appt = Nothing \/ work[w].mine.customer = 0 BY <3>1 DEF Attach
    <3>2. CASE ~(work[w].mine.appt = Nothing \/ work[w].mine.customer = 0)
      <4> DEFINE b == work[w].mine.appt
                 a == [appts[b] EXCEPT !.customer = work[w].mine.customer]
      <4>1. appts' = [appts EXCEPT ![b] = a] BY <3>2 DEF Attach
      <4>2. appts[b] \in Appt BY <1>4, <2>1, <3>2 DEF ApptIds, RowTypes
      <4>3. a \in Appt BY <1>4, <4>2 DEF Appt
      <4> QED BY <4>1, <4>3
    <3> QED BY <3>1, <3>2
  <2> QED BY <1>2, <2>1, <2>2, <2>3, <2>4, DiaryRows
<1>6. work' \in [Worker -> Task'] /\ Went(w, "job")
  <2>1. GoOn(w, "job") /\ "job" \in Places BY DEF Attach, Places
  <2> QED BY <1>5, <2>1, Loud, GotoTo DEF Went
<1>7. PlacedIn(Cmd(w), "job", work[w].next) /\ GotFor(work[w].how, "job", work[w].next, work[w].got, work[w].ext, Wanted(w))
  BY <1>1, AtStep DEF PlacedIn, Steps, LookupsOf, WritesOf, Cmds, Looking, Writing, GotFor, GotBy, HasOne, Early, InReview
<1> QED BY <1>1, <1>2, <1>3, <1>5, <1>6, <1>7, LoudMove DEF Went

LEMMA AttachJobMoves ==
  ASSUME BookShape, NEW w \in Worker, AttachJob(w)
  PROVE  BookShape' /\ Grown /\ Went(w, "ack")
<1>1. work[w].pc = "attachJob" /\ ~On(w, "idle") BY DEF AttachJob, On
<1>2. UNCHANGED << customers, link, status, acked, failures, flagged, switches >> BY DEF AttachJob, bookkeeping, memory
<1>3. flagged' \subseteq Slots /\ switches' \in Nat /\ settled' \subseteq Conversation BY <1>1, <1>2, AtStep DEF AttachJob
<1>4. work[w].mine \in Row /\ work[w].mine.customer \in CustomerIds /\ work[w].mine.lead \in LeadIds /\ work[w].mine.job \in JobIds
      /\ work[w].mine.appt \in ApptIds
  BY TaskHas DEF BookShape
<1>5. RowTypes' /\ Grown
  <2>1. RowTypes BY DEF BookShape, BookTypes
  <2>2. leads' = leads BY DEF AttachJob
  <2>3. crmJobs' = crmJobs BY DEF AttachJob
  <2>4. appts' = appts \/ \E b, a : (b \in DOMAIN appts => a \in Appt) /\ appts' = [appts EXCEPT ![b] = a]
    <3>1. CASE work[w].mine.appt = Nothing BY <3>1 DEF AttachJob
    <3>2. CASE work[w].mine.appt # Nothing
      <4> DEFINE b == work[w].mine.appt
                 a == [appts[b] EXCEPT !.job = work[w].mine.job]
      <4>1. appts' = [appts EXCEPT ![b] = a] BY <3>2 DEF AttachJob
      <4>2. appts[b] \in Appt BY <1>4, <2>1, <3>2 DEF ApptIds, RowTypes
      <4>3. a \in Appt BY <1>4, <4>2 DEF Appt
      <4> QED BY <4>1, <4>3
    <3> QED BY <3>1, <3>2
  <2> QED BY <1>2, <2>1, <2>2, <2>3, <2>4, DiaryRows
<1>6. work' \in [Worker -> Task'] /\ Went(w, "ack")
  <2>1. GoOn(w, "ack") /\ "ack" \in Places BY DEF AttachJob, Places
  <2> QED BY <1>5, <2>1, Loud, GotoTo DEF Went
<1>7. PlacedIn(Cmd(w), "ack", work[w].next) /\ GotFor(work[w].how, "ack", work[w].next, work[w].got, work[w].ext, Wanted(w))
  BY <1>1, AtStep DEF PlacedIn, Steps, LookupsOf, WritesOf, Cmds, Looking, Writing, GotFor, GotBy, HasOne, Early, InReview
<1> QED BY <1>1, <1>2, <1>3, <1>5, <1>6, <1>7, LoudMove DEF Went

LEMMA CancelMoves ==
  ASSUME BookShape, NEW w \in Worker, Cancel(w)
  PROVE  BookShape' /\ Grown /\ Went(w, "ack")
<1>1. work[w].pc = "cancel" /\ ~On(w, "idle") BY DEF Cancel, On
<1>2. UNCHANGED << customers, link, status, acked, failures, flagged, switches, settled >> BY DEF Cancel, bookkeeping, memory
<1>3. flagged' \subseteq Slots /\ switches' \in Nat /\ settled' \subseteq Conversation BY <1>1, <1>2, AtStep
<1>4. work[w].mine \in Row /\ work[w].mine.customer \in CustomerIds /\ work[w].mine.lead \in LeadIds /\ work[w].mine.job \in JobIds
      /\ work[w].mine.appt \in ApptIds
  BY TaskHas DEF BookShape
<1>5. RowTypes' /\ Grown
  <2>1. RowTypes BY DEF BookShape, BookTypes
  <2>2. leads' = leads BY DEF Cancel
  <2>3. crmJobs' = crmJobs BY DEF Cancel
  <2>4. appts' = appts \/ \E b, a : (b \in DOMAIN appts => a \in Appt) /\ appts' = [appts EXCEPT ![b] = a]
    <3>1. CASE Wanted(w) \notin DOMAIN appts BY <3>1 DEF Cancel
    <3>2. CASE Wanted(w) \in DOMAIN appts
      <4> DEFINE b == Wanted(w)
                 a == [appts[b] EXCEPT !.state = "cancelled"]
      <4>1. appts' = [appts EXCEPT ![b] = a] BY <3>2 DEF Cancel
      <4>2. appts[b] \in Appt BY <2>1, <3>2 DEF RowTypes
      <4>3. a \in Appt BY <4>2 DEF Appt
      <4> QED BY <4>1, <4>3
    <3> QED BY <3>1, <3>2
  <2> QED BY <1>2, <2>1, <2>2, <2>3, <2>4, DiaryRows
<1>6. work' \in [Worker -> Task'] /\ Went(w, "ack")
  <2>1. GoOn(w, "ack") /\ "ack" \in Places BY DEF Cancel, Places
  <2> QED BY <1>5, <2>1, Loud, GotoTo DEF Went
<1>7. PlacedIn(Cmd(w), "ack", work[w].next) /\ GotFor(work[w].how, "ack", work[w].next, work[w].got, work[w].ext, Wanted(w))
  BY <1>1, AtStep DEF PlacedIn, Steps, LookupsOf, WritesOf, Cmds, Looking, Writing, GotFor, GotBy, HasOne, Early, InReview
<1> QED BY <1>1, <1>2, <1>3, <1>5, <1>6, <1>7, LoudMove DEF Went

LEMMA UpsertMoves ==
  ASSUME BookShape, NEW w \in Worker, Upsert(w)
  PROVE  BookShape' /\ Grown /\ Went(w, "ack")
<1>1. work[w].pc = "upsert" /\ ~On(w, "idle") BY DEF Upsert, On
<1>2. UNCHANGED << customers, link, status, acked, failures, flagged, switches, settled >> BY DEF Upsert, bookkeeping, memory
<1>3. flagged' \subseteq Slots /\ switches' \in Nat /\ settled' \subseteq Conversation BY <1>1, <1>2, AtStep
<1>4. work[w].mine \in Row /\ work[w].mine.customer \in CustomerIds /\ work[w].mine.lead \in LeadIds /\ work[w].mine.job \in JobIds
      /\ work[w].mine.appt \in ApptIds
  BY TaskHas DEF BookShape
<1>5. RowTypes' /\ Grown
  <2>1. RowTypes BY DEF BookShape, BookTypes
  <2>2. leads' = leads BY DEF Upsert
  <2>3. crmJobs' = crmJobs BY DEF Upsert
  <2>4. \/ \E b \in Slots : \E a \in Appt : appts' = Put(b, a)
        \/ \E b, a : (b \in DOMAIN appts => a \in Appt) /\ appts' = [appts EXCEPT ![b] = a]
    <3>0. work[w].got \in CustomerIds
      <4>1. Cmd(w) = "Upsert" BY <1>1, AtStep DEF PlacedIn, Steps, Cmds, Looking, Writing
      <4>2. Event(w).kind # "recovered" BY <1>1, <4>1, AtStep, RecoveryIs
      <4> QED BY <1>1, <4>2, AtStep DEF Busy, GotFor, GotBy
    <3>1. CASE Wanted(w) \notin DOMAIN appts
      <4> DEFINE l == [NoLink EXCEPT !.customer = work[w].got]
      <4>1. appts' = Put(Wanted(w), Appointment(l, "scheduled")) BY <3>1 DEF Upsert
      <4>2. l.customer = work[w].got /\ l.lead = 0 /\ l.job = 0 BY DEF NoLink
      <4>3. l.customer \in CustomerIds /\ l.lead \in LeadIds /\ l.job \in JobIds BY <2>1, <3>0, <4>2, RowsAre
      <4> HIDE DEF l
      <4>4. Appointment(l, "scheduled") \in Appt BY <4>3, AppointmentIs
      <4> QED BY <1>1, <4>1, <4>4, AtStep
    <3>2. CASE Wanted(w) \in DOMAIN appts
      <4> DEFINE b == Wanted(w)
                 a == [appts[b] EXCEPT !.state = "scheduled", !.customer = IF @ = 0 THEN work[w].got ELSE @]
      <4>1. appts' = [appts EXCEPT ![b] = a] BY <2>1, <3>2 DEF Upsert, RowTypes
      <4>2. appts[b] \in Appt BY <2>1, <3>2 DEF RowTypes
      <4>3. a \in Appt BY <3>0, <4>2 DEF Appt
      <4> QED BY <4>1, <4>3
    <3> QED BY <3>1, <3>2
  <2> QED BY <1>2, <2>1, <2>2, <2>3, <2>4, DiaryRows
<1>6. work' \in [Worker -> Task'] /\ Went(w, "ack")
  <2>1. GoOn(w, "ack") /\ "ack" \in Places BY DEF Upsert, Places
  <2> QED BY <1>5, <2>1, Loud, GotoTo DEF Went
<1>7. PlacedIn(Cmd(w), "ack", work[w].next) /\ GotFor(work[w].how, "ack", work[w].next, work[w].got, work[w].ext, Wanted(w))
  BY <1>1, AtStep DEF PlacedIn, Steps, LookupsOf, WritesOf, Cmds, Looking, Writing, GotFor, GotBy, HasOne, Early, InReview
<1> QED BY <1>1, <1>2, <1>3, <1>5, <1>6, <1>7, LoudMove DEF Went

LEMMA LeadInsertMoves ==
  ASSUME BookShape, NEW w \in Worker, LeadInsert(w)
  PROVE  BookShape' /\ Grown /\ Wrote(w, [lead |-> Len(leads) + 1], "leadAttach")
<1>1. work[w].pc = "leadInsert" /\ ~On(w, "idle") BY DEF LeadInsert, On
<1>2. UNCHANGED << customers, link, status, acked, failures, flagged, switches, settled >> BY DEF LeadInsert, bookkeeping, memory
<1>3. flagged' \subseteq Slots /\ switches' \in Nat /\ settled' \subseteq Conversation BY <1>1, <1>2, AtStep
<1>4. work[w].mine \in Row /\ work[w].mine.customer \in CustomerIds /\ work[w].mine.lead \in LeadIds /\ work[w].mine.job \in JobIds
      /\ work[w].mine.appt \in ApptIds
  BY TaskHas DEF BookShape
<1>5. RowTypes' /\ Grown
  <2>1. RowTypes BY DEF BookShape, BookTypes
  <2>2. leads' = Append(leads, 0) BY DEF LeadInsert
  <2>3. crmJobs' = crmJobs BY DEF LeadInsert
  <2>4. appts' = appts BY DEF LeadInsert
  <2> QED BY <1>2, <2>1, <2>2, <2>3, <2>4, DiaryRows
<1>6. Len(leads) + 1 \in LeadIds'
  <2>1. leads' = Append(leads, 0) BY DEF LeadInsert
  <2>2. leads \in Seq(CustomerIds) /\ leads' \in Seq(CustomerIds') BY <1>5 DEF BookShape, BookTypes, RowTypes
  <2> QED BY <2>1, <2>2 DEF LeadIds
<1>7. work' \in [Worker -> Task'] /\ Wrote(w, [lead |-> Len(leads) + 1], "leadAttach")
  <2> DEFINE p == [lead |-> Len(leads) + 1]
  <2>1. WriteLink(w, p, "leadAttach") /\ "leadAttach" \in Places BY DEF LeadInsert, Places
  <2>2. p \in Patches' BY <1>6, PatchesWillBe DEF PatchKinds
  <2> HIDE DEF p
  <2>3. work' \in [Worker -> Task'] /\ Wrote(w, p, "leadAttach") BY <1>5, <2>1, <2>2, Loud, WriteLinkTo DEF Wrote
  <2> QED BY <2>3 DEF p
<1>8. PlacedIn(Cmd(w), "linkRead", "leadAttach") /\ GotFor(work[w].how, "linkRead", "leadAttach", work[w].got, work[w].ext, Wanted(w))
  BY <1>1, AtStep DEF PlacedIn, Steps, LookupsOf, WritesOf, Cmds, Looking, Writing, GotFor, GotBy, HasOne, Early, InReview
<1> QED BY <1>1, <1>2, <1>3, <1>5, <1>7, <1>8, LoudMove DEF Wrote

LEMMA NewLeadMoves ==
  ASSUME BookShape, NEW w \in Worker, NewLead(w)
  PROVE  /\ BookShape' /\ Grown
         /\ \/ Different(w, work[w].mine) /\ Wrote(w, Turned(w), "status") /\ switches' = switches + 1
            \/ ~Different(w, work[w].mine) /\ Wrote(w, NewRow(w), "status") /\ switches' = switches
<1>1. work[w].pc = "newLead" /\ ~On(w, "idle") BY DEF NewLead, On
<1>2. UNCHANGED << customers, link, status, acked, failures, flagged, settled >> BY DEF NewLead, bookkeeping, memory
<1>3. flagged' \subseteq Slots /\ switches' \in Nat /\ settled' \subseteq Conversation BY <1>1, <1>2, AtStep DEF NewLead
<1>4. work[w].mine \in Row /\ work[w].mine.customer \in CustomerIds /\ work[w].mine.lead \in LeadIds /\ work[w].mine.job \in JobIds
      /\ work[w].mine.appt \in ApptIds
  BY TaskHas DEF BookShape
<1>5. RowTypes' /\ Grown
  <2>1. RowTypes BY DEF BookShape, BookTypes
  <2>2. leads' = Append(leads, 0) BY DEF NewLead
  <2>3. crmJobs' = crmJobs BY DEF NewLead
  <2>4. appts' = appts BY DEF NewLead
  <2> QED BY <1>2, <2>1, <2>2, <2>3, <2>4, DiaryRows
<1>6. Len(leads) + 1 \in LeadIds'
  <2>1. leads' = Append(leads, 0) BY DEF NewLead
  <2>2. leads \in Seq(CustomerIds) /\ leads' \in Seq(CustomerIds') BY <1>5 DEF BookShape, BookTypes, RowTypes
  <2> QED BY <2>1, <2>2 DEF LeadIds
<1>7. \E p \in Patches' :
        /\ WriteLink(w, p, "status")
        /\ \/ Different(w, work[w].mine) /\ p = Turned(w) /\ switches' = switches + 1
           \/ ~Different(w, work[w].mine) /\ p = NewRow(w) /\ switches' = switches
  <2>1. Wanted(w) \in Slots' BY <1>1, AtStep DEF Slots
  <2>2. Turned(w) \in Patches' /\ NewRow(w) \in Patches'
    <3>1. PICK l, b : l = Len(leads) + 1 /\ b = Wanted(w) OBVIOUS
    <3>2. [lead |-> l, booking |-> b, review |-> FALSE] \in Patches' BY <1>6, <2>1, <3>1, PatchesWillBe DEF PatchKinds
    <3>3. [lead |-> l, booking |-> b, review |-> FALSE, customer |-> 0, job |-> 0, appt |-> Nothing] \in Patches'
      BY <1>6, <2>1, <3>1, PatchesWillBe DEF PatchKinds
    <3> QED BY <3>1, <3>2, <3>3 DEF Turned, NewRow
  <2>3. CASE Different(w, work[w].mine)
    <3>1. WriteLink(w, Turned(w), "status") /\ switches' = switches + 1 BY <2>3 DEF NewLead, Turned
    <3> QED BY <2>2, <2>3, <3>1
  <2>4. CASE ~Different(w, work[w].mine)
    <3>1. WriteLink(w, NewRow(w), "status") /\ switches' = switches BY <2>4 DEF NewLead, NewRow
    <3> QED BY <2>2, <2>4, <3>1
  <2> QED BY <2>3, <2>4
<1>8. PICK p \in Patches' :
        /\ WriteLink(w, p, "status")
        /\ \/ Different(w, work[w].mine) /\ p = Turned(w) /\ switches' = switches + 1
           \/ ~Different(w, work[w].mine) /\ p = NewRow(w) /\ switches' = switches
  BY <1>7
<1>9. work' \in [Worker -> Task'] /\ Wrote(w, p, "status")
  <2>1. "status" \in Places BY DEF Places
  <2> QED BY <1>5, <1>8, <2>1, Loud, WriteLinkTo DEF Wrote
<1>10. PlacedIn(Cmd(w), "linkRead", "status") /\ GotFor(work[w].how, "linkRead", "status", work[w].got, work[w].ext, Wanted(w))
  BY <1>1, AtStep DEF PlacedIn, Steps, LookupsOf, WritesOf, Cmds, Looking, Writing, GotFor, GotBy, HasOne, Early, InReview
<1>11. BookShape' /\ Grown BY <1>1, <1>2, <1>3, <1>5, <1>9, <1>10, LoudMove DEF Wrote
<1> QED BY <1>8, <1>9, <1>11

LEMMA StatusMoves ==
  ASSUME BookShape, NEW w \in Worker, Status(w)
  PROVE  /\ BookShape' /\ Grown
         /\ IF work[w].how = "linkJob"
            THEN Wrote(w, [job |-> work[w].got, customer |-> crmJobs[work[w].got].customer, review |-> FALSE], "resolve") /\ work[w].got \in DOMAIN crmJobs
            ELSE Went(w, "resolve")
<1>1. work[w].pc = "status" /\ ~On(w, "idle") BY DEF Status, On
<1>2. UNCHANGED << customers, link, status, acked, failures, flagged, switches, settled >> BY DEF Status, bookkeeping, memory
<1>3. flagged' \subseteq Slots /\ switches' \in Nat /\ settled' \subseteq Conversation BY <1>1, <1>2, AtStep
<1>4. work[w].mine \in Row /\ work[w].mine.customer \in CustomerIds /\ work[w].mine.lead \in LeadIds /\ work[w].mine.job \in JobIds
      /\ work[w].mine.appt \in ApptIds
  BY TaskHas DEF BookShape
<1>5. RowTypes' /\ Grown
  <2>1. RowTypes BY DEF BookShape, BookTypes
  <2>2. \E l : l.customer \in CustomerIds /\ leads' = WithCustomer(l) BY <1>4 DEF Status
  <2>3. crmJobs' = crmJobs BY DEF Status
  <2>4. appts' = appts BY DEF Status
  <2> QED BY <1>2, <2>1, <2>2, <2>3, <2>4, DiaryRows
<1>6. CASE work[w].how = "linkJob"
  <2> DEFINE p == [job |-> work[w].got, customer |-> crmJobs[work[w].got].customer, review |-> FALSE]
  <2>1. work[w].got \in DOMAIN crmJobs BY <1>1, <1>6, AtStep DEF GotFor, GotBy, Early
  <2>2. work[w].got \in JobIds /\ crmJobs[work[w].got].customer \in CustomerIds
    <3>1. RowTypes BY DEF BookShape, BookTypes
    <3>2. work[w].got \in 1 .. Len(crmJobs) /\ Len(crmJobs) \in Nat BY <2>1, <3>1, RowsAre
    <3>3. crmJobs[work[w].got] \in JobRow BY <3>1, <3>2 DEF RowTypes
    <3> QED BY <3>2, <3>3 DEF JobIds, JobRow
  <2>3. WriteLink(w, p, "resolve") /\ "resolve" \in Places BY <1>6 DEF Status, Places
  <2>4. p \in Patches BY <2>2, PatchesAre DEF PatchKinds
  <2> HIDE DEF p
  <2>5. p \in Patches' BY <1>5, <2>4, Loud
  <2>6. work' \in [Worker -> Task'] /\ Wrote(w, p, "resolve") BY <1>5, <2>3, <2>5, Loud, WriteLinkTo DEF Wrote
  <2>7. PlacedIn(Cmd(w), "linkRead", "resolve") /\ GotFor(work[w].how, "linkRead", "resolve", work[w].got, work[w].ext, Wanted(w))
    BY <1>1, AtStep DEF PlacedIn, Steps, LookupsOf, WritesOf, Cmds, Looking, Writing, GotFor, GotBy, HasOne, Early, InReview
  <2>8. BookShape' BY <1>1, <1>2, <1>3, <1>5, <2>6, <2>7, LoudMove DEF Wrote
  <2> QED BY <1>5, <1>6, <2>1, <2>6, <2>8 DEF p
<1>7. CASE work[w].how # "linkJob"
  <2>1. GoOn(w, "resolve") /\ "resolve" \in Places BY <1>7 DEF Status, Places
  <2>2. work' \in [Worker -> Task'] /\ Went(w, "resolve") BY <1>5, <2>1, Loud, GotoTo DEF Went
  <2>3. PlacedIn(Cmd(w), "resolve", work[w].next) /\ GotFor(work[w].how, "resolve", work[w].next, work[w].got, work[w].ext, Wanted(w))
    BY <1>1, AtStep DEF PlacedIn, Steps, LookupsOf, WritesOf, Cmds, Looking, Writing, GotFor, GotBy, HasOne, Early, InReview
  <2> QED BY <1>1, <1>2, <1>3, <1>5, <1>7, <2>2, <2>3, LoudMove DEF Went
<1> QED BY <1>6, <1>7

LEMMA MakeJobMoves ==
  ASSUME BookShape, NEW w \in Worker, MakeJob(w)
  PROVE  /\ BookShape' /\ Grown
         /\ \/ work[w].mine.job # 0 /\ crmJobs' = crmJobs /\ Wrote(w, [review |-> FALSE], "attachJob")
            \/ /\ work[w].mine.job = 0 /\ work[w].mine.customer # 0
               /\ crmJobs' = Append(crmJobs, [customer |-> work[w].mine.customer, lead |-> work[w].mine.lead])
               /\ Wrote(w, [job |-> Len(crmJobs) + 1, review |-> FALSE], "attachJob")
            \/ work[w].mine.job = 0 /\ work[w].mine.customer = 0 /\ crmJobs' = crmJobs /\ Went(w, "ack")
<1>1. work[w].pc = "job" /\ ~On(w, "idle") BY DEF MakeJob, On
<1>2. UNCHANGED << customers, leads, appts, link, status, acked, failures, flagged, switches, settled >> BY DEF MakeJob, bookkeeping, memory
<1>3. flagged' \subseteq Slots /\ switches' \in Nat /\ settled' \subseteq Conversation BY <1>1, <1>2, AtStep
<1>4. work[w].mine.customer \in CustomerIds /\ work[w].mine.lead \in LeadIds BY TaskHas DEF BookShape
<1>5. RowTypes BY DEF BookShape, BookTypes
<1>6. PlacedIn(Cmd(w), "linkRead", "attachJob") /\ GotFor(work[w].how, "linkRead", "attachJob", work[w].got, work[w].ext, Wanted(w))
  BY <1>1, AtStep DEF PlacedIn, Steps, LookupsOf, WritesOf, Cmds, Looking, Writing, GotFor, GotBy, HasOne, Early, InReview
<1>7. CASE work[w].mine.job # 0
  <2> DEFINE p == [review |-> FALSE]
  <2>1. WriteLink(w, p, "attachJob") /\ crmJobs' = crmJobs /\ "attachJob" \in Places BY <1>7 DEF MakeJob, Places
  <2>2. p \in Patches BY PatchesAre DEF PatchKinds
  <2>3. RowTypes' /\ Grown BY <1>2, <1>5, <2>1, DiaryRows
  <2> HIDE DEF p
  <2>4. p \in Patches' BY <2>2, <2>3, Loud
  <2>5. work' \in [Worker -> Task'] /\ Wrote(w, p, "attachJob") BY <2>1, <2>3, <2>4, Loud, WriteLinkTo DEF Wrote
  <2>6. BookShape' BY <1>1, <1>2, <1>3, <1>6, <2>3, <2>5, LoudMove DEF Wrote
  <2> QED BY <1>7, <2>1, <2>3, <2>5, <2>6 DEF p
<1>8. CASE work[w].mine.job = 0 /\ work[w].mine.customer # 0
  <2> DEFINE p == [job |-> Len(crmJobs) + 1, review |-> FALSE]
             r == [customer |-> work[w].mine.customer, lead |-> work[w].mine.lead]
  <2>1. WriteLink(w, p, "attachJob") /\ crmJobs' = Append(crmJobs, r) /\ "attachJob" \in Places BY <1>8 DEF MakeJob, Places
  <2>2. r \in JobRow BY <1>4 DEF JobRow
  <2>3. RowTypes' /\ Grown BY <1>2, <1>5, <2>1, <2>2, DiaryRows
  <2>4. Len(crmJobs) + 1 \in JobIds' 
    <3>1. crmJobs \in Seq(JobRow) /\ crmJobs' \in Seq(JobRow') BY <1>5, <2>3 DEF RowTypes
    <3> HIDE DEF r
    <3> QED BY <2>1, <3>1 DEF JobIds
  <2>5. p \in Patches' BY <2>4, PatchesWillBe DEF PatchKinds
  <2> HIDE DEF p
  <2>6. work' \in [Worker -> Task'] /\ Wrote(w, p, "attachJob") BY <2>1, <2>3, <2>5, Loud, WriteLinkTo DEF Wrote
  <2>7. BookShape' BY <1>1, <1>2, <1>3, <1>6, <2>3, <2>6, LoudMove DEF Wrote
  <2> QED BY <1>8, <2>1, <2>3, <2>6, <2>7 DEF p
<1>9. CASE work[w].mine.job = 0 /\ work[w].mine.customer = 0
  <2>1. GoOn(w, "ack") /\ crmJobs' = crmJobs /\ "ack" \in Places BY <1>9 DEF MakeJob, Places
  <2>2. RowTypes' /\ Grown BY <1>2, <1>5, <2>1, DiaryRows
  <2>3. work' \in [Worker -> Task'] /\ Went(w, "ack") BY <2>1, <2>2, Loud, GotoTo DEF Went
  <2>4. PlacedIn(Cmd(w), "ack", work[w].next) /\ GotFor(work[w].how, "ack", work[w].next, work[w].got, work[w].ext, Wanted(w))
    BY <1>1, AtStep DEF PlacedIn, Steps, LookupsOf, WritesOf, Cmds, Looking, Writing, GotFor, GotBy, HasOne, Early, InReview
  <2>5. BookShape' BY <1>1, <1>2, <1>3, <2>2, <2>3, <2>4, LoudMove DEF Went
  <2> QED BY <1>9, <2>1, <2>2, <2>3, <2>5
<1> QED BY <1>7, <1>8, <1>9

\* The appointment that is made, or brought up to date.
LEMMA ReviewMoves ==
  ASSUME BookShape, NEW w \in Worker, Review(w)
  PROVE  /\ BookShape' /\ Grown /\ flagged' = flagged \cup {Wanted(w)} /\ Wanted(w) \in DOMAIN appts'
         /\ IF work[w].ext THEN Went(w, "review2") ELSE Wrote(w, [appt |-> Wanted(w)], "review2")
         /\ \A b \in DOMAIN appts : appts'[b].customer = appts[b].customer
<1>1. work[w].pc = "review" /\ ~On(w, "idle") BY DEF Review, On
<1>2. UNCHANGED << customers, leads, crmJobs, link, status, acked, failures, switches, settled >> BY DEF Review, bookkeeping, memory
<1>3. flagged' = flagged \cup {Wanted(w)} BY DEF Review
<1>4. flagged' \subseteq Slots /\ switches' \in Nat /\ settled' \subseteq Conversation BY <1>1, <1>2, <1>3, AtStep
<1>5. work[w].mine.customer \in CustomerIds /\ work[w].mine.lead \in LeadIds /\ work[w].mine \in Row BY TaskHas DEF BookShape
<1>6. RowTypes BY DEF BookShape, BookTypes
<1>7. CASE work[w].ext
  <2>1. Wanted(w) \in DOMAIN appts BY <1>1, <1>7, AtStep DEF GotFor, GotBy
  <2> DEFINE b == Wanted(w)
             a == [appts[b] EXCEPT !.state = "scheduled", !.lead = work[w].mine.lead]
  <2>2. appts' = [appts EXCEPT ![b] = a] BY <1>6, <1>7, <2>1 DEF Review, RowTypes
  <2>3. appts[b] \in Appt BY <1>6, <2>1 DEF RowTypes
  <2>4. a \in Appt /\ a.customer = appts[b].customer BY <1>5, <2>3 DEF Appt
  <2>5. GoOn(w, "review2") /\ "review2" \in Places BY <1>7 DEF Review, Places
  <2> HIDE DEF a
  <2>6. RowTypes' /\ Grown BY <1>2, <1>6, <2>2, <2>4, DiaryRows
  <2>7. work' \in [Worker -> Task'] /\ Went(w, "review2") BY <2>5, <2>6, Loud, GotoTo DEF Went
  <2>8. PlacedIn(Cmd(w), "review2", work[w].next) /\ GotFor(work[w].how, "review2", work[w].next, work[w].got, work[w].ext, b)
    BY <1>1, <2>1, AtStep DEF PlacedIn, Steps, LookupsOf, WritesOf, Cmds, Looking, Writing, GotFor, GotBy, HasOne, Early, InReview
  <2>9. BookShape' BY <1>1, <1>2, <1>4, <2>6, <2>7, <2>8, LoudMove DEF Went
  <2>10. \A k \in DOMAIN appts : appts'[k].customer = appts[k].customer BY <1>6, <2>2, <2>4 DEF RowTypes
  <2>11. b \in DOMAIN appts' BY <2>1, <2>6 DEF Grown
  <2> QED BY <1>3, <1>7, <2>6, <2>7, <2>9, <2>10, <2>11
<1>8. CASE ~work[w].ext
  <2> DEFINE b == Wanted(w)
             l == [work[w].mine EXCEPT !.customer = 0, !.job = 0]
             a == Appointment(l, "scheduled")
             p == [appt |-> b]
  <2>1. InsertAppointment(w, l) BY <1>8 DEF Review
  <2>2. b \notin DOMAIN appts /\ appts' = Put(b, a) BY <2>1 DEF InsertAppointment
  <2>3. a \in Appt
    <3>1. l.customer = 0 /\ l.job = 0 /\ l.lead = work[w].mine.lead BY <1>5 DEF Row
    <3>2. l.customer \in CustomerIds /\ l.job \in JobIds /\ l.lead \in LeadIds BY <1>5, <1>6, <3>1, RowsAre
    <3> HIDE DEF l
    <3> QED BY <3>2, AppointmentIs
  <2>4. WriteLink(w, p, "review2") /\ "review2" \in Places BY <1>8 DEF Review, Places
  <2>5. b \in Slots BY <1>1, AtStep
  <2> HIDE DEF a
  <2>6. RowTypes' /\ Grown BY <1>2, <1>6, <2>2, <2>3, <2>5, DiaryRows
  <2>7. b \in DOMAIN appts' /\ \A k \in DOMAIN appts : appts'[k] = appts[k] BY <2>2 DEF Put
  <2>8. b \in ApptIds' BY <2>7 DEF ApptIds
  <2>9. p \in Patches' BY <2>8, PatchesWillBe DEF PatchKinds
  <2> HIDE DEF p
  <2>10. work' \in [Worker -> Task'] /\ Wrote(w, p, "review2") BY <2>4, <2>6, <2>9, Loud, WriteLinkTo DEF Wrote
  <2>11. PlacedIn(Cmd(w), "linkRead", "review2") BY <1>1, AtStep DEF PlacedIn, Steps, WritesOf, Cmds, Looking, Writing
  <2>12. BookShape'
    <3>1. PICK h, g, x, c : h = work[w].how /\ g = work[w].got /\ x = work[w].ext /\ c = b OBVIOUS
    <3>2. GotFor(h, work[w].pc, work[w].next, g, x, c)  BY <1>1, <3>1, AtStep DEF GotBy
    <3>3. h # "linkJob" => g \in CustomerIds BY <3>2 DEF GotFor
    <3>4. h = "linkCustomer" => g \in DOMAIN customers BY <3>2 DEF GotFor
    <3>5. CustomerIds \subseteq CustomerIds' /\ DOMAIN customers \subseteq DOMAIN customers' BY <2>6, Loud
    <3>6. GotFor(h, "linkRead", "review2", g, x, c)' 
      BY <2>7, <3>1, <3>3, <3>4, <3>5 DEF GotFor, HasOne, Early, Writing
    <3>7. To(w, "linkRead", "review2", work[w].mine, work[w].seen, p, x, g) BY <2>10, <3>1 DEF Wrote
    <3>8. work'[w].how = h /\ Wanted(w)' = c BY <3>1, <3>7, SameCommand DEF To
    <3>9. GotFor(work[w].how, "linkRead", "review2", g, x, Wanted(w))' BY <3>6, <3>8
    <3> HIDE DEF b
    <3> QED BY <1>1, <1>2, <1>4, <2>6, <2>10, <2>11, <3>7, <3>9, ToKeeps
  <2> QED BY <1>3, <1>8, <2>6, <2>7, <2>10, <2>12 DEF p
<1> QED BY <1>7, <1>8

LEMMA BookMoves ==
  ASSUME BookShape, NEW w \in Worker, Book(w)
  PROVE  /\ BookShape' /\ Grown
         /\ \/ /\ Duplicate(w, work[w].ext, work[w].mine) /\ appts' = appts /\ flagged' = flagged \cup {Wanted(w)}
               /\ Wrote(w, [appt |-> work[w].mine.appt, booking |-> work[w].mine.booking, review |-> TRUE], "ack")
            \/ /\ ~Duplicate(w, work[w].ext, work[w].mine) /\ flagged' = flagged
               /\ Wanted(w) \in DOMAIN appts' /\ DOMAIN appts' = DOMAIN appts \cup {Wanted(w)}
               /\ \A b \in DOMAIN appts \ {Wanted(w)} : appts'[b] = appts[b]
               /\ work[w].mine.customer # 0 => appts'[Wanted(w)].customer = work[w].mine.customer
               /\ work[w].ext /\ work[w].mine.customer = 0 => appts'[Wanted(w)].customer = appts[Wanted(w)].customer
               /\ Wrote(w, [appt |-> Wanted(w), booking |-> Wanted(w), review |-> FALSE], "refresh")
<1>1. work[w].pc = "book" /\ ~On(w, "idle") BY DEF Book, On
<1>2. UNCHANGED << customers, leads, crmJobs, link, status, acked, failures, switches, settled >> BY DEF Book, bookkeeping, memory
<1>3. switches' \in Nat /\ settled' \subseteq Conversation /\ flagged \subseteq Slots /\ Wanted(w) \in Slots BY <1>1, <1>2, AtStep
<1>4. /\ work[w].mine.customer \in CustomerIds /\ work[w].mine.lead \in LeadIds /\ work[w].mine.job \in JobIds /\ work[w].mine \in Row
      /\ work[w].mine.appt \in ApptIds /\ work[w].mine.booking \in Slots
  BY TaskHas DEF BookShape
<1>5. RowTypes BY DEF BookShape, BookTypes
<1>6. CASE Duplicate(w, work[w].ext, work[w].mine)
  <2> DEFINE p == [appt |-> work[w].mine.appt, booking |-> work[w].mine.booking, review |-> TRUE]
  <2>1. Refer(w, work[w].mine) /\ appts' = appts BY <1>6 DEF Book
  <2>2. WriteLink(w, p, "ack") /\ flagged' = flagged \cup {Wanted(w)} /\ "ack" \in Places BY <2>1 DEF Refer, Places
  <2>3. p \in Patches BY <1>4, PatchesAre DEF PatchKinds
  <2> HIDE DEF p
  <2>4. RowTypes' /\ Grown BY <1>2, <1>5, <2>1, DiaryRows
  <2>5. p \in Patches' BY <2>3, <2>4, Loud
  <2>6. work' \in [Worker -> Task'] /\ Wrote(w, p, "ack") BY <2>2, <2>4, <2>5, Loud, WriteLinkTo DEF Wrote
  <2>7. PlacedIn(Cmd(w), "linkRead", "ack") /\ GotFor(work[w].how, "linkRead", "ack", work[w].got, work[w].ext, Wanted(w))
    BY <1>1, AtStep DEF PlacedIn, Steps, LookupsOf, WritesOf, Cmds, Looking, Writing, GotFor, GotBy, HasOne, Early, InReview
  <2>8. flagged' \subseteq Slots BY <1>3, <2>2
  <2>9. BookShape' BY <1>1, <1>2, <1>3, <2>4, <2>6, <2>7, <2>8, LoudMove DEF Wrote
  <2> QED BY <1>6, <2>1, <2>2, <2>4, <2>6, <2>9 DEF p
<1>7. CASE ~Duplicate(w, work[w].ext, work[w].mine)
  <2> DEFINE p == [appt |-> Wanted(w), booking |-> Wanted(w), review |-> FALSE]
  <2>1. WriteLink(w, p, "refresh") /\ flagged' = flagged /\ "refresh" \in Places BY <1>7 DEF Book, Places
  <2>2. /\ RowTypes' /\ Grown /\ DOMAIN appts' = DOMAIN appts \cup {Wanted(w)}
        /\ \A b \in DOMAIN appts \ {Wanted(w)} : appts'[b] = appts[b]
        /\ work[w].mine.customer # 0 => appts'[Wanted(w)].customer = work[w].mine.customer
        /\ work[w].ext /\ work[w].mine.customer = 0 => appts'[Wanted(w)].customer = appts[Wanted(w)].customer
    <3>1. CASE work[w].ext
      <4>1. Wanted(w) \in DOMAIN appts BY <1>1, <3>1, AtStep DEF GotFor, GotBy
      <4>2. appts' = [appts EXCEPT ![Wanted(w)] = Shown(w)] BY <1>7, <3>1 DEF Book, Shown
      <4>3. appts[Wanted(w)] \in Appt BY <1>5, <4>1 DEF RowTypes
      <4>4. /\ Attached(appts[Wanted(w)], work[w].mine) \in Appt
            /\ Attached(appts[Wanted(w)], work[w].mine).customer
                 = IF work[w].mine.customer = 0 THEN appts[Wanted(w)].customer ELSE work[w].mine.customer
        BY <1>4, <4>3, AttachedIs
      <4>5. Shown(w) \in Appt /\ Shown(w).customer = Attached(appts[Wanted(w)], work[w].mine).customer BY <4>4 DEF Shown, Appt
      <4>6. RowTypes' /\ Grown BY <1>2, <1>5, <4>2, <4>5, DiaryRows
      <4> QED BY <1>5, <4>1, <4>2, <4>4, <4>5, <4>6 DEF RowTypes
    <3>2. CASE ~work[w].ext
      <4> DEFINE a == Appointment(work[w].mine, "scheduled")
      <4>1. InsertAppointment(w, work[w].mine) BY <1>7, <3>2 DEF Book
      <4>2. appts' = Put(Wanted(w), a) BY <4>1 DEF InsertAppointment
      <4>3. a \in Appt /\ a.customer = work[w].mine.customer BY <1>4, AppointmentIs
      <4> HIDE DEF a
      <4>4. RowTypes' /\ Grown BY <1>2, <1>3, <1>5, <4>2, <4>3, DiaryRows
      <4> QED BY <3>2, <4>2, <4>3, <4>4 DEF Put
    <3> QED BY <3>1, <3>2
  <2>3. Wanted(w) \in ApptIds' /\ Wanted(w) \in Slots' BY <1>3, <2>2 DEF ApptIds, Slots
  <2>4. p \in Patches'
    <3>1. PICK b : b = Wanted(w) OBVIOUS
    <3>2. [appt |-> b, booking |-> b, review |-> FALSE] \in Patches' BY <2>3, <3>1, PatchesWillBe DEF PatchKinds
    <3> QED BY <3>1, <3>2
  <2> HIDE DEF p
  <2>5. work' \in [Worker -> Task'] /\ Wrote(w, p, "refresh") BY <2>1, <2>2, <2>4, Loud, WriteLinkTo DEF Wrote
  <2>6. PlacedIn(Cmd(w), "linkRead", "refresh") /\ GotFor(work[w].how, "linkRead", "refresh", work[w].got, work[w].ext, Wanted(w))
    BY <1>1, AtStep DEF PlacedIn, Steps, LookupsOf, WritesOf, Cmds, Looking, Writing, GotFor, GotBy, HasOne, Early, InReview
  <2>7. flagged' \subseteq Slots BY <1>3, <2>1
  <2>8. BookShape' BY <1>1, <1>2, <1>3, <2>2, <2>5, <2>6, <2>7, LoudMove DEF Wrote
  <2> QED BY <1>7, <2>1, <2>2, <2>5, <2>8 DEF p
<1> QED BY <1>6, <1>7

-----------------------------------------------------------------------------
(* Commands are taken up and given up.                                     *)

\* What the steps within a command and those between commands have in common: nobody
\* has the event of another.
LEMMA OwnEvent ==
  ASSUME BookShape, NEW v \in Worker, NEW w \in Worker, v # w, ~Vacant(v)
  PROVE  Busy(v) /\ work[v].event # work[w].event /\ (Busy(w) => Event(v) # Event(w))
<1>1. Busy(v) /\ work[v].event # work[w].event BY DEF BookShape, BusyInv
<1> QED BY <1>1 DEF Busy

LEMMA LetGo ==
  ASSUME BookShape, UNCHANGED << crm, link, flagged, switches >>, settled' \subseteq Conversation, failures' \in Nat,
         NEW w \in Worker, ~On(w, "idle"), work' = [work EXCEPT ![w] = Resting],
         NEW s \in { "failed", "done" }, status' = [status EXCEPT ![Event(w)] = s], acked' \in [Events -> Nat],
         \A e \in Events : s = "failed" \/ e # Event(w) => acked'[e] = acked[e]
  PROVE  BookShape' /\ Grown
<1>1. RowTypes' /\ Grown /\ work \in [Worker -> Task'] BY Quiet
<1>2. Busy(w) BY AtStep
<1>3. status \in [Events -> { "waiting", "running", "failed", "done" }] /\ flagged \subseteq Slots /\ switches \in Nat
  BY DEF BookShape, BookTypes
<1>4. Resting \in Task'
  <2>1. NoLink \in Row' /\ NoPatch \in Patches' BY RowsAre, Quiet DEF BookShape, BookTypes
  <2>2. "idle" \in Places BY DEF Places
  <2> QED BY <2>1, <2>2 DEF Task, Resting
<1>5. work' \in [Worker -> Task'] /\ work'[w] = Resting /\ \A v \in Worker \ {w} : work'[v] = work[v] BY <1>1, <1>4
<1>6. Resting.event = {} /\ Resting.pc = "idle" BY DEF Resting
<1>7. BookTypes'
  <2>1. status' \in [Events -> { "waiting", "running", "failed", "done" }] BY <1>3
  <2>2. Slots' = Slots BY DEF Slots
  <2> QED BY <1>1, <1>3, <1>5, <2>1, <2>2 DEF BookTypes
<1>8. Vacant(w)' BY <1>5, <1>6 DEF Vacant, On
<1>9. \A v \in Worker \ {w} : (Vacant(v) => Vacant(v)') /\ (Busy(v) => Busy(v)') /\ (Vacant(v) \/ Busy(v))
  <2> SUFFICES ASSUME NEW v \in Worker \ {w} PROVE (Vacant(v) => Vacant(v)') /\ (Busy(v) => Busy(v)') /\ (Vacant(v) \/ Busy(v)) OBVIOUS
  <2>1. work'[v] = work[v] /\ Event(v)' = Event(v) BY <1>5 DEF Event
  <2>2. Vacant(v) => Vacant(v)' BY <2>1 DEF Vacant, On
  <2>3. ASSUME Busy(v) PROVE Busy(v)'
    <3>1. ~Vacant(v) BY <2>3 DEF Busy, Vacant
    <3>2. Event(v) # Event(w) BY <1>2, <3>1, OwnEvent
    <3>3. status'[Event(v)] = "running" BY <1>3, <2>3, <3>2 DEF Busy
    <3> QED BY <2>1, <2>3, <3>3 DEF Busy, Cmd, PlacedIn
  <2> QED BY <2>2, <2>3 DEF BookShape, BusyInv
<1>10. BusyInv'
  <2>1. \A u, v \in Worker : work[u].event = work[v].event => u = v \/ Vacant(u) BY DEF BookShape, BusyInv
  <2>2. \A v \in Worker \ {w} : Busy(v) => work[v].event # {} BY DEF Busy
  <2>3. \A u, v \in Worker : work'[u].event = work'[v].event => u = v \/ Vacant(u)' BY <1>5, <1>6, <1>8, <1>9, <2>1, <2>2
  <2>4. \A e \in Events : status'[e] # "done" => acked'[e] < Len(Commands(e)) 
    <3> SUFFICES ASSUME NEW e \in Events, status'[e] # "done" PROVE acked'[e] < Len(Commands(e)) OBVIOUS
    <3>1. acked[e] < Len(Commands(e)) BY <1>2, <1>3 DEF BookShape, BusyInv, Busy
    <3>2. acked'[e] = acked[e] BY <1>3
    <3> QED BY <3>1, <3>2
  <2> QED BY <1>8, <1>9, <2>3, <2>4 DEF BusyInv
<1>11. GotInv'
  <2> SUFFICES ASSUME NEW v \in Worker, ~On(v, "idle")' PROVE GotBy(v)' BY DEF GotInv
  <2>1. v # w BY <1>5, <1>6 DEF On
  <2>2. work'[v] = work[v] /\ Wanted(v)' = Wanted(v) BY <1>5, <2>1 DEF Wanted, Event
  <2>3. GotBy(v) BY <2>2 DEF BookShape, GotInv, On
  <2>4. PICK t, b : t = work[v] /\ b = Wanted(v) OBVIOUS
  <2>5. GotFor(t.how, t.pc, t.next, t.got, t.ext, b)' BY <2>3, <2>4, Quiet DEF GotBy
  <2> QED BY <2>2, <2>4, <2>5 DEF GotBy
<1> QED BY <1>1, <1>7, <1>10, <1>11 DEF BookShape

LEMMA Taken ==
  ASSUME BookShape, UNCHANGED << crm, link, flagged, switches >>, settled' \subseteq Conversation, failures' \in Nat,
         NEW w \in Worker, NEW e \in Events, NEW step \in 1 .. Len(Commands(e)), NEW how \in Recoveries \cup {"none"}, NEW got \in Nat,
         how = "none" \/ e.kind = "recovered",
         work' = [work EXCEPT ![w] = CommandAt(e, step, how, got)], status' = [status EXCEPT ![e] = "running"],
         \A v \in Worker \ {w} : work[v].event # {e},
         acked' \in [Events -> Nat], \A k \in Events \ {e} : acked'[k] = acked[k], acked'[e] < Len(Commands(e)),
         GotFor(how, FirstStep(Commands(e)[step]), Found(Commands(e)[step]), got, FALSE, e.booking)
  PROVE  BookShape' /\ Grown
<1>1. RowTypes' /\ Grown /\ work \in [Worker -> Task'] BY Quiet
<1>2. status \in [Events -> { "waiting", "running", "failed", "done" }] /\ flagged \subseteq Slots /\ switches \in Nat
  BY DEF BookShape, BookTypes
<1> DEFINE cmd == Commands(e)[step]
<1>0. PICK t : t = CommandAt(e, step, how, got) OBVIOUS
<1>3. /\ t \in Task /\ cmd \in Cmds /\ t.event = {e} /\ t.step = step /\ t.how = how /\ t.got = got
      /\ t.pc = FirstStep(cmd) /\ t.next = Found(cmd) /\ t.ext = FALSE
  <2>1. RowTypes BY DEF BookShape, BookTypes
  <2>2. /\ t \in Task /\ cmd \in Cmds /\ t.event = {e} /\ t.step = step /\ t.how = how /\ t.got = got
        /\ t.pc = FirstStep(cmd) /\ t.next = Found(cmd) /\ ~t.ext
    BY ONLY <1>0, <2>1, TaskOf, e \in Events, step \in 1 .. Len(Commands(e)), how \in Recoveries \cup {"none"}, got \in Nat
  <2>3. t.ext = FALSE BY <2>2 DEF Task
  <2> QED BY <2>2, <2>3
<1>4. Task' = Task 
  <2>1. Row' = Row /\ Patches' = Patches BY Quiet
  <2> QED BY <2>1 DEF Task
<1>5. work' \in [Worker -> Task'] /\ work'[w] = t /\ \A v \in Worker \ {w} : work'[v] = work[v] BY <1>0, <1>1, <1>3, <1>4
<1>6. BookTypes'
  <2>1. status' \in [Events -> { "waiting", "running", "failed", "done" }] BY <1>2
  <2>2. Slots' = Slots BY DEF Slots
  <2> QED BY <1>1, <1>2, <1>5, <2>1, <2>2 DEF BookTypes
<1>7. Event(w)' = e /\ work'[w].event = {e} BY <1>3, <1>5 DEF Event
<1>8. Busy(w)'
  <2>1. Cmd(w)' = cmd /\ work'[w].step = step /\ work'[w].pc = FirstStep(cmd) /\ work'[w].next = Found(cmd) /\ work'[w].how = how
    BY <1>3, <1>5, <1>7 DEF Cmd
  <2>2. PlacedIn(cmd, FirstStep(cmd), Found(cmd)) BY <1>3 DEF PlacedIn, Steps, LookupsOf, Looking, FirstStep, Found, Cmds
  <2>3. status'[e] = "running" BY <1>2
  <2> HIDE DEF cmd
  <2> QED BY <1>7, <2>1, <2>2, <2>3 DEF Busy
<1>9. \A v \in Worker \ {w} : (Vacant(v) => Vacant(v)') /\ (Busy(v) => Busy(v)') /\ (Vacant(v) \/ Busy(v))
  <2> SUFFICES ASSUME NEW v \in Worker \ {w} PROVE (Vacant(v) => Vacant(v)') /\ (Busy(v) => Busy(v)') /\ (Vacant(v) \/ Busy(v)) OBVIOUS
  <2>1. work'[v] = work[v] /\ Event(v)' = Event(v) BY <1>5 DEF Event
  <2>2. Vacant(v) => Vacant(v)' BY <2>1 DEF Vacant, On
  <2>3. ASSUME Busy(v) PROVE Busy(v)'
    <3>1. Event(v) # e BY <2>3 DEF Busy
    <3>2. status'[Event(v)] = "running" BY <1>2, <2>3, <3>1 DEF Busy
    <3> QED BY <2>1, <2>3, <3>2 DEF Busy, Cmd, PlacedIn
  <2> QED BY <2>2, <2>3 DEF BookShape, BusyInv
<1>10. BusyInv'
  <2>1. \A u, v \in Worker : work[u].event = work[v].event => u = v \/ Vacant(u) BY DEF BookShape, BusyInv
  <2>2. \A u, v \in Worker : work'[u].event = work'[v].event => u = v \/ Vacant(u)'
    <3> SUFFICES ASSUME NEW u \in Worker, NEW v \in Worker, work'[u].event = work'[v].event, u # v PROVE Vacant(u)' OBVIOUS
    <3>1. u # w /\ v # w BY <1>5, <1>7
    <3> QED BY <1>5, <1>9, <2>1, <3>1
  <2>3. \A k \in Events : status'[k] # "done" => acked'[k] < Len(Commands(k))
    <3> SUFFICES ASSUME NEW k \in Events \ {e}, status'[k] # "done" PROVE acked'[k] < Len(Commands(k)) OBVIOUS
    <3>1. status'[k] = status[k] /\ acked'[k] = acked[k] BY <1>2
    <3> QED BY <3>1 DEF BookShape, BusyInv
  <2> QED BY <1>8, <1>9, <2>2, <2>3 DEF BusyInv
<1>11. GotInv'
  <2> SUFFICES ASSUME NEW v \in Worker, ~On(v, "idle")' PROVE GotBy(v)' BY DEF GotInv
  <2>1. CASE v = w
    <3>1. GotFor(how, FirstStep(cmd), Found(cmd), got, FALSE, e.booking)'
      <4>1. PICK p, n, x, b : p = FirstStep(cmd) /\ n = Found(cmd) /\ x = FALSE /\ b = e.booking OBVIOUS
      <4>2. GotFor(how, p, n, got, x, b) BY <4>1, Zenon
      <4>3. GotFor(how, p, n, got, x, b)' BY <4>2, Quiet
      <4> QED BY <4>1, <4>3, Zenon
    <3>2. /\ work'[w].how = how /\ work'[w].pc = FirstStep(cmd) /\ work'[w].next = Found(cmd) /\ work'[w].got = got
          /\ work'[w].ext = FALSE /\ Wanted(w)' = e.booking
      BY <1>3, <1>5, <1>7 DEF Wanted
    <3> HIDE DEF cmd
    <3>3. PICK p, n : p = FirstStep(cmd) /\ n = Found(cmd) OBVIOUS
    <3> QED BY <2>1, <3>1, <3>2 DEF GotBy
  <2>2. CASE v # w
    <3>1. work'[v] = work[v] /\ Wanted(v)' = Wanted(v) BY <1>5, <2>2 DEF Wanted, Event
    <3>2. GotBy(v) BY <3>1 DEF BookShape, GotInv, On
    <3>3. PICK k, b : k = work[v] /\ b = Wanted(v) OBVIOUS
    <3>4. GotFor(k.how, k.pc, k.next, k.got, k.ext, b)' BY <3>2, <3>3, Quiet DEF GotBy
    <3> QED BY <3>1, <3>3, <3>4 DEF GotBy
  <2> QED BY <2>1, <2>2
<1> QED BY <1>1, <1>6, <1>10, <1>11 DEF BookShape

LEMMA FailedMoves ==
  ASSUME BookShape, NEW w \in Worker, FailCommand(w) \/ Refused(w)
  PROVE  BookShape' /\ Grown
<1>1. ~On(w, "idle") BY DEF FailCommand, Refused, On
<1>2. /\ UNCHANGED << crm, link, flagged, switches, settled, acked >> /\ work' = [work EXCEPT ![w] = Resting]
      /\ status' = [status EXCEPT ![Event(w)] = "failed"] /\ failures' \in { failures, failures + 1 }
  BY DEF FailCommand, Refused, memory
<1>3. settled' \subseteq Conversation /\ failures' \in Nat /\ acked' \in [Events -> Nat] BY <1>2 DEF BookShape, BookTypes
<1> QED BY <1>1, <1>2, <1>3, LetGo

LEMMA ProceedMoves ==
  ASSUME BookShape, NEW w \in Worker, ~On(w, "idle"), Proceed(w), UNCHANGED << crm, link, flagged, switches >>, failures' \in Nat,
         acked' = acked \/ acked' = [acked EXCEPT ![Event(w)] = work[w].step]
  PROVE  BookShape' /\ Grown
<1> DEFINE e == Event(w)
<1>1. e \in Events /\ e.conv \in Conversation /\ work[w].step \in 1 .. Len(Commands(e)) /\ status[e] = "running"
      /\ work[w].event = {e} /\ e.booking \in Slots
  BY AtStep, CommandsAre DEF Busy
<1>2. PICK n \in {1, 2} : n = Len(Commands(e)) BY <1>1, CommandsAre
<1>3. /\ settled \subseteq Conversation /\ acked \in [Events -> Nat] /\ work[w].step \in Nat
      /\ status \in [Events -> { "waiting", "running", "failed", "done" }]
  BY <1>1, <1>2 DEF BookShape, BookTypes
<1>4. acked' \in [Events -> Nat] /\ \A k \in Events \ {e} : acked'[k] = acked[k] BY <1>3
<1>5. CASE work[w].step < Len(Commands(e))
  <2>1. work' = [work EXCEPT ![w] = CommandAt(e, work[w].step + 1, "none", 0)] /\ settled' = settled \ { e.conv } /\ status' = status
    BY <1>5 DEF Proceed
  <2>2. settled' \subseteq Conversation /\ status' = [status EXCEPT ![e] = "running"] BY <1>1, <1>3, <2>1
  <2>3. work[w].step + 1 \in 1 .. Len(Commands(e)) BY <1>1, <1>2, <1>5
  <2>4. acked'[e] < Len(Commands(e))
    <3>1. acked[e] < Len(Commands(e)) BY <1>1 DEF BookShape, BusyInv
    <3> QED BY <1>1, <1>3, <1>5, <3>1
  <2>5. \A v \in Worker \ {w} : work[v].event # {e}
    <3> SUFFICES ASSUME NEW v \in Worker \ {w} PROVE work[v].event # {e} OBVIOUS
    <3>1. ~Vacant(w) BY DEF Vacant
    <3> QED BY <1>1, <3>1, OwnEvent
  <2>6. PICK s : s = work[w].step + 1 OBVIOUS
  <2>7. Commands(e)[s] \in Cmds BY <1>1, <2>3, <2>6, CommandsAre
  <2>8. GotFor("none", FirstStep(Commands(e)[s]), Found(Commands(e)[s]), 0, FALSE, e.booking)
    <3>1. 0 \in CustomerIds BY RowsAre DEF BookShape, BookTypes
    <3> QED BY <2>7, <3>1 DEF GotFor, HasOne, Early, InReview, Writing, FirstStep, Found, Cmds
  <2> HIDE DEF e
  <2> QED BY <1>1, <1>4, <2>1, <2>2, <2>3, <2>4, <2>5, <2>6, <2>8, Taken
<1>6. CASE ~(work[w].step < Len(Commands(e)))
  <2>1. work' = [work EXCEPT ![w] = Resting] /\ status' = [status EXCEPT ![e] = "done"] /\ settled' = settled BY <1>6 DEF Proceed
  <2> QED BY <1>3, <1>4, <2>1, LetGo
<1> QED BY <1>5, <1>6

LEMMA AckMoves == ASSUME BookShape, NEW w \in Worker, Acknowledge(w) PROVE BookShape' /\ Grown
<1>1. ~On(w, "idle") /\ Proceed(w) /\ UNCHANGED << crm, link, flagged, switches, failures >> BY DEF Acknowledge, On
<1>2. failures' \in Nat BY <1>1 DEF BookShape, BookTypes
<1> QED BY <1>1, <1>2, ProceedMoves DEF Acknowledge

LEMMA DeferMoves == ASSUME BookShape, NEW w \in Worker, Defer(w) PROVE BookShape' /\ Grown
<1>1. ~On(w, "idle") /\ Proceed(w) /\ UNCHANGED << crm, link, acked, flagged, switches >> /\ failures' = failures + 1 BY DEF Defer
<1>2. failures' \in Nat BY <1>1 DEF BookShape, BookTypes
<1> QED BY <1>1, <1>2, ProceedMoves

LEMMA BeginMoves ==
  ASSUME BookShape, NEW w \in Worker, NEW e \in Events, BeginEvent(w, e) \/ Recover(w, e)
  PROVE  BookShape' /\ Grown
<1>1. /\ On(w, "idle") /\ status[e] \in { "waiting", "failed" } /\ status' = [status EXCEPT ![e] = "running"]
      /\ UNCHANGED << crm, link, acked, flagged, switches, failures >> /\ settled' \subseteq settled
  BY DEF BeginEvent, Recover
<1>2. /\ settled' \subseteq Conversation /\ failures' \in Nat /\ acked' \in [Events -> Nat] /\ acked[e] \in Nat
      /\ acked[e] < Len(Commands(e)) /\ acked'[e] < Len(Commands(e))
  BY <1>1 DEF BookShape, BookTypes, BusyInv
<1>3. \A v \in Worker \ {w} : work[v].event # {e}
  <2> SUFFICES ASSUME NEW v \in Worker \ {w}, work[v].event = {e} PROVE FALSE OBVIOUS
  <2>1. Busy(v) BY DEF BookShape, BusyInv, Vacant
  <2>2. Event(v) = e BY EventIs
  <2> QED BY <1>1, <2>1, <2>2 DEF Busy
<1>4. PICK n \in {1, 2} : n = Len(Commands(e)) BY CommandsAre
<1>5. RowTypes /\ 0 \in CustomerIds BY RowsAre DEF BookShape, BookTypes
<1>6. \E step \in 1 .. Len(Commands(e)) : \E how \in Recoveries \cup {"none"} : \E got \in Nat :
        /\ how = "none" \/ e.kind = "recovered"
        /\ work' = [work EXCEPT ![w] = CommandAt(e, step, how, got)]
        /\ GotFor(how, FirstStep(Commands(e)[step]), Found(Commands(e)[step]), got, FALSE, e.booking)
  <2>1. CASE BeginEvent(w, e)
    <3>1. work' = [work EXCEPT ![w] = CommandAt(e, acked[e] + 1, "none", 0)] BY <2>1 DEF BeginEvent
    <3>2. acked[e] + 1 \in 1 .. Len(Commands(e)) BY <1>2, <1>4
    <3>3. PICK s : s = acked[e] + 1 OBVIOUS
    <3>4. Commands(e)[s] \in Cmds BY <3>2, <3>3, CommandsAre
    <3>5. GotFor("none", FirstStep(Commands(e)[s]), Found(Commands(e)[s]), 0, FALSE, e.booking)
      BY <1>5, <3>4 DEF GotFor, HasOne, Early, InReview, Writing, FirstStep, Found, Cmds
    <3> QED BY <3>1, <3>2, <3>3, <3>5
  <2>2. CASE Recover(w, e)
    <3>1. e.kind = "recovered" BY <2>2 DEF Recover
    <3>2. PICK how \in Recoveries :
            \E got \in CASE how = "newCustomer" -> {0} [] how = "linkCustomer" -> DOMAIN customers [] OTHER -> DOMAIN crmJobs :
              work' = [work EXCEPT ![w] = CommandAt(e, 1, how, got)]
      BY <2>2 DEF Recover
    <3>3. PICK got : /\ got \in CASE how = "newCustomer" -> {0} [] how = "linkCustomer" -> DOMAIN customers [] OTHER -> DOMAIN crmJobs
                     /\ work' = [work EXCEPT ![w] = CommandAt(e, 1, how, got)]
      BY <3>2
    <3>4. /\ how = "newCustomer" => got = 0
          /\ how = "linkCustomer" => got \in DOMAIN customers
          /\ how = "linkJob" => got \in DOMAIN crmJobs
      BY <3>3
    <3>5. DOMAIN customers \subseteq CustomerIds /\ DOMAIN customers \subseteq Nat /\ DOMAIN crmJobs \subseteq Nat
      BY <1>5, RowsAre DEF CustomerIds
    <3>6. how \in { "newCustomer", "linkCustomer", "linkJob" } BY DEF Recoveries
    <3>7. got \in Nat BY <3>4, <3>5, <3>6
    <3>8. Commands(e)[1] = "CreateOrUpdate" /\ 1 \in 1 .. Len(Commands(e)) BY <1>4, <3>1, CommandsAre
    <3>9. FirstStep(Commands(e)[1]) = "lookup" /\ Found(Commands(e)[1]) = "idle" BY <3>8 DEF FirstStep, Found
    <3>10. GotFor(how, "lookup", "idle", got, FALSE, e.booking)
      BY <1>5, <3>4, <3>5, <3>6 DEF GotFor, HasOne, Early, InReview, Writing
    <3> QED BY <3>1, <3>3, <3>7, <3>8, <3>9, <3>10
  <2> QED BY <2>1, <2>2
<1>7. PICK step \in 1 .. Len(Commands(e)), how \in Recoveries \cup {"none"}, got \in Nat :
        /\ how = "none" \/ e.kind = "recovered"
        /\ work' = [work EXCEPT ![w] = CommandAt(e, step, how, got)]
        /\ GotFor(how, FirstStep(Commands(e)[step]), Found(Commands(e)[step]), got, FALSE, e.booking)
  BY <1>6
<1> QED BY <1>1, <1>2, <1>3, <1>7, Taken

-----------------------------------------------------------------------------
(* Every step keeps the types and the places.                              *)

LEMMA ShapeAtFirst == ASSUME BookingInit PROVE BookShape
<1>1. /\ leads = << >> /\ crmJobs = << >> /\ appts = << >> /\ link = [c \in Conversation |-> NoLink]
      /\ status = [e \in Events |-> "waiting"] /\ acked = [e \in Events |-> 0] /\ work = [w \in Worker |-> Resting]
      /\ flagged = {} /\ switches = 0 /\ settled = {} /\ failures = 0
  BY DEF BookingInit
<1>2. customers \in Seq(Names)
  <2>1. customers = << >> \/ \E n \in Known : customers = << n >> BY DEF BookingInit
  <2>2. CASE customers = << >> BY <2>2
  <2>3. CASE \E n \in Known : customers = << n >>
    <3>1. PICK n \in Known : customers = << n >> BY <2>3
    <3>2. n \in Names BY DEF Names
    <3> QED BY <3>1, <3>2
  <2> QED BY <2>1, <2>2, <2>3
<1>3. leads \in Seq(CustomerIds) /\ crmJobs \in Seq(JobRow) /\ Len(leads) = 0 /\ Len(crmJobs) = 0 BY <1>1
<1>4. DOMAIN appts = {} BY <1>1
<1>5. NoLink \in Row /\ NoPatch \in Patches
  <2>1. 0 \in CustomerIds /\ 0 \in LeadIds /\ 0 \in JobIds /\ Nothing \in ApptIds /\ Nothing \in Slots
    BY <1>2, <1>3 DEF CustomerIds, LeadIds, JobIds, ApptIds, Slots
  <2> QED BY <2>1 DEF NoLink, Row, Patches
<1>6. RowTypes
  <2>1. DOMAIN appts \subseteq Slots /\ appts \in [DOMAIN appts -> Appt] BY <1>1, <1>4
  <2>2. link \in [Conversation -> Row] BY <1>1, <1>5
  <2> QED BY <1>2, <1>3, <2>1, <2>2 DEF RowTypes
<1>7. Resting \in Task /\ Resting.pc = "idle" /\ Resting.event = {}
  <2>1. "idle" \in Places BY DEF Places
  <2> QED BY <1>5, <2>1 DEF Task, Resting
<1>8. \A w \in Worker : work[w] = Resting BY <1>1
<1>9. BookTypes BY <1>1, <1>6, <1>7 DEF BookTypes
<1>10. \A w \in Worker : Vacant(w) BY <1>7, <1>8 DEF Vacant, On
<1>11. BusyInv
  <2>1. \A e \in Events : acked[e] < Len(Commands(e)) BY <1>1, CommandsAre
  <2> QED BY <1>10, <2>1 DEF BusyInv
<1>12. GotInv BY <1>10 DEF GotInv, Vacant
<1> QED BY <1>9, <1>11, <1>12 DEF BookShape

LEMMA ShapeStutters == ASSUME BookShape, UNCHANGED bookingVars PROVE BookShape'
<1>1. UNCHANGED << customers, leads, crmJobs, appts, link, status, acked, work, flagged, switches, settled, failures >>
  BY DEF bookingVars
<1>2. UNCHANGED << crm, link >> BY <1>1 DEF crm
<1>3. RowTypes' /\ work \in [Worker -> Task'] /\ Slots' = Slots BY <1>2, Quiet
<1>4. BookTypes' BY <1>1, <1>3 DEF BookShape, BookTypes
<1>5. \A w \in Worker : Event(w)' = Event(w) /\ (Vacant(w) <=> Vacant(w)') BY <1>1 DEF Event, Vacant, On
<1>6. \A w \in Worker : Busy(w) => Busy(w)' BY <1>1, <1>5 DEF Busy, Cmd, PlacedIn
<1>7. BusyInv' BY <1>1, <1>5, <1>6 DEF BookShape, BusyInv
<1>8. GotInv'
  <2> SUFFICES ASSUME NEW v \in Worker, ~On(v, "idle")' PROVE GotBy(v)' BY DEF GotInv
  <2>1. work'[v] = work[v] /\ Wanted(v)' = Wanted(v) BY <1>1, <1>5 DEF Wanted
  <2>2. GotBy(v) BY <2>1 DEF BookShape, GotInv, On
  <2>3. PICK k, b : k = work[v] /\ b = Wanted(v) OBVIOUS
  <2>4. GotFor(k.how, k.pc, k.next, k.got, k.ext, b)' BY <1>2, <2>2, <2>3, Quiet DEF GotBy
  <2> QED BY <2>1, <2>3, <2>4 DEF GotBy
<1> QED BY <1>4, <1>7, <1>8 DEF BookShape

LEMMA ShapeStays == ASSUME BookShape, BookingNext PROVE BookShape' /\ Grown
<1>1. PICK w \in Worker : CommandStep(w) \/ FailCommand(w) \/ Defer(w) \/ \E e \in Events : BeginEvent(w, e) \/ Recover(w, e)
  BY DEF BookingNext
<1>2. CASE Customers(w)
  BY <1>2, FindNoneMoves, FindOneMoves, FindConflictMoves, InsertCustomerMoves, UpdateCustomerMoves, MatchedMoves DEF Customers
<1>3. CASE Linking(w)
  BY <1>3, LinkReadMoves, LinkWriteMoves, LinkStartMoves, LinkedMoves, FindJobMoves, AttachAllMoves DEF Linking
<1>4. CASE Qualifying(w) BY <1>4, LeadStartMoves, LeadInsertMoves, LeadAttachMoves DEF Qualifying
<1>5. CASE Ensuring(w)
  BY <1>5, LookupMoves, EnsureMoves, NewLeadMoves, StatusMoves, ResolveMoves, ResolvedMoves, AttachLeadMoves DEF Ensuring
<1>6. CASE Booked(w)
  BY <1>6, ReviewMoves, Review2Moves, BookMoves, FailedMoves, RefreshMoves, HealedMoves, RereadMoves, AttachMoves, MakeJobMoves,
     AttachJobMoves DEF Booked
<1>7. CASE Calendar(w) BY <1>7, UpsertMoves, CancelMoves DEF Calendar
<1>8. CASE Acknowledge(w) BY <1>8, AckMoves
<1>9. CASE FailCommand(w) BY <1>9, FailedMoves
<1>10. CASE Defer(w) BY <1>10, DeferMoves
<1>11. CASE \E e \in Events : BeginEvent(w, e) \/ Recover(w, e) BY <1>11, BeginMoves
<1> QED BY <1>1, <1>2, <1>3, <1>4, <1>5, <1>6, <1>7, <1>8, <1>9, <1>10, <1>11 DEF CommandStep

LEMMA ShapeAlways == BookingSpec => []BookShape
<1>1. BookingInit => BookShape BY ShapeAtFirst
<1>2. BookShape /\ [BookingNext]_bookingVars => BookShape' BY ShapeStays, ShapeStutters
<1> QED BY <1>1, <1>2, PTL DEF BookingSpec

\* Every row the commands name exists: a job's customer and lead, an appointment's, a link
\* row's, and whatever a worker carries between its reads and its writes.
THEOREM BookingTypesCorrect == BookingSpec => []BookTypes
<1>1. BookShape => BookTypes BY DEF BookShape
<1> QED BY <1>1, ShapeAlways, PTL

-----------------------------------------------------------------------------
(* A booking that was handled is in the diary with its customer, or with   *)
(* the office.                                                             *)

\* What the diary has with a customer keeps one.
LEMMA HeldIs ==
  ASSUME flagged \subseteq flagged', DOMAIN appts \subseteq DOMAIN appts',
         \A b \in DOMAIN appts : appts[b].customer # 0 => appts'[b].customer # 0
  PROVE  \A b : Held(b) => Held(b)'
  BY DEF Held

LEMMA ChangedCustomer ==
  ASSUME RowTypes, NEW k \in DOMAIN appts, NEW a, appts' = [appts EXCEPT ![k] = a], appts[k].customer # 0 => a.customer # 0
  PROVE  DOMAIN appts \subseteq DOMAIN appts' /\ \A b \in DOMAIN appts : appts[b].customer # 0 => appts'[b].customer # 0
  BY DEF RowTypes

LEMMA HeldInDiary ==
  ASSUME BookShape, NEW w \in Worker, AttachAll(w) \/ Attach(w) \/ AttachJob(w) \/ Upsert(w) \/ Cancel(w)
  PROVE  \A b : Held(b) => Held(b)'
<1>1. RowTypes BY DEF BookShape, BookTypes
<1>2. flagged' = flagged BY DEF AttachAll, Attach, AttachJob, Upsert, Cancel, memory
<1>3. work[w].mine \in Row /\ work[w].mine.appt \in ApptIds BY TaskHas DEF BookShape
<1>4. \A b \in DOMAIN appts : appts[b] \in Appt BY <1>1 DEF RowTypes
<1>5. CASE appts' = appts BY <1>2, <1>5, HeldIs
<1>6. CASE AttachAll(w) /\ appts' # appts
  <2> DEFINE k == work[w].mine.appt
             a == Attached(appts[k], work[w].mine)
  <2>1. k # Nothing /\ appts' = [appts EXCEPT ![k] = a] BY <1>6 DEF AttachAll
  <2>2. k \in DOMAIN appts BY <1>3, <2>1 DEF ApptIds
  <2>3. a.customer = IF work[w].mine.customer = 0 THEN appts[k].customer ELSE work[w].mine.customer BY <1>3, <1>4, <2>2, AttachedIs
  <2> HIDE DEF a
  <2> QED BY <1>1, <1>2, <2>1, <2>2, <2>3, ChangedCustomer, HeldIs
<1>7. CASE Attach(w) /\ appts' # appts
  <2> DEFINE k == work[w].mine.appt
             a == [appts[k] EXCEPT !.customer = work[w].mine.customer]
  <2>1. k # Nothing /\ work[w].mine.customer # 0 /\ appts' = [appts EXCEPT ![k] = a] BY <1>7 DEF Attach
  <2>2. k \in DOMAIN appts BY <1>3, <2>1 DEF ApptIds
  <2>3. a.customer # 0 BY <1>4, <2>1, <2>2 DEF Appt
  <2> HIDE DEF a
  <2> QED BY <1>1, <1>2, <2>1, <2>2, <2>3, ChangedCustomer, HeldIs
<1>8. CASE AttachJob(w) /\ appts' # appts
  <2> DEFINE k == work[w].mine.appt
             a == [appts[k] EXCEPT !.job = work[w].mine.job]
  <2>1. k # Nothing /\ appts' = [appts EXCEPT ![k] = a] BY <1>8 DEF AttachJob
  <2>2. k \in DOMAIN appts BY <1>3, <2>1 DEF ApptIds
  <2>3. a.customer = appts[k].customer BY <1>4, <2>2 DEF Appt
  <2> HIDE DEF a
  <2> QED BY <1>1, <1>2, <2>1, <2>2, <2>3, ChangedCustomer, HeldIs
<1>9. CASE Upsert(w) /\ Wanted(w) \notin DOMAIN appts
  <2>1. appts' = Put(Wanted(w), Appointment([NoLink EXCEPT !.customer = work[w].got], "scheduled")) BY <1>9 DEF Upsert
  <2>2. DOMAIN appts \subseteq DOMAIN appts' /\ \A b \in DOMAIN appts : appts'[b] = appts[b] BY <1>9, <2>1 DEF Put
  <2> QED BY <1>2, <2>2, HeldIs
<1>10. CASE Upsert(w) /\ Wanted(w) \in DOMAIN appts
  <2> DEFINE k == Wanted(w)
             a == [appts[k] EXCEPT !.state = "scheduled", !.customer = IF @ = 0 THEN work[w].got ELSE @]
  <2>1. appts' = [appts EXCEPT ![k] = a] BY <1>1, <1>10 DEF Upsert, RowTypes
  <2>2. appts[k].customer # 0 => a.customer # 0 BY <1>4, <1>10 DEF Appt
  <2> HIDE DEF a
  <2> QED BY <1>1, <1>2, <1>10, <2>1, <2>2, ChangedCustomer, HeldIs
<1>11. CASE Cancel(w) /\ appts' # appts
  <2> DEFINE k == Wanted(w)
             a == [appts[k] EXCEPT !.state = "cancelled"]
  <2>1. k \in DOMAIN appts /\ appts' = [appts EXCEPT ![k] = a] BY <1>11 DEF Cancel
  <2>2. a.customer = appts[k].customer BY <1>4, <2>1 DEF Appt
  <2> HIDE DEF a
  <2> QED BY <1>1, <1>2, <2>1, <2>2, ChangedCustomer, HeldIs
<1> QED BY <1>5, <1>6, <1>7, <1>8, <1>9, <1>10, <1>11

\* A worker that goes on within its command, with what was held still held.
LEMMA HeldMove ==
  ASSUME BookShape, HeldInv, \A b : Held(b) => Held(b)', status' = status, NEW w \in Worker, ~On(w, "idle"),
         NEW pc, NEW next, NEW mine, NEW seen, NEW patch, NEW ext, NEW got,
         To(w, pc, next, mine, seen, patch, ext, got),
         NEW cmd, cmd = Cmd(w), NEW b, b = Wanted(w), HeldFor(cmd, pc, next, mine, patch, b)'
  PROVE  HeldInv'
<1>1. \A v \in Worker : ~On(v, "idle")' => HeldBy(v)'
  <2> SUFFICES ASSUME NEW v \in Worker, ~On(v, "idle")' PROVE HeldBy(v)' OBVIOUS
  <2>1. CASE v = w
    <3>1. Cmd(w)' = cmd /\ Wanted(w)' = b BY SameCommand DEF To
    <3>2. work'[w].pc = pc /\ work'[w].next = next /\ work'[w].mine = mine /\ work'[w].patch = patch BY DEF To
    <3> QED BY <2>1, <3>1, <3>2 DEF HeldBy
  <2>2. CASE v # w
    <3>1. work'[v] = work[v] BY <2>2 DEF To
    <3>2. Cmd(v)' = Cmd(v) /\ Wanted(v)' = Wanted(v) BY <3>1, SameCommand
    <3>3. HeldBy(v) BY <3>1 DEF HeldInv, On
    <3>4. Held(Wanted(v)) => Held(Wanted(v))'
      <4>1. PICK k : k = Wanted(v) OBVIOUS
      <4> QED BY <3>2, <4>1 DEF Held
    <3> QED BY <3>1, <3>2, <3>3, <3>4 DEF HeldBy, HeldFor, Past
  <2> QED BY <2>1, <2>2
<1>2. \A e \in Events : e.kind = "confirmed" /\ status'[e] = "done" => Held(e.booking)' BY DEF HeldInv
<1> QED BY <1>1, <1>2 DEF HeldInv

LEMMA HeldGoes ==
  ASSUME BookShape, HeldInv, \A b : Held(b) => Held(b)', status' = status, NEW w \in Worker, ~On(w, "idle"),
         NEW pc, NEW next, NEW mine, NEW seen, NEW patch, NEW ext, NEW got,
         To(w, pc, next, mine, seen, patch, ext, got), HeldFor(Cmd(w), pc, next, mine, patch, Wanted(w))
  PROVE  HeldInv'
<1>1. PICK cmd, b : cmd = Cmd(w) /\ b = Wanted(w) OBVIOUS
<1>2. HeldFor(cmd, pc, next, mine, patch, b) BY <1>1
<1>3. HeldFor(cmd, pc, next, mine, patch, b)' BY <1>2 DEF HeldFor, Past
<1> QED BY <1>1, <1>3, HeldMove

LEMMA HeldFindNone == ASSUME BookShape, HeldInv, NEW w \in Worker, FindNone(w) PROVE HeldInv'
<1>1. work[w].pc = "find" /\ ~On(w, "idle") BY DEF FindNone, On
<1>2. status' = status /\ \A b : Held(b) => Held(b)' BY DEF FindNone, bookkeeping, memory, crm, Held
<1>3. Went(w, "insert") BY FindNoneMoves
<1>4. HeldFor(Cmd(w), "insert", work[w].next, work[w].mine, work[w].patch, Wanted(w))
  BY <1>1, AtStep DEF HeldInv, HeldBy, HeldFor, PlacedIn, Steps, LookupsOf, WritesOf, Cmds, Looking, Writing, Past
<1> QED BY <1>1, <1>2, <1>3, <1>4, HeldGoes DEF Went

LEMMA HeldInsertCustomer == ASSUME BookShape, HeldInv, NEW w \in Worker, InsertCustomer(w) PROVE HeldInv'
<1>1. work[w].pc = "insert" /\ ~On(w, "idle") BY DEF InsertCustomer, On
<1>2. status' = status /\ \A b : Held(b) => Held(b)' BY DEF InsertCustomer, bookkeeping, memory, crm, Held
<1>3. Got(w, work[w].next, Len(customers) + 1) BY InsertCustomerMoves
<1>4. HeldFor(Cmd(w), work[w].next, work[w].next, work[w].mine, work[w].patch, Wanted(w))
  BY <1>1, AtStep DEF HeldInv, HeldBy, HeldFor, PlacedIn, Steps, LookupsOf, WritesOf, Cmds, Looking, Writing, Past
<1> QED BY <1>1, <1>2, <1>3, <1>4, HeldGoes DEF Got

LEMMA HeldUpdateCustomer == ASSUME BookShape, HeldInv, NEW w \in Worker, UpdateCustomer(w) PROVE HeldInv'
<1>1. work[w].pc = "update" /\ ~On(w, "idle") BY DEF UpdateCustomer, On
<1>2. status' = status /\ \A b : Held(b) => Held(b)' BY DEF UpdateCustomer, bookkeeping, memory, crm, Held
<1>3. Went(w, work[w].next) BY UpdateCustomerMoves
<1>4. HeldFor(Cmd(w), work[w].next, work[w].next, work[w].mine, work[w].patch, Wanted(w))
  BY <1>1, AtStep DEF HeldInv, HeldBy, HeldFor, PlacedIn, Steps, LookupsOf, WritesOf, Cmds, Looking, Writing, Past
<1> QED BY <1>1, <1>2, <1>3, <1>4, HeldGoes DEF Went

LEMMA HeldMatched == ASSUME BookShape, HeldInv, NEW w \in Worker, Matched(w) PROVE HeldInv'
<1>1. work[w].pc = "matched" /\ ~On(w, "idle") BY DEF Matched, On
<1>2. status' = status /\ \A b : Held(b) => Held(b)' BY DEF Matched, bookkeeping, memory, crm, Held
<1>3. Wrote(w, [customer |-> work[w].got], "ack") BY MatchedMoves
<1>4. HeldFor(Cmd(w), "linkRead", "ack", work[w].mine, [customer |-> work[w].got], Wanted(w))
  BY <1>1, AtStep DEF HeldInv, HeldBy, HeldFor, PlacedIn, Steps, LookupsOf, WritesOf, Cmds, Looking, Writing, Past
<1> QED BY <1>1, <1>2, <1>3, <1>4, HeldGoes DEF Wrote

LEMMA HeldLinkStart == ASSUME BookShape, HeldInv, NEW w \in Worker, LinkStart(w) PROVE HeldInv'
<1>1. work[w].pc = "linkStart" /\ ~On(w, "idle") BY DEF LinkStart, On
<1>2. status' = status /\ \A b : Held(b) => Held(b)' BY DEF LinkStart, bookkeeping, memory, crm, Held
<1>3. Wrote(w, NoPatch, "ack") \/ Looked(w, "linked", link[Conv(w)]) \/ Took(w, "findJob", link[Conv(w)])
  BY LinkStartMoves
<1>4. CASE Wrote(w, NoPatch, "ack")
  <2>1. HeldFor(Cmd(w), "linkRead", "ack", work[w].mine, NoPatch, Wanted(w)) BY <1>1, AtStep DEF HeldInv, HeldBy, HeldFor, PlacedIn, Steps, LookupsOf, WritesOf, Cmds, Looking, Writing, Past
  <2> QED BY <1>1, <1>2, <1>4, <2>1, HeldGoes DEF Wrote
<1>5. CASE Looked(w, "linked", link[Conv(w)])
  <2>1. HeldFor(Cmd(w), "find", "linked", link[Conv(w)], work[w].patch, Wanted(w)) BY <1>1, AtStep DEF HeldInv, HeldBy, HeldFor, PlacedIn, Steps, LookupsOf, WritesOf, Cmds, Looking, Writing, Past
  <2> QED BY <1>1, <1>2, <1>5, <2>1, HeldGoes DEF Looked
<1>6. CASE Took(w, "findJob", link[Conv(w)])
  <2>1. HeldFor(Cmd(w), "findJob", work[w].next, link[Conv(w)], work[w].patch, Wanted(w)) BY <1>1, AtStep DEF HeldInv, HeldBy, HeldFor, PlacedIn, Steps, LookupsOf, WritesOf, Cmds, Looking, Writing, Past
  <2> QED BY <1>1, <1>2, <1>6, <2>1, HeldGoes DEF Took
<1> QED BY <1>3, <1>4, <1>5, <1>6

LEMMA HeldLinked == ASSUME BookShape, HeldInv, NEW w \in Worker, Linked(w) PROVE HeldInv'
<1>1. work[w].pc = "linked" /\ ~On(w, "idle") BY DEF Linked, On
<1>2. status' = status /\ \A b : Held(b) => Held(b)' BY DEF Linked, bookkeeping, memory, crm, Held
<1>3. Wrote(w, [customer |-> work[w].got], "findJob") BY LinkedMoves
<1>4. HeldFor(Cmd(w), "linkRead", "findJob", work[w].mine, [customer |-> work[w].got], Wanted(w))
  BY <1>1, AtStep DEF HeldInv, HeldBy, HeldFor, PlacedIn, Steps, LookupsOf, WritesOf, Cmds, Looking, Writing, Past
<1> QED BY <1>1, <1>2, <1>3, <1>4, HeldGoes DEF Wrote

LEMMA HeldLeadStart == ASSUME BookShape, HeldInv, NEW w \in Worker, LeadStart(w) PROVE HeldInv'
<1>1. work[w].pc = "leadStart" /\ ~On(w, "idle") BY DEF LeadStart, On
<1>2. status' = status /\ \A b : Held(b) => Held(b)' BY DEF LeadStart, bookkeeping, memory, crm, Held
<1>3. Took(w, "leadInsert", link[Conv(w)]) \/ Took(w, "leadAttach", link[Conv(w)])
  BY LeadStartMoves
<1>4. CASE Took(w, "leadInsert", link[Conv(w)])
  <2>1. HeldFor(Cmd(w), "leadInsert", work[w].next, link[Conv(w)], work[w].patch, Wanted(w)) BY <1>1, AtStep DEF HeldInv, HeldBy, HeldFor, PlacedIn, Steps, LookupsOf, WritesOf, Cmds, Looking, Writing, Past
  <2> QED BY <1>1, <1>2, <1>4, <2>1, HeldGoes DEF Took
<1>5. CASE Took(w, "leadAttach", link[Conv(w)])
  <2>1. HeldFor(Cmd(w), "leadAttach", work[w].next, link[Conv(w)], work[w].patch, Wanted(w)) BY <1>1, AtStep DEF HeldInv, HeldBy, HeldFor, PlacedIn, Steps, LookupsOf, WritesOf, Cmds, Looking, Writing, Past
  <2> QED BY <1>1, <1>2, <1>5, <2>1, HeldGoes DEF Took
<1> QED BY <1>3, <1>4, <1>5

LEMMA HeldLeadInsert == ASSUME BookShape, HeldInv, NEW w \in Worker, LeadInsert(w) PROVE HeldInv'
<1>1. work[w].pc = "leadInsert" /\ ~On(w, "idle") BY DEF LeadInsert, On
<1>2. status' = status /\ \A b : Held(b) => Held(b)' BY DEF LeadInsert, bookkeeping, memory, crm, Held
<1>3. Wrote(w, [lead |-> Len(leads) + 1], "leadAttach") BY LeadInsertMoves
<1>4. HeldFor(Cmd(w), "linkRead", "leadAttach", work[w].mine, [lead |-> Len(leads) + 1], Wanted(w))
  BY <1>1, AtStep DEF HeldInv, HeldBy, HeldFor, PlacedIn, Steps, LookupsOf, WritesOf, Cmds, Looking, Writing, Past
<1> QED BY <1>1, <1>2, <1>3, <1>4, HeldGoes DEF Wrote

LEMMA HeldLeadAttach == ASSUME BookShape, HeldInv, NEW w \in Worker, LeadAttach(w) PROVE HeldInv'
<1>1. work[w].pc = "leadAttach" /\ ~On(w, "idle") BY DEF LeadAttach, On
<1>2. status' = status /\ \A b : Held(b) => Held(b)' BY DEF LeadAttach, bookkeeping, memory, crm, Held
<1>3. Went(w, "ack") BY LeadAttachMoves
<1>4. HeldFor(Cmd(w), "ack", work[w].next, work[w].mine, work[w].patch, Wanted(w))
  BY <1>1, AtStep DEF HeldInv, HeldBy, HeldFor, PlacedIn, Steps, LookupsOf, WritesOf, Cmds, Looking, Writing, Past
<1> QED BY <1>1, <1>2, <1>3, <1>4, HeldGoes DEF Went

LEMMA HeldEnsure == ASSUME BookShape, HeldInv, NEW w \in Worker, Ensure(w) PROVE HeldInv'
<1>1. work[w].pc = "ensure" /\ ~On(w, "idle") BY DEF Ensure, On
<1>2. status' = status /\ \A b : Held(b) => Held(b)' BY DEF Ensure, bookkeeping, memory, crm, Held
<1>3. Took(w, "status", link[Conv(w)]) \/ Took(w, "newLead", link[Conv(w)])
  BY EnsureMoves
<1>4. CASE Took(w, "status", link[Conv(w)])
  <2>1. HeldFor(Cmd(w), "status", work[w].next, link[Conv(w)], work[w].patch, Wanted(w)) BY <1>1, AtStep DEF HeldInv, HeldBy, HeldFor, PlacedIn, Steps, LookupsOf, WritesOf, Cmds, Looking, Writing, Past
  <2> QED BY <1>1, <1>2, <1>4, <2>1, HeldGoes DEF Took
<1>5. CASE Took(w, "newLead", link[Conv(w)])
  <2>1. HeldFor(Cmd(w), "newLead", work[w].next, link[Conv(w)], work[w].patch, Wanted(w)) BY <1>1, AtStep DEF HeldInv, HeldBy, HeldFor, PlacedIn, Steps, LookupsOf, WritesOf, Cmds, Looking, Writing, Past
  <2> QED BY <1>1, <1>2, <1>5, <2>1, HeldGoes DEF Took
<1> QED BY <1>3, <1>4, <1>5

LEMMA HeldNewLead == ASSUME BookShape, HeldInv, NEW w \in Worker, NewLead(w) PROVE HeldInv'
<1>1. work[w].pc = "newLead" /\ ~On(w, "idle") BY DEF NewLead, On
<1>2. status' = status /\ \A b : Held(b) => Held(b)' BY DEF NewLead, bookkeeping, memory, crm, Held
<1>3. Wrote(w, Turned(w), "status") \/ Wrote(w, NewRow(w), "status")
  BY NewLeadMoves
<1>4. CASE Wrote(w, Turned(w), "status")
  <2>1. HeldFor(Cmd(w), "linkRead", "status", work[w].mine, Turned(w), Wanted(w)) BY <1>1, AtStep DEF HeldInv, HeldBy, HeldFor, PlacedIn, Steps, LookupsOf, WritesOf, Cmds, Looking, Writing, Past
  <2> QED BY <1>1, <1>2, <1>4, <2>1, HeldGoes DEF Wrote
<1>5. CASE Wrote(w, NewRow(w), "status")
  <2>1. HeldFor(Cmd(w), "linkRead", "status", work[w].mine, NewRow(w), Wanted(w)) BY <1>1, AtStep DEF HeldInv, HeldBy, HeldFor, PlacedIn, Steps, LookupsOf, WritesOf, Cmds, Looking, Writing, Past
  <2> QED BY <1>1, <1>2, <1>5, <2>1, HeldGoes DEF Wrote
<1> QED BY <1>3, <1>4, <1>5

LEMMA HeldStatus == ASSUME BookShape, HeldInv, NEW w \in Worker, Status(w) PROVE HeldInv'
<1>1. work[w].pc = "status" /\ ~On(w, "idle") BY DEF Status, On
<1>2. status' = status /\ \A b : Held(b) => Held(b)' BY DEF Status, bookkeeping, memory, crm, Held
<1>3. \/ Wrote(w, [job |-> work[w].got, customer |-> crmJobs[work[w].got].customer, review |-> FALSE], "resolve")
      \/ Went(w, "resolve")
  BY StatusMoves
<1>4. CASE Wrote(w, [job |-> work[w].got, customer |-> crmJobs[work[w].got].customer, review |-> FALSE], "resolve")
  <2>1. HeldFor(Cmd(w), "linkRead", "resolve", work[w].mine, [job |-> work[w].got, customer |-> crmJobs[work[w].got].customer, review |-> FALSE], Wanted(w)) BY <1>1, AtStep DEF HeldInv, HeldBy, HeldFor, PlacedIn, Steps, LookupsOf, WritesOf, Cmds, Looking, Writing, Past
  <2> QED BY <1>1, <1>2, <1>4, <2>1, HeldGoes DEF Wrote
<1>5. CASE Went(w, "resolve")
  <2>1. HeldFor(Cmd(w), "resolve", work[w].next, work[w].mine, work[w].patch, Wanted(w)) BY <1>1, AtStep DEF HeldInv, HeldBy, HeldFor, PlacedIn, Steps, LookupsOf, WritesOf, Cmds, Looking, Writing, Past
  <2> QED BY <1>1, <1>2, <1>5, <2>1, HeldGoes DEF Went
<1> QED BY <1>3, <1>4, <1>5

LEMMA HeldAttachLead == ASSUME BookShape, HeldInv, NEW w \in Worker, AttachLead(w) PROVE HeldInv'
<1>1. work[w].pc = "attachLead" /\ ~On(w, "idle") BY DEF AttachLead, On
<1>2. status' = status /\ \A b : Held(b) => Held(b)' BY DEF AttachLead, bookkeeping, memory, crm, Held
<1>3. Went(w, "book") BY AttachLeadMoves
<1>4. HeldFor(Cmd(w), "book", work[w].next, work[w].mine, work[w].patch, Wanted(w))
  BY <1>1, AtStep DEF HeldInv, HeldBy, HeldFor, PlacedIn, Steps, LookupsOf, WritesOf, Cmds, Looking, Writing, Past
<1> QED BY <1>1, <1>2, <1>3, <1>4, HeldGoes DEF Went

LEMMA HeldReview2 == ASSUME BookShape, HeldInv, NEW w \in Worker, Review2(w) PROVE HeldInv'
<1>1. work[w].pc = "review2" /\ ~On(w, "idle") BY DEF Review2, On
<1>2. status' = status /\ \A b : Held(b) => Held(b)' BY DEF Review2, bookkeeping, memory, crm, Held
<1>3. Wrote(w, [appt |-> Wanted(w), customer |-> 0, job |-> 0, booking |-> Wanted(w), review |-> TRUE], "ack") BY Review2Moves
<1>4. HeldFor(Cmd(w), "linkRead", "ack", work[w].mine, [appt |-> Wanted(w), customer |-> 0, job |-> 0, booking |-> Wanted(w), review |-> TRUE], Wanted(w))
  BY <1>1, AtStep DEF HeldInv, HeldBy, HeldFor, PlacedIn, Steps, LookupsOf, WritesOf, Cmds, Looking, Writing, Past
<1> QED BY <1>1, <1>2, <1>3, <1>4, HeldGoes DEF Wrote

LEMMA HeldRefresh == ASSUME BookShape, HeldInv, NEW w \in Worker, Refresh(w) PROVE HeldInv'
<1>1. work[w].pc = "refresh" /\ ~On(w, "idle") BY DEF Refresh, On
<1>2. status' = status /\ \A b : Held(b) => Held(b)' BY DEF Refresh, bookkeeping, memory, crm, Held
<1>3. Took(w, "attach", link[Conv(w)]) \/ Looked(w, "healed", link[Conv(w)])
  BY RefreshMoves
<1>4. CASE Took(w, "attach", link[Conv(w)])
  <2>1. HeldFor(Cmd(w), "attach", work[w].next, link[Conv(w)], work[w].patch, Wanted(w)) BY <1>1, AtStep DEF HeldInv, HeldBy, HeldFor, PlacedIn, Steps, LookupsOf, WritesOf, Cmds, Looking, Writing, Past
  <2> QED BY <1>1, <1>2, <1>4, <2>1, HeldGoes DEF Took
<1>5. CASE Looked(w, "healed", link[Conv(w)])
  <2>1. HeldFor(Cmd(w), "find", "healed", link[Conv(w)], work[w].patch, Wanted(w)) BY <1>1, AtStep DEF HeldInv, HeldBy, HeldFor, PlacedIn, Steps, LookupsOf, WritesOf, Cmds, Looking, Writing, Past
  <2> QED BY <1>1, <1>2, <1>5, <2>1, HeldGoes DEF Looked
<1> QED BY <1>3, <1>4, <1>5

LEMMA HeldHealed == ASSUME BookShape, HeldInv, NEW w \in Worker, Healed(w) PROVE HeldInv'
<1>1. work[w].pc = "healed" /\ ~On(w, "idle") BY DEF Healed, On
<1>2. status' = status /\ \A b : Held(b) => Held(b)' BY DEF Healed, bookkeeping, memory, crm, Held
<1>3. Wrote(w, [customer |-> work[w].got], "reread") BY HealedMoves
<1>4. HeldFor(Cmd(w), "linkRead", "reread", work[w].mine, [customer |-> work[w].got], Wanted(w))
  BY <1>1, AtStep DEF HeldInv, HeldBy, HeldFor, PlacedIn, Steps, LookupsOf, WritesOf, Cmds, Looking, Writing, Past
<1> QED BY <1>1, <1>2, <1>3, <1>4, HeldGoes DEF Wrote

LEMMA HeldReread == ASSUME BookShape, HeldInv, NEW w \in Worker, Reread(w) PROVE HeldInv'
<1>1. work[w].pc = "reread" /\ ~On(w, "idle") BY DEF Reread, On
<1>2. status' = status /\ \A b : Held(b) => Held(b)' BY DEF Reread, bookkeeping, memory, crm, Held
<1>3. Took(w, "attach", link[Conv(w)]) BY RereadMoves
<1>4. HeldFor(Cmd(w), "attach", work[w].next, link[Conv(w)], work[w].patch, Wanted(w))
  BY <1>1, AtStep DEF HeldInv, HeldBy, HeldFor, PlacedIn, Steps, LookupsOf, WritesOf, Cmds, Looking, Writing, Past
<1> QED BY <1>1, <1>2, <1>3, <1>4, HeldGoes DEF Took

LEMMA HeldMakeJob == ASSUME BookShape, HeldInv, NEW w \in Worker, MakeJob(w) PROVE HeldInv'
<1>1. work[w].pc = "job" /\ ~On(w, "idle") BY DEF MakeJob, On
<1>2. status' = status /\ \A b : Held(b) => Held(b)' BY DEF MakeJob, bookkeeping, memory, crm, Held
<1>3. \/ Wrote(w, [review |-> FALSE], "attachJob")
      \/ Wrote(w, [job |-> Len(crmJobs) + 1, review |-> FALSE], "attachJob")
      \/ Went(w, "ack")
  BY MakeJobMoves
<1>4. CASE Wrote(w, [review |-> FALSE], "attachJob")
  <2>1. HeldFor(Cmd(w), "linkRead", "attachJob", work[w].mine, [review |-> FALSE], Wanted(w)) BY <1>1, AtStep DEF HeldInv, HeldBy, HeldFor, PlacedIn, Steps, LookupsOf, WritesOf, Cmds, Looking, Writing, Past
  <2> QED BY <1>1, <1>2, <1>4, <2>1, HeldGoes DEF Wrote
<1>5. CASE Wrote(w, [job |-> Len(crmJobs) + 1, review |-> FALSE], "attachJob")
  <2>1. HeldFor(Cmd(w), "linkRead", "attachJob", work[w].mine, [job |-> Len(crmJobs) + 1, review |-> FALSE], Wanted(w)) BY <1>1, AtStep DEF HeldInv, HeldBy, HeldFor, PlacedIn, Steps, LookupsOf, WritesOf, Cmds, Looking, Writing, Past
  <2> QED BY <1>1, <1>2, <1>5, <2>1, HeldGoes DEF Wrote
<1>6. CASE Went(w, "ack")
  <2>1. HeldFor(Cmd(w), "ack", work[w].next, work[w].mine, work[w].patch, Wanted(w)) BY <1>1, AtStep DEF HeldInv, HeldBy, HeldFor, PlacedIn, Steps, LookupsOf, WritesOf, Cmds, Looking, Writing, Past
  <2> QED BY <1>1, <1>2, <1>6, <2>1, HeldGoes DEF Went
<1> QED BY <1>3, <1>4, <1>5, <1>6

LEMMA HeldDiary ==
  ASSUME BookShape, HeldInv, NEW w \in Worker, AttachAll(w) \/ Attach(w) \/ AttachJob(w) \/ Upsert(w) \/ Cancel(w)
  PROVE  HeldInv'
<1>1. \A b : Held(b) => Held(b)' BY HeldInDiary
<1>2. status' = status BY DEF AttachAll, Attach, AttachJob, Upsert, Cancel, bookkeeping
<1>3. CASE AttachAll(w)
  <2>1. work[w].pc = "attachAll" /\ ~On(w, "idle") BY <1>3 DEF AttachAll, On
  <2>2. HeldFor(Cmd(w), "ack", work[w].next, work[w].mine, work[w].patch, Wanted(w))
    BY <2>1, AtStep DEF HeldInv, HeldBy, HeldFor, PlacedIn, Steps, LookupsOf, WritesOf, Cmds, Looking, Writing, Past
  <2>3. Went(w, "ack") BY <1>3, AttachAllMoves
  <2> QED BY <1>1, <1>2, <2>1, <2>2, <2>3, HeldGoes DEF Went
<1>4. CASE Attach(w)
  <2>1. work[w].pc = "attach" /\ ~On(w, "idle") BY <1>4 DEF Attach, On
  <2>2. HeldFor(Cmd(w), "job", work[w].next, work[w].mine, work[w].patch, Wanted(w))
    BY <2>1, AtStep DEF HeldInv, HeldBy, HeldFor, PlacedIn, Steps, LookupsOf, WritesOf, Cmds, Looking, Writing, Past
  <2>3. Went(w, "job") BY <1>4, AttachMoves
  <2> QED BY <1>1, <1>2, <2>1, <2>2, <2>3, HeldGoes DEF Went
<1>5. CASE AttachJob(w)
  <2>1. work[w].pc = "attachJob" /\ ~On(w, "idle") BY <1>5 DEF AttachJob, On
  <2>2. HeldFor(Cmd(w), "ack", work[w].next, work[w].mine, work[w].patch, Wanted(w))
    BY <2>1, AtStep DEF HeldInv, HeldBy, HeldFor, PlacedIn, Steps, LookupsOf, WritesOf, Cmds, Looking, Writing, Past
  <2>3. Went(w, "ack") BY <1>5, AttachJobMoves
  <2> QED BY <1>1, <1>2, <2>1, <2>2, <2>3, HeldGoes DEF Went
<1>6. CASE Upsert(w)
  <2>1. work[w].pc = "upsert" /\ ~On(w, "idle") BY <1>6 DEF Upsert, On
  <2>2. HeldFor(Cmd(w), "ack", work[w].next, work[w].mine, work[w].patch, Wanted(w))
    BY <2>1, AtStep DEF HeldInv, HeldBy, HeldFor, PlacedIn, Steps, LookupsOf, WritesOf, Cmds, Looking, Writing, Past
  <2>3. Went(w, "ack") BY <1>6, UpsertMoves
  <2> QED BY <1>1, <1>2, <2>1, <2>2, <2>3, HeldGoes DEF Went
<1>7. CASE Cancel(w)
  <2>1. work[w].pc = "cancel" /\ ~On(w, "idle") BY <1>7 DEF Cancel, On
  <2>2. HeldFor(Cmd(w), "ack", work[w].next, work[w].mine, work[w].patch, Wanted(w))
    BY <2>1, AtStep DEF HeldInv, HeldBy, HeldFor, PlacedIn, Steps, LookupsOf, WritesOf, Cmds, Looking, Writing, Past
  <2>3. Went(w, "ack") BY <1>7, CancelMoves
  <2> QED BY <1>1, <1>2, <2>1, <2>2, <2>3, HeldGoes DEF Went
<1> QED BY <1>3, <1>4, <1>5, <1>6, <1>7

LEMMA HeldFindOne == ASSUME BookShape, HeldInv, NEW w \in Worker, FindOne(w) PROVE HeldInv'
<1>1. work[w].pc = "find" /\ ~On(w, "idle") BY DEF FindOne, On
<1>2. status' = status /\ \A b : Held(b) => Held(b)' BY DEF FindOne, bookkeeping, memory, crm, Held
<1>3. PICK k \in DOMAIN customers : Got(w, "update", k) BY FindOneMoves
<1>4. HeldFor(Cmd(w), "update", work[w].next, work[w].mine, work[w].patch, Wanted(w))
  BY <1>1, AtStep DEF HeldInv, HeldBy, HeldFor, PlacedIn, Steps, LookupsOf, WritesOf, Cmds, Looking, Writing, Past
<1> QED BY <1>1, <1>2, <1>3, <1>4, HeldGoes DEF Got

LEMMA HeldFindConflict == ASSUME BookShape, HeldInv, NEW w \in Worker, FindConflict(w) PROVE HeldInv'
<1>1. work[w].pc = "find" /\ ~On(w, "idle") BY DEF FindConflict, On
<1>2. status' = status /\ appts' = appts BY DEF FindConflict, bookkeeping, crm
<1>3. \/ /\ work[w].next = "linked" /\ flagged' = flagged \cup {Wanted(w)}
         /\ Wrote(w, [customer |-> 0, job |-> 0, booking |-> Wanted(w), review |-> TRUE], "ack")
      \/ work[w].next = "resolved" /\ Went(w, "review")
      \/ work[w].next = "healed" /\ Went(w, "attach")
      \/ work[w].next = "upsert" /\ Went(w, "upsert")
  BY FindConflictMoves
<1>4. \A b : Held(b) => Held(b)'
  <2>1. flagged \subseteq flagged' BY <1>3 DEF FindConflict
  <2> QED BY <1>2, <2>1 DEF Held
<1>5. CASE work[w].next = "linked" /\ Wrote(w, [customer |-> 0, job |-> 0, booking |-> Wanted(w), review |-> TRUE], "ack")
  <2>1. Cmd(w) # "CreateOrUpdate" BY <1>1, <1>5, AtStep DEF PlacedIn, Steps, LookupsOf, Cmds, Looking, Writing
  <2>2. PICK p : p = [customer |-> 0, job |-> 0, booking |-> Wanted(w), review |-> TRUE] OBVIOUS
  <2>3. HeldFor(Cmd(w), "linkRead", "ack", work[w].mine, p, Wanted(w)) BY <2>1 DEF HeldFor
  <2>4. Wrote(w, p, "ack") BY <1>5, <2>2
  <2> QED BY <1>1, <1>2, <1>4, <2>3, <2>4, HeldGoes DEF Wrote
<1>6. CASE work[w].next = "resolved" /\ Went(w, "review")
  <2>1. HeldFor(Cmd(w), "review", work[w].next, work[w].mine, work[w].patch, Wanted(w)) BY <1>6 DEF HeldFor, Past, Looking, Writing
  <2> QED BY <1>1, <1>2, <1>4, <1>6, <2>1, HeldGoes DEF Went
<1>7. CASE work[w].next = "healed" /\ Went(w, "attach")
  <2>1. HeldFor(Cmd(w), "attach", work[w].next, work[w].mine, work[w].patch, Wanted(w))
    BY <1>1, <1>7 DEF HeldInv, HeldBy, HeldFor, Past, Looking, Writing
  <2> QED BY <1>1, <1>2, <1>4, <1>7, <2>1, HeldGoes DEF Went
<1>8. CASE work[w].next = "upsert" /\ Went(w, "upsert")
  <2>1. HeldFor(Cmd(w), "upsert", work[w].next, work[w].mine, work[w].patch, Wanted(w)) BY <1>8 DEF HeldFor, Past, Looking, Writing
  <2> QED BY <1>1, <1>2, <1>4, <1>8, <2>1, HeldGoes DEF Went
<1> QED BY <1>3, <1>5, <1>6, <1>7, <1>8

LEMMA HeldLinkRead == ASSUME BookShape, HeldInv, NEW w \in Worker, LinkRead(w) PROVE HeldInv'
<1>1. work[w].pc = "linkRead" /\ ~On(w, "idle") BY DEF LinkRead, On
<1>2. status' = status /\ \A b : Held(b) => Held(b)' BY DEF LinkRead, bookkeeping, memory, crm, Held
<1>3. To(w, "linkWrite", work[w].next, work[w].mine, link[Conv(w)], work[w].patch, work[w].ext, work[w].got) BY LinkReadMoves
<1>4. HeldFor(Cmd(w), "linkWrite", work[w].next, work[w].mine, work[w].patch, Wanted(w))
  BY <1>1 DEF HeldInv, HeldBy, HeldFor, Looking, Writing, Past
<1> QED BY <1>1, <1>2, <1>3, <1>4, HeldGoes

LEMMA HeldLinkWrite == ASSUME BookShape, HeldInv, NEW w \in Worker, LinkWrite(w) PROVE HeldInv'
<1>1. work[w].pc = "linkWrite" /\ ~On(w, "idle") BY DEF LinkWrite, On
<1>2. status' = status /\ \A b : Held(b) => Held(b)' BY DEF LinkWrite, bookkeeping, memory, crm, Held
<1>3. To(w, work[w].next, "idle", Mine(w), NoLink, NoPatch, work[w].ext, work[w].got) BY LinkWriteMoves
<1>4. HeldFor(Cmd(w), work[w].next, "idle", Mine(w), NoPatch, Wanted(w))
  <2> SUFFICES ASSUME Cmd(w) = "CreateOrUpdate" PROVE HeldFor(Cmd(w), work[w].next, "idle", Mine(w), NoPatch, Wanted(w))
    BY DEF HeldFor
  <2>1. work[w].next \in { "status", "resolve", "attachLead", "review2", "refresh", "reread", "attachJob", "ack" }
    BY <1>1, AtStep DEF PlacedIn, Steps, WritesOf, Looking, Writing
  <2>2. Past(work[w].next, "idle") => Held(Wanted(w))
    BY <1>1, <2>1 DEF HeldInv, HeldBy, HeldFor, Looking, Writing, Past
  <2>3. ASSUME work[w].next = "attachLead" PROVE Mine(w).customer # 0
    <3>1. HeldBy(w) BY <1>1 DEF HeldInv
    <3>2. "customer" \in DOMAIN work[w].patch /\ work[w].patch.customer # 0 BY <1>1, <2>3, <3>1 DEF HeldBy, HeldFor, Writing
    <3>3. work[w].patch \in Patches /\ work[w].seen \in Row BY TaskHas DEF BookShape
    <3>4. Mine(w) = Laid(work[w].patch, work[w].seen) BY <2>3 DEF Mine, Returned
    <3>5. Mine(w).customer = work[w].patch.customer BY <3>2, <3>3, <3>4, LaidIs
    <3> QED BY <3>2, <3>5
  <2> QED BY <2>1, <2>2, <2>3 DEF HeldFor, Writing
<1> QED BY <1>1, <1>2, <1>3, <1>4, HeldGoes

LEMMA HeldFindJob == ASSUME BookShape, HeldInv, NEW w \in Worker, FindJob(w) PROVE HeldInv'
<1>1. work[w].pc = "findJob" /\ ~On(w, "idle") BY DEF FindJob, On
<1>2. status' = status /\ \A b : Held(b) => Held(b)' BY DEF FindJob, bookkeeping, memory, crm, Held
<1>3. Went(w, "attachAll") \/ \E j \in DOMAIN crmJobs : Wrote(w, [job |-> j], "attachAll") BY FindJobMoves
<1>4. Cmd(w) # "CreateOrUpdate" BY <1>1, AtStep DEF PlacedIn, Steps, Cmds, Looking, Writing
<1>5. \A pc, next, mine, patch : HeldFor(Cmd(w), pc, next, mine, patch, Wanted(w)) BY <1>4 DEF HeldFor
<1>6. CASE Went(w, "attachAll") BY <1>1, <1>2, <1>5, <1>6, HeldGoes DEF Went
<1>7. CASE \E j \in DOMAIN crmJobs : Wrote(w, [job |-> j], "attachAll")
  <2>1. PICK p : Wrote(w, p, "attachAll") BY <1>7
  <2> QED BY <1>1, <1>2, <1>5, <2>1, HeldGoes DEF Wrote
<1> QED BY <1>3, <1>6, <1>7

LEMMA HeldResolve == ASSUME BookShape, HeldInv, NEW w \in Worker, Resolve(w) PROVE HeldInv'
<1>1. work[w].pc = "resolve" /\ ~On(w, "idle") BY DEF Resolve, On
<1>2. status' = status /\ \A b : Held(b) => Held(b)' BY DEF Resolve, bookkeeping, memory, crm, Held
<1>3. IF work[w].mine.customer # 0 THEN Went(w, "book") ELSE Looked(w, "resolved", work[w].mine) BY ResolveMoves
<1>4. CASE work[w].mine.customer # 0
  <2>1. HeldFor(Cmd(w), "book", work[w].next, work[w].mine, work[w].patch, Wanted(w)) BY <1>4 DEF HeldFor, Past, Looking, Writing
  <2> QED BY <1>1, <1>2, <1>3, <1>4, <2>1, HeldGoes DEF Went
<1>5. CASE work[w].mine.customer = 0
  <2>1. HeldFor(Cmd(w), "find", "resolved", work[w].mine, work[w].patch, Wanted(w)) BY DEF HeldFor, Past, Looking, Writing
  <2> QED BY <1>1, <1>2, <1>3, <1>5, <2>1, HeldGoes DEF Looked
<1> QED BY <1>4, <1>5

LEMMA HeldResolved == ASSUME BookShape, HeldInv, NEW w \in Worker, Resolved(w) PROVE HeldInv'
<1>1. work[w].pc = "resolved" /\ ~On(w, "idle") BY DEF Resolved, On
<1>2. status' = status /\ \A b : Held(b) => Held(b)' BY DEF Resolved, bookkeeping, memory, crm, Held
<1>3. Wrote(w, [customer |-> work[w].got, review |-> FALSE], "attachLead") BY ResolvedMoves
<1>4. work[w].got # 0
  <2>1. work[w].got \in DOMAIN customers BY <1>1, AtStep DEF GotFor, GotBy, HasOne
  <2>2. DOMAIN customers = 1 .. Len(customers) /\ Len(customers) \in Nat BY RowsAre DEF BookShape, BookTypes
  <2> QED BY <2>1, <2>2
<1>5. PICK p : p = [customer |-> work[w].got, review |-> FALSE] OBVIOUS
<1>6. "customer" \in DOMAIN p /\ p.customer # 0 BY <1>4, <1>5
<1>7. HeldFor(Cmd(w), "linkRead", "attachLead", work[w].mine, p, Wanted(w)) BY <1>6 DEF HeldFor, Past, Looking, Writing
<1>8. Wrote(w, p, "attachLead") BY <1>3, <1>5
<1> QED BY <1>1, <1>2, <1>7, <1>8, HeldGoes DEF Wrote

\* A worker whose booking is held from now on.
LEMMA HeldHere ==
  ASSUME BookShape, HeldInv, \A b : Held(b) => Held(b)', status' = status, NEW w \in Worker, ~On(w, "idle"),
         NEW pc, NEW next, NEW mine, NEW seen, NEW patch, NEW ext, NEW got,
         To(w, pc, next, mine, seen, patch, ext, got), pc \notin { "book", "attachLead" }, pc \in Writing => next # "attachLead",
         NEW b, b = Wanted(w), Held(b)'
  PROVE  HeldInv'
<1>1. PICK cmd : cmd = Cmd(w) OBVIOUS
<1>2. HeldFor(cmd, pc, next, mine, patch, b)' BY DEF HeldFor
<1> QED BY <1>1, <1>2, HeldMove

LEMMA HeldLookup == ASSUME BookShape, HeldInv, NEW w \in Worker, Lookup(w) PROVE HeldInv'
<1>1. work[w].pc = "lookup" /\ ~On(w, "idle") BY DEF Lookup, On
<1>2. status' = status /\ appts' = appts BY DEF Lookup, bookkeeping, crm
<1>3. IF Duplicate(w, Wanted(w) \in DOMAIN appts, link[Conv(w)])
      THEN /\ Wrote(w, [appt |-> link[Conv(w)].appt, booking |-> link[Conv(w)].booking, review |-> TRUE], "ack")
           /\ flagged' = flagged \cup {Wanted(w)}
      ELSE To(w, "ensure", work[w].next, work[w].mine, work[w].seen, work[w].patch, Wanted(w) \in DOMAIN appts, work[w].got)
  BY LookupMoves
<1>4. CASE Duplicate(w, Wanted(w) \in DOMAIN appts, link[Conv(w)])
  <2>1. PICK b : b = Wanted(w) OBVIOUS
  <2>2. flagged' = flagged \cup {b} BY <1>3, <1>4, <2>1
  <2>3. Held(b)' /\ \A k : Held(k) => Held(k)' BY <1>2, <2>2 DEF Held
  <2>4. PICK p : Wrote(w, p, "ack") BY <1>3, <1>4
  <2> QED BY <1>1, <1>2, <2>1, <2>3, <2>4, HeldHere DEF Wrote
<1>5. CASE ~Duplicate(w, Wanted(w) \in DOMAIN appts, link[Conv(w)])
  <2>1. flagged' = flagged BY <1>5 DEF Lookup
  <2>2. \A k : Held(k) => Held(k)' BY <1>2, <2>1 DEF Held
  <2>3. HeldFor(Cmd(w), "ensure", work[w].next, work[w].mine, work[w].patch, Wanted(w)) BY DEF HeldFor, Past, Looking, Writing
  <2> QED BY <1>1, <1>2, <1>3, <1>5, <2>2, <2>3, HeldGoes
<1> QED BY <1>4, <1>5

LEMMA HeldReview == ASSUME BookShape, HeldInv, NEW w \in Worker, Review(w) PROVE HeldInv'
<1>1. work[w].pc = "review" /\ ~On(w, "idle") BY DEF Review, On
<1>2. status' = status BY DEF Review, bookkeeping
<1>3. PICK b : b = Wanted(w) OBVIOUS
<1>4. flagged' = flagged \cup {b} BY <1>3, ReviewMoves
<1>5. DOMAIN appts \subseteq DOMAIN appts' BY ReviewMoves DEF Grown
<1>6. \A k \in DOMAIN appts : appts'[k].customer = appts[k].customer BY ReviewMoves
<1>7. Held(b)' /\ \A k : Held(k) => Held(k)' BY <1>4, <1>5, <1>6, HeldIs DEF Held
<1>8. IF work[w].ext THEN Went(w, "review2") ELSE Wrote(w, [appt |-> Wanted(w)], "review2") BY ReviewMoves
<1>9. CASE Went(w, "review2")
  <2>1. "review2" \notin Writing BY DEF Writing
  <2> QED BY <1>1, <1>2, <1>3, <1>7, <1>9, <2>1, HeldHere DEF Went
<1>10. CASE Wrote(w, [appt |-> Wanted(w)], "review2")
  <2>1. PICK p : Wrote(w, p, "review2") BY <1>10
  <2> QED BY <1>1, <1>2, <1>3, <1>7, <2>1, HeldHere DEF Wrote
<1> QED BY <1>8, <1>9, <1>10

LEMMA HeldBook == ASSUME BookShape, HeldInv, NEW w \in Worker, Book(w) PROVE HeldInv'
<1>1. work[w].pc = "book" /\ ~On(w, "idle") BY DEF Book, On
<1>2. status' = status BY DEF Book, bookkeeping
<1>3. PICK b : b = Wanted(w) OBVIOUS
<1>4. work[w].mine.customer # 0
  <2>1. Cmd(w) = "CreateOrUpdate" BY <1>1, AtStep DEF PlacedIn, Steps, Cmds, Looking, Writing
  <2> QED BY <1>1, <2>1 DEF HeldInv, HeldBy, HeldFor
<1>5. CASE appts' = appts /\ flagged' = flagged \cup {b} /\ \E p : Wrote(w, p, "ack")
  <2>1. Held(b)' /\ \A k : Held(k) => Held(k)' BY <1>5 DEF Held
  <2>2. PICK p : Wrote(w, p, "ack") BY <1>5
  <2> QED BY <1>1, <1>2, <1>3, <2>1, <2>2, HeldHere DEF Wrote
<1>6. CASE /\ flagged' = flagged /\ DOMAIN appts' = DOMAIN appts \cup {b} /\ \A k \in DOMAIN appts \ {b} : appts'[k] = appts[k]
           /\ appts'[b].customer = work[w].mine.customer /\ \E p : Wrote(w, p, "refresh")
  <2>1. Held(b)' /\ \A k : Held(k) => Held(k)' BY <1>4, <1>6 DEF Held
  <2>2. PICK p : Wrote(w, p, "refresh") BY <1>6
  <2> QED BY <1>1, <1>2, <1>3, <2>1, <2>2, HeldHere DEF Wrote
<1> QED BY <1>3, <1>4, <1>5, <1>6, BookMoves

LEMMA HeldBetween ==
  ASSUME BookShape, HeldInv, UNCHANGED << crm, flagged >>, NEW w \in Worker, \A v \in Worker \ {w} : work'[v] = work[v],
         Starting(work'[w].pc, work'[w].next),
         \A e \in Events : e.kind = "confirmed" /\ status'[e] = "done" => status[e] = "done" \/ Held(e.booking)
  PROVE  HeldInv'
<1>1. \A b : Held(b) <=> Held(b)' BY DEF Held, crm
<1>2. \A v \in Worker : ~On(v, "idle")' => HeldBy(v)'
  <2> SUFFICES ASSUME NEW v \in Worker, ~On(v, "idle")' PROVE HeldBy(v)' OBVIOUS
  <2>1. CASE v = w BY <2>1 DEF HeldBy, HeldFor, Past, Looking, Writing, Starting
  <2>2. CASE v # w
    <3>1. work'[v] = work[v] BY <2>2
    <3>2. Cmd(v)' = Cmd(v) /\ Wanted(v)' = Wanted(v) BY <3>1, SameCommand
    <3>3. HeldBy(v) BY <3>1 DEF HeldInv, On
    <3>4. Held(Wanted(v)) => Held(Wanted(v))'
      <4>1. PICK k : k = Wanted(v) OBVIOUS
      <4> QED BY <1>1, <3>2, <4>1 DEF Held
    <3> QED BY <3>1, <3>2, <3>3, <3>4 DEF HeldBy, HeldFor, Past
  <2> QED BY <2>1, <2>2
<1>3. \A e \in Events : e.kind = "confirmed" /\ status'[e] = "done" => Held(e.booking)' BY <1>1 DEF HeldInv
<1> QED BY <1>2, <1>3 DEF HeldInv

\* Whatever the command, it starts where nothing is held.
LEMMA StartsAre ==
  ASSUME BookShape, NEW w \in Worker, NEW e \in Events, NEW step \in 1 .. Len(Commands(e)), NEW how \in Recoveries \cup {"none"},
         NEW got \in Nat, work' = [work EXCEPT ![w] = CommandAt(e, step, how, got)]
  PROVE  /\ Starting(work'[w].pc, work'[w].next) /\ \A v \in Worker \ {w} : work'[v] = work[v]
         /\ work'[w].event = {e} /\ work'[w].how = how /\ ~work'[w].ext
         /\ e.kind = "recovered" => work'[w].pc = "lookup"
<1>1. PICK t : t = CommandAt(e, step, how, got) OBVIOUS
<1>2. RowTypes /\ work \in [Worker -> Task] BY DEF BookShape, BookTypes
<1>3. /\ Commands(e)[step] \in Cmds /\ t.pc = FirstStep(Commands(e)[step]) /\ t.next = Found(Commands(e)[step])
      /\ t.event = {e} /\ t.how = how /\ ~t.ext
  BY ONLY <1>1, <1>2, TaskOf, e \in Events, step \in 1 .. Len(Commands(e)), how \in Recoveries \cup {"none"}, got \in Nat
<1>4. work'[w] = t /\ \A v \in Worker \ {w} : work'[v] = work[v] BY <1>1, <1>2
<1>5. Starting(t.pc, t.next) BY <1>3 DEF Starting, FirstStep, Found, Cmds
<1>6. ASSUME e.kind = "recovered" PROVE t.pc = "lookup"
  <2>1. Len(Commands(e)) = 1 /\ Commands(e)[1] = "CreateOrUpdate" BY <1>6, CommandsAre
  <2>2. step = 1 BY <2>1
  <2> QED BY <1>3, <2>1, <2>2 DEF FirstStep
<1> QED BY <1>3, <1>4, <1>5, <1>6

LEMMA StartsNext ==
  ASSUME BookShape, NEW w \in Worker, NEW e \in Events, NEW step \in 1 .. Len(Commands(e)),
         work' = [work EXCEPT ![w] = CommandAt(e, step, "none", 0)]
  PROVE  /\ Starting(work'[w].pc, work'[w].next) /\ \A v \in Worker \ {w} : work'[v] = work[v]
         /\ work'[w].event = {e} /\ work'[w].how = "none" /\ ~work'[w].ext
BY StartsAre

LEMMA IdleIs ==
  ASSUME BookShape, NEW w \in Worker, work' = [work EXCEPT ![w] = Resting]
  PROVE  /\ Starting(work'[w].pc, work'[w].next) /\ \A v \in Worker \ {w} : work'[v] = work[v]
         /\ work'[w].pc = "idle" /\ work'[w].event = {} /\ work'[w].how = "none" /\ ~work'[w].ext
<1>1. Resting.pc = "idle" /\ Resting.event = {} /\ Resting.how = "none" /\ Resting.next = "idle" BY DEF Resting
<1>2. ~Resting.ext BY Zenon DEF Resting
<1>3. work'[w] = Resting /\ \A v \in Worker \ {w} : work'[v] = work[v] BY DEF BookShape, BookTypes
<1> QED BY <1>1, <1>2, <1>3 DEF Starting

LEMMA HeldFailed == ASSUME BookShape, HeldInv, NEW w \in Worker, FailCommand(w) \/ Refused(w) PROVE HeldInv'
<1>1. work' = [work EXCEPT ![w] = Resting] /\ status' = [status EXCEPT ![Event(w)] = "failed"] /\ UNCHANGED << crm, flagged >>
  BY DEF FailCommand, Refused, memory
<1>2. \A e \in Events : status'[e] = "done" => status[e] = "done" BY <1>1 DEF BookShape, BookTypes
<1> QED BY <1>1, <1>2, IdleIs, HeldBetween

\* The next command, or none.
LEMMA ProceedIs ==
  ASSUME BookShape, NEW w \in Worker, ~On(w, "idle"), Proceed(w)
  PROVE  /\ Starting(work'[w].pc, work'[w].next) /\ \A v \in Worker \ {w} : work'[v] = work[v]
         /\ work'[w].how = "none" /\ ~work'[w].ext
         /\ \/ work'[w].event = {Event(w)} /\ status' = status /\ work[w].step < Len(Commands(Event(w)))
            \/ /\ work'[w].pc = "idle" /\ work'[w].event = {} /\ status' = [status EXCEPT ![Event(w)] = "done"]
               /\ work[w].step = Len(Commands(Event(w)))
<1>1. PICK e \in Events : e = Event(w) /\ work[w].step \in 1 .. Len(Commands(e)) BY AtStep DEF Busy
<1>2. PICK n \in {1, 2} : n = Len(Commands(e)) BY <1>1, CommandsAre
<1>3. CASE work[w].step < Len(Commands(e))
  <2>1. PICK s : s = work[w].step + 1 OBVIOUS
  <2>2. PICK s2 \in 1 .. Len(Commands(e)) : s2 = s BY <1>1, <1>2, <1>3, <2>1
  <2>3. work' = [work EXCEPT ![w] = CommandAt(e, s2, "none", 0)] /\ status' = status BY <1>1, <1>3, <2>1, <2>2 DEF Proceed
  <2>4. /\ Starting(work'[w].pc, work'[w].next) /\ \A v \in Worker \ {w} : work'[v] = work[v]
        /\ work'[w].event = {e} /\ work'[w].how = "none" /\ ~work'[w].ext
    BY <2>3, StartsNext
  <2> QED BY <1>1, <1>3, <2>3, <2>4
<1>4. CASE ~(work[w].step < Len(Commands(e)))
  <2>1. work' = [work EXCEPT ![w] = Resting] /\ status' = [status EXCEPT ![e] = "done"] BY <1>1, <1>4 DEF Proceed
  <2>2. work[w].step = Len(Commands(e)) BY <1>1, <1>2, <1>4
  <2>3. /\ Starting(work'[w].pc, work'[w].next) /\ \A v \in Worker \ {w} : work'[v] = work[v]
        /\ work'[w].pc = "idle" /\ work'[w].event = {} /\ work'[w].how = "none" /\ ~work'[w].ext
    BY <2>1, IdleIs
  <2> QED BY <1>1, <2>1, <2>2, <2>3
<1> QED BY <1>3, <1>4

LEMMA HeldProceeds == ASSUME BookShape, HeldInv, NEW w \in Worker, Acknowledge(w) \/ Defer(w) PROVE HeldInv'
<1>1. ~On(w, "idle") /\ Proceed(w) /\ UNCHANGED << crm, flagged >> BY DEF Acknowledge, Defer, On
<1>2. Busy(w) /\ Event(w) \in Events BY <1>1, AtStep DEF Busy
<1>3. \A e \in Events : e.kind = "confirmed" /\ status'[e] = "done" => status[e] = "done" \/ Held(e.booking)
  <2> SUFFICES ASSUME NEW e \in Events, e.kind = "confirmed", status'[e] = "done", status[e] # "done" PROVE Held(e.booking)
    OBVIOUS
  <2>1. e = Event(w) /\ work[w].step = Len(Commands(e)) BY <1>1, <1>2, ProceedIs DEF BookShape, BookTypes
  <2>2. Acknowledge(w) BY <2>1 DEF Defer, IsNonFatal
  <2>3. work[w].pc = "ack" BY <2>2 DEF Acknowledge, On
  <2>4. Cmd(w) = "CreateOrUpdate" BY <2>1, CommandsAre DEF Cmd
  <2>5. HeldBy(w) /\ Wanted(w) = e.booking BY <1>1, <2>1 DEF HeldInv, Wanted
  <2> QED BY <2>3, <2>4, <2>5 DEF HeldBy, HeldFor, Past
<1> QED BY <1>1, <1>3, ProceedIs, HeldBetween

LEMMA TakenUp ==
  ASSUME BookShape, NEW w \in Worker, NEW e \in Events, BeginEvent(w, e) \/ Recover(w, e)
  PROVE  /\ Starting(work'[w].pc, work'[w].next) /\ \A v \in Worker \ {w} : work'[v] = work[v]
         /\ work'[w].event = {e} /\ ~work'[w].ext
         /\ e.kind = "recovered" => work'[w].pc = "lookup"
<1>1. PICK n \in {1, 2} : n = Len(Commands(e)) BY CommandsAre
<1>2. RowTypes BY DEF BookShape, BookTypes
<1>3. CASE BeginEvent(w, e)
  <2>1. PICK s : s = acked[e] + 1 OBVIOUS
  <2>2. s \in 1 .. Len(Commands(e))
    <3>1. acked[e] \in Nat /\ acked[e] < n BY <1>1, <1>3 DEF BookShape, BookTypes, BusyInv, BeginEvent
    <3> QED BY <1>1, <2>1, <3>1
  <2>3. work' = [work EXCEPT ![w] = CommandAt(e, s, "none", 0)] BY <1>3, <2>1 DEF BeginEvent
  <2> QED BY <2>2, <2>3, StartsAre
<1>4. CASE Recover(w, e)
  <2>1. PICK how \in Recoveries :
          \E got \in CASE how = "newCustomer" -> {0} [] how = "linkCustomer" -> DOMAIN customers [] OTHER -> DOMAIN crmJobs :
            work' = [work EXCEPT ![w] = CommandAt(e, 1, how, got)]
    BY <1>4 DEF Recover
  <2>2. DOMAIN customers \subseteq Nat /\ DOMAIN crmJobs \subseteq Nat BY <1>2, RowsAre
  <2>3. PICK got \in Nat : work' = [work EXCEPT ![w] = CommandAt(e, 1, how, got)] BY <2>1, <2>2
  <2>4. 1 \in 1 .. Len(Commands(e)) BY <1>1
  <2> QED BY <2>3, <2>4, StartsAre
<1> QED BY <1>3, <1>4

LEMMA HeldTakenUp == ASSUME BookShape, HeldInv, NEW w \in Worker, NEW e \in Events, BeginEvent(w, e) \/ Recover(w, e) PROVE HeldInv'
<1>1. UNCHANGED << crm, flagged >> /\ status' = [status EXCEPT ![e] = "running"] BY DEF BeginEvent, Recover
<1>2. \A k \in Events : status'[k] = "done" => status[k] = "done" BY <1>1 DEF BookShape, BookTypes
<1> QED BY <1>1, <1>2, TakenUp, HeldBetween

LEMMA HeldStays == ASSUME BookShape, HeldInv, BookingNext PROVE HeldInv'
<1>1. PICK w \in Worker : CommandStep(w) \/ FailCommand(w) \/ Defer(w) \/ \E e \in Events : BeginEvent(w, e) \/ Recover(w, e)
  BY DEF BookingNext
<1>2. CASE Customers(w)
  BY <1>2, HeldFindNone, HeldFindOne, HeldFindConflict, HeldInsertCustomer, HeldUpdateCustomer, HeldMatched DEF Customers
<1>3. CASE Linking(w)
  BY <1>3, HeldLinkRead, HeldLinkWrite, HeldLinkStart, HeldLinked, HeldFindJob, HeldDiary DEF Linking
<1>4. CASE Qualifying(w) BY <1>4, HeldLeadStart, HeldLeadInsert, HeldLeadAttach DEF Qualifying
<1>5. CASE Ensuring(w)
  BY <1>5, HeldLookup, HeldEnsure, HeldNewLead, HeldStatus, HeldResolve, HeldResolved, HeldAttachLead DEF Ensuring
<1>6. CASE Booked(w)
  BY <1>6, HeldReview, HeldReview2, HeldBook, HeldFailed, HeldRefresh, HeldHealed, HeldReread, HeldMakeJob, HeldDiary DEF Booked
<1>7. CASE Calendar(w) BY <1>7, HeldDiary DEF Calendar
<1>8. CASE Acknowledge(w) BY <1>8, HeldProceeds
<1>9. CASE FailCommand(w) BY <1>9, HeldFailed
<1>10. CASE Defer(w) BY <1>10, HeldProceeds
<1>11. CASE \E e \in Events : BeginEvent(w, e) \/ Recover(w, e) BY <1>11, HeldTakenUp
<1> QED BY <1>1, <1>2, <1>3, <1>4, <1>5, <1>6, <1>7, <1>8, <1>9, <1>10, <1>11 DEF CommandStep

LEMMA HeldStutters == ASSUME HeldInv, UNCHANGED bookingVars PROVE HeldInv'
<1>1. UNCHANGED << customers, leads, crmJobs, appts, link, status, acked, work, flagged, switches, settled, failures >>
  BY DEF bookingVars
<1>2. \A b : Held(b) <=> Held(b)' BY <1>1 DEF Held
<1>3. \A w \in Worker : ~On(w, "idle")' => HeldBy(w)'
  <2> SUFFICES ASSUME NEW w \in Worker, ~On(w, "idle")' PROVE HeldBy(w)' OBVIOUS
  <2>1. Cmd(w)' = Cmd(w) /\ Wanted(w)' = Wanted(w) /\ work'[w] = work[w] BY <1>1, SameCommand
  <2>2. HeldBy(w) BY <2>1 DEF HeldInv, On
  <2>3. PICK b : b = Wanted(w) OBVIOUS
  <2>4. Held(b) <=> Held(b)' BY <1>2
  <2> QED BY <2>1, <2>2, <2>3, <2>4 DEF HeldBy, HeldFor, Past
<1> QED BY <1>1, <1>2, <1>3 DEF HeldInv

LEMMA HeldAtFirst == ASSUME BookingInit PROVE HeldInv
<1>1. \A w \in Worker : work[w] = Resting BY DEF BookingInit
<1>2. Resting.pc = "idle" BY DEF Resting
<1>3. \A e \in Events : status[e] = "waiting" BY DEF BookingInit
<1> QED BY <1>1, <1>2, <1>3 DEF HeldInv, On

\* A confirmed booking that was handled is in the diary with its customer, unless a command
\* put it before the office: commands beside it, failures and retries never undo it.
THEOREM KeptCorrect == BookingSpec => []NeverLost
<1>1. BookingInit => HeldInv BY HeldAtFirst
<1>2. BookShape /\ HeldInv /\ [BookingNext]_bookingVars => HeldInv' BY HeldStays, HeldStutters
<1>3. HeldInv => NeverLost BY DEF HeldInv, Held, NeverLost
<1> QED BY <1>1, <1>2, <1>3, ShapeAlways, PTL DEF BookingSpec

-----------------------------------------------------------------------------
(* How many customers there can be.                                        *)

LEMMA TalliesAre ==
  /\ Cardinality(Worker) \in Nat /\ Cardinality(Pending) \in Nat /\ Cardinality(Pending) <= Cardinality(Worker)
  /\ Cardinality(Recovered) \in Nat /\ IsFiniteSet(Pending) /\ IsFiniteSet(Once) /\ IsFiniteSet(Twice) /\ IsFiniteSet(Thrice)
  /\ Cardinality(Once) \in Nat /\ Cardinality(Twice) \in Nat /\ Cardinality(Thrice) \in Nat
  /\ Cardinality(Once) <= Cardinality(Recovered) /\ Cardinality(Twice) <= Cardinality(Recovered)
  /\ Cardinality(Thrice) <= Cardinality(Recovered)
<1>1. Recovered \subseteq Events /\ Pending \subseteq Worker /\ Once \subseteq Recovered /\ Twice \subseteq Recovered /\ Thrice \subseteq Recovered
  BY DEF Recovered, Pending, Once, Twice, Thrice
<1>2. IsFiniteSet(Worker) /\ IsFiniteSet(Recovered) BY <1>1, BookingsAssumption, FS_Subset
<1> QED BY <1>1, <1>2, FS_Subset, FS_CardinalityType

LEMMA CountsWillBe ==
  /\ Cardinality(Pending') \in Nat /\ Cardinality(Pending') <= Cardinality(Worker)
  /\ IsFiniteSet(Pending') /\ IsFiniteSet(Once') /\ IsFiniteSet(Twice') /\ IsFiniteSet(Thrice')
  /\ Cardinality(Once') \in Nat /\ Cardinality(Twice') \in Nat /\ Cardinality(Thrice') \in Nat
<1>1. Recovered \subseteq Events /\ Pending' \subseteq Worker /\ Once' \subseteq Recovered /\ Twice' \subseteq Recovered /\ Thrice' \subseteq Recovered
  BY DEF Recovered, Pending, Once, Twice, Thrice
<1>2. IsFiniteSet(Worker) /\ IsFiniteSet(Recovered) BY <1>1, BookingsAssumption, FS_Subset
<1> QED BY <1>1, <1>2, FS_Subset, FS_CardinalityType

\* A set that grows by an element has one more.
LEMMA OneMore ==
  ASSUME NEW S, NEW T, IsFiniteSet(T), S \subseteq T, NEW x \in T, x \notin S
  PROVE  Cardinality(S) + 1 <= Cardinality(T)
<1>1. S \cup {x} \subseteq T OBVIOUS
<1>2. IsFiniteSet(S) BY FS_Subset
<1>3. IsFiniteSet(S \cup {x}) /\ Cardinality(S \cup {x}) = Cardinality(S) + 1 BY <1>2, FS_AddElement
<1>4. Cardinality(S \cup {x}) <= Cardinality(T) BY <1>1, FS_Subset
<1> QED BY <1>3, <1>4

\* And one that loses at most one element has at most one less.
LEMMA OneLess ==
  ASSUME NEW S, NEW T, IsFiniteSet(T), NEW x, S \subseteq T \cup {x}
  PROVE  IsFiniteSet(S) /\ Cardinality(S) <= Cardinality(T) + 1
<1>1. IsFiniteSet(T \cup {x}) /\ Cardinality(T \cup {x}) <= Cardinality(T) + 1
  <2>1. /\ IsFiniteSet(T \cup {x}) 
        /\ Cardinality(T \cup {x}) = IF x \in T THEN Cardinality(T) ELSE Cardinality(T) + 1
    BY FS_AddElement
  <2>2. Cardinality(T) \in Nat BY FS_CardinalityType
  <2> QED BY <2>1, <2>2
<1>2. IsFiniteSet(S) /\ Cardinality(S) <= Cardinality(T \cup {x}) BY <1>1, FS_Subset
<1>3. Cardinality(S) \in Nat /\ Cardinality(T \cup {x}) \in Nat /\ Cardinality(T) \in Nat BY <1>1, <1>2, FS_CardinalityType
<1> QED BY <1>1, <1>2, <1>3

LEMMA CountGrows ==
  ASSUME CountInv, Len(customers) \in Nat, Len(customers') = Len(customers), failures \in Nat, failures' \in { failures, failures + 1 },
         Pending' \subseteq Pending \/ Len(customers) = 0, Once \subseteq Once', Twice \subseteq Twice', Thrice \subseteq Thrice'
  PROVE  CountInv'
<1>1. Cardinality(Once) <= Cardinality(Once') /\ Cardinality(Twice) <= Cardinality(Twice') /\ Cardinality(Thrice) <= Cardinality(Thrice')
  BY CountsWillBe, FS_Subset
<1>2. Len(customers) > 0 => Cardinality(Pending') <= Cardinality(Pending) BY TalliesAre, FS_Subset
<1>3. PICK n, m, f, g, p, q, a, b, c, x, y, z :
        /\ n = Len(customers) /\ m = Cardinality(Worker) /\ f = failures /\ g = failures' /\ p = Cardinality(Pending) /\ q = Cardinality(Pending')
        /\ a = Cardinality(Once) /\ b = Cardinality(Twice) /\ c = Cardinality(Thrice)
        /\ x = Cardinality(Once') /\ y = Cardinality(Twice') /\ z = Cardinality(Thrice')
  OBVIOUS
<1>4. n \in Nat /\ m \in Nat /\ f \in Nat /\ g \in { f, f + 1 } /\ p \in Nat /\ a \in Nat /\ b \in Nat /\ c \in Nat BY <1>3, TalliesAre
<1>5. q \in Nat /\ x \in Nat /\ y \in Nat /\ z \in Nat BY <1>3, CountsWillBe
<1>6. n > 0 => n + p <= m + 2 * f + a + b + c BY <1>3 DEF CountInv
<1>7. a <= x /\ b <= y /\ c <= z /\ (n > 0 => q <= p) BY <1>1, <1>2, <1>3
<1>8. n > 0 => n + q <= m + 2 * g + x + y + z BY ONLY <1>4, <1>5, <1>6, <1>7
<1> QED BY <1>3, <1>8 DEF CountInv

\* The event of a worker is its own, and is running.
LEMMA OwnerIs ==
  ASSUME BookShape, NEW v \in Worker, NEW e \in Events, work[v].event = {e}
  PROVE  Event(v) = e /\ Wanted(v) = e.booking /\ status[e] = "running" /\ \A u \in Worker : work[u].event = {e} => u = v
<1>1. ~Vacant(v) BY DEF Vacant
<1>2. Busy(v) BY <1>1 DEF BookShape, BusyInv
<1>3. Event(v) = e BY EventIs
<1>4. \A u \in Worker : work[u].event = {e} => u = v BY <1>1 DEF BookShape, BusyInv
<1> QED BY <1>2, <1>3, <1>4 DEF Busy, Wanted

LEMMA MadeStays ==
  ASSUME BookShape, DOMAIN appts \subseteq DOMAIN appts', NEW v \in Worker, work'[v] = work[v]
  PROVE  (OnceBy(v) => OnceBy(v)') /\ (TwiceBy(v) => TwiceBy(v)') /\ (ThriceBy(v) => ThriceBy(v)')
         /\ (Wanted(v) \in DOMAIN appts => Wanted(v)' \in DOMAIN appts')
<1>1. Wanted(v)' = Wanted(v) BY SameCommand
<1> QED BY <1>1 DEF OnceBy, TwiceBy, ThriceBy, On, Forced, MadeOne, MadeTwo, Past

LEMMA MadeGrows ==
  ASSUME BookShape, Grown, status' = status, NEW w \in Worker, ~On(w, "idle"),
         NEW pc, NEW next, NEW mine, NEW seen, NEW patch, NEW ext, NEW got,
         To(w, pc, next, mine, seen, patch, ext, got), Onward(work[w].pc, work[w].next, pc, next), work[w].ext => ext,
         On(w, "lookup") /\ Wanted(w) \in DOMAIN appts => ext
  PROVE  Once \subseteq Once' /\ Twice \subseteq Twice' /\ Thrice \subseteq Thrice'
<1>1. /\ work'[w].event = work[w].event /\ work'[w].how = work[w].how /\ work'[w].pc = pc /\ work'[w].next = next /\ work'[w].ext = ext
      /\ \A v \in Worker \ {w} : work'[v] = work[v]
  BY DEF To
<1>2. DOMAIN appts \subseteq DOMAIN appts' BY DEF Grown
<1>3. (OnceBy(w) => OnceBy(w)') /\ (TwiceBy(w) => TwiceBy(w)') /\ (ThriceBy(w) => ThriceBy(w)')
  BY <1>1 DEF OnceBy, TwiceBy, ThriceBy, Forced, Onward, MadeOne, MadeTwo, Past
<1>4. \A v \in Worker : /\ work'[v].event = work[v].event
                        /\ (OnceBy(v) => OnceBy(v)') /\ (TwiceBy(v) => TwiceBy(v)') /\ (ThriceBy(v) => ThriceBy(v)')
  <2> SUFFICES ASSUME NEW v \in Worker
               PROVE  /\ work'[v].event = work[v].event
                      /\ (OnceBy(v) => OnceBy(v)') /\ (TwiceBy(v) => TwiceBy(v)') /\ (ThriceBy(v) => ThriceBy(v)')
    OBVIOUS
  <2>1. CASE v = w BY <1>1, <1>3, <2>1
  <2>2. CASE v # w
    <3>1. work'[v] = work[v] BY <1>1, <2>2
    <3> QED BY <1>2, <3>1, MadeStays
  <2> QED BY <2>1, <2>2
<1> QED BY <1>2, <1>4 DEF Once, Twice, Thrice, Recovered

LEMMA CountMove ==
  ASSUME BookShape, CountInv, Grown, Len(customers') = Len(customers), status' = status, failures' = failures,
         NEW w \in Worker, ~On(w, "idle"),
         NEW pc, NEW next, NEW mine, NEW seen, NEW patch, NEW ext, NEW got,
         To(w, pc, next, mine, seen, patch, ext, got), Onward(work[w].pc, work[w].next, pc, next), work[w].ext => ext,
         On(w, "lookup") /\ Wanted(w) \in DOMAIN appts => ext,
         pc = "insert" => On(w, "insert") \/ Forced(w) \/ Len(customers) = 0
  PROVE  CountInv'
<1>1. /\ work'[w].event = work[w].event /\ work'[w].how = work[w].how /\ work'[w].pc = pc /\ work'[w].next = next /\ work'[w].ext = ext
      /\ \A v \in Worker \ {w} : work'[v] = work[v]
  BY DEF To
<1>5. Once \subseteq Once' /\ Twice \subseteq Twice' /\ Thrice \subseteq Thrice' BY MadeGrows
<1>6. Pending' \subseteq Pending \/ Len(customers) = 0
  <2> SUFFICES ASSUME Len(customers) # 0, NEW v \in Pending' PROVE v \in Pending OBVIOUS
  <2>1. v \in Worker /\ work'[v].pc = "insert" /\ work'[v].how # "newCustomer" BY DEF Pending, On, Forced
  <2>2. work[v].how # "newCustomer" /\ work[v].pc = "insert" BY <1>1, <2>1 DEF On, Forced
  <2> QED BY <2>1, <2>2 DEF Pending, On, Forced
<1>7. Len(customers) \in Nat /\ failures \in Nat BY RowsAre DEF BookShape, BookTypes
<1> QED BY <1>5, <1>6, <1>7, CountGrows

\* The common case.
LEMMA CountGoes ==
  ASSUME BookShape, CountInv, Grown, Len(customers') = Len(customers), UNCHANGED << status, failures >>,
         NEW w \in Worker, ~On(w, "idle"), ~On(w, "lookup"),
         NEW pc, NEW next, NEW mine, NEW seen, NEW patch, NEW got,
         To(w, pc, next, mine, seen, patch, work[w].ext, got), Onward(work[w].pc, work[w].next, pc, next), pc # "insert"
  PROVE  CountInv'
  BY CountMove

LEMMA CountUpdateCustomer == ASSUME BookShape, CountInv, NEW w \in Worker, UpdateCustomer(w) PROVE CountInv'
<1>1. work[w].pc = "update" /\ ~On(w, "idle") /\ ~On(w, "lookup") BY DEF UpdateCustomer, On
<1>2. UNCHANGED << status, failures >> /\ Len(customers') = Len(customers)
  <2>1. customers \in Seq(Names) BY DEF BookShape, BookTypes, RowTypes
  <2> QED BY <2>1 DEF UpdateCustomer, bookkeeping
<1>3. Grown BY UpdateCustomerMoves
<1>4. Went(w, work[w].next) BY UpdateCustomerMoves
<1>5. Onward(work[w].pc, work[w].next, work[w].next, work[w].next) /\ work[w].next # "insert"
  BY <1>1, AtStep DEF Onward, MadeOne, MadeTwo, Past, Looking, Writing, PlacedIn, Steps, LookupsOf, WritesOf, Cmds
<1> QED BY <1>1, <1>2, <1>3, <1>4, <1>5, CountGoes DEF Went

LEMMA CountMatched == ASSUME BookShape, CountInv, NEW w \in Worker, Matched(w) PROVE CountInv'
<1>1. work[w].pc = "matched" /\ ~On(w, "idle") /\ ~On(w, "lookup") BY DEF Matched, On
<1>2. UNCHANGED << status, failures >> /\ Len(customers') = Len(customers) BY DEF Matched, bookkeeping, crm
<1>3. Grown BY MatchedMoves
<1>4. Wrote(w, [customer |-> work[w].got], "ack") BY MatchedMoves
<1>5. Onward(work[w].pc, work[w].next, "linkRead", "ack")
  BY <1>1, AtStep DEF Onward, MadeOne, MadeTwo, Past, Looking, Writing, PlacedIn, Steps, LookupsOf, WritesOf, Cmds
<1> QED BY <1>1, <1>2, <1>3, <1>4, <1>5, CountGoes DEF Wrote

LEMMA CountLinkStart == ASSUME BookShape, CountInv, NEW w \in Worker, LinkStart(w) PROVE CountInv'
<1>1. work[w].pc = "linkStart" /\ ~On(w, "idle") /\ ~On(w, "lookup") BY DEF LinkStart, On
<1>2. UNCHANGED << status, failures >> /\ Len(customers') = Len(customers) BY DEF LinkStart, bookkeeping, crm
<1>3. Grown BY LinkStartMoves
<1>4. \/ Wrote(w, NoPatch, "ack")
      \/ Looked(w, "linked", link[Conv(w)])
      \/ Took(w, "findJob", link[Conv(w)])
  BY LinkStartMoves
<1>5. Onward(work[w].pc, work[w].next, "linkRead", "ack") /\ Onward(work[w].pc, work[w].next, "find", "linked") /\ Onward(work[w].pc, work[w].next, "findJob", work[w].next)
  BY <1>1, AtStep DEF Onward, MadeOne, MadeTwo, Past, Looking, Writing, PlacedIn, Steps, LookupsOf, WritesOf, Cmds
<1>6. CASE Wrote(w, NoPatch, "ack") BY <1>1, <1>2, <1>3, <1>5, <1>6, CountGoes DEF Wrote
<1>7. CASE Looked(w, "linked", link[Conv(w)]) BY <1>1, <1>2, <1>3, <1>5, <1>7, CountGoes DEF Looked
<1>8. CASE Took(w, "findJob", link[Conv(w)]) BY <1>1, <1>2, <1>3, <1>5, <1>8, CountGoes DEF Took
<1> QED BY <1>4, <1>6, <1>7, <1>8

LEMMA CountLinked == ASSUME BookShape, CountInv, NEW w \in Worker, Linked(w) PROVE CountInv'
<1>1. work[w].pc = "linked" /\ ~On(w, "idle") /\ ~On(w, "lookup") BY DEF Linked, On
<1>2. UNCHANGED << status, failures >> /\ Len(customers') = Len(customers) BY DEF Linked, bookkeeping, crm
<1>3. Grown BY LinkedMoves
<1>4. Wrote(w, [customer |-> work[w].got], "findJob") BY LinkedMoves
<1>5. Onward(work[w].pc, work[w].next, "linkRead", "findJob")
  BY <1>1, AtStep DEF Onward, MadeOne, MadeTwo, Past, Looking, Writing, PlacedIn, Steps, LookupsOf, WritesOf, Cmds
<1> QED BY <1>1, <1>2, <1>3, <1>4, <1>5, CountGoes DEF Wrote

LEMMA CountLeadStart == ASSUME BookShape, CountInv, NEW w \in Worker, LeadStart(w) PROVE CountInv'
<1>1. work[w].pc = "leadStart" /\ ~On(w, "idle") /\ ~On(w, "lookup") BY DEF LeadStart, On
<1>2. UNCHANGED << status, failures >> /\ Len(customers') = Len(customers) BY DEF LeadStart, bookkeeping, crm
<1>3. Grown BY LeadStartMoves
<1>4. \/ Took(w, "leadInsert", link[Conv(w)])
      \/ Took(w, "leadAttach", link[Conv(w)])
  BY LeadStartMoves
<1>5. Onward(work[w].pc, work[w].next, "leadInsert", work[w].next) /\ Onward(work[w].pc, work[w].next, "leadAttach", work[w].next)
  BY <1>1, AtStep DEF Onward, MadeOne, MadeTwo, Past, Looking, Writing, PlacedIn, Steps, LookupsOf, WritesOf, Cmds
<1>6. CASE Took(w, "leadInsert", link[Conv(w)]) BY <1>1, <1>2, <1>3, <1>5, <1>6, CountGoes DEF Took
<1>7. CASE Took(w, "leadAttach", link[Conv(w)]) BY <1>1, <1>2, <1>3, <1>5, <1>7, CountGoes DEF Took
<1> QED BY <1>4, <1>6, <1>7

LEMMA CountLeadInsert == ASSUME BookShape, CountInv, NEW w \in Worker, LeadInsert(w) PROVE CountInv'
<1>1. work[w].pc = "leadInsert" /\ ~On(w, "idle") /\ ~On(w, "lookup") BY DEF LeadInsert, On
<1>2. UNCHANGED << status, failures >> /\ Len(customers') = Len(customers) BY DEF LeadInsert, bookkeeping
<1>3. Grown BY LeadInsertMoves
<1>4. Wrote(w, [lead |-> Len(leads) + 1], "leadAttach") BY LeadInsertMoves
<1>5. Onward(work[w].pc, work[w].next, "linkRead", "leadAttach")
  BY <1>1, AtStep DEF Onward, MadeOne, MadeTwo, Past, Looking, Writing, PlacedIn, Steps, LookupsOf, WritesOf, Cmds
<1> QED BY <1>1, <1>2, <1>3, <1>4, <1>5, CountGoes DEF Wrote

LEMMA CountLeadAttach == ASSUME BookShape, CountInv, NEW w \in Worker, LeadAttach(w) PROVE CountInv'
<1>1. work[w].pc = "leadAttach" /\ ~On(w, "idle") /\ ~On(w, "lookup") BY DEF LeadAttach, On
<1>2. UNCHANGED << status, failures >> /\ Len(customers') = Len(customers) BY DEF LeadAttach, bookkeeping
<1>3. Grown BY LeadAttachMoves
<1>4. Went(w, "ack") BY LeadAttachMoves
<1>5. Onward(work[w].pc, work[w].next, "ack", work[w].next)
  BY <1>1, AtStep DEF Onward, MadeOne, MadeTwo, Past, Looking, Writing, PlacedIn, Steps, LookupsOf, WritesOf, Cmds
<1> QED BY <1>1, <1>2, <1>3, <1>4, <1>5, CountGoes DEF Went

LEMMA CountEnsure == ASSUME BookShape, CountInv, NEW w \in Worker, Ensure(w) PROVE CountInv'
<1>1. work[w].pc = "ensure" /\ ~On(w, "idle") /\ ~On(w, "lookup") BY DEF Ensure, On
<1>2. UNCHANGED << status, failures >> /\ Len(customers') = Len(customers) BY DEF Ensure, bookkeeping, crm
<1>3. Grown BY EnsureMoves
<1>4. \/ Took(w, "status", link[Conv(w)])
      \/ Took(w, "newLead", link[Conv(w)])
  BY EnsureMoves
<1>5. Onward(work[w].pc, work[w].next, "status", work[w].next) /\ Onward(work[w].pc, work[w].next, "newLead", work[w].next)
  BY <1>1, AtStep DEF Onward, MadeOne, MadeTwo, Past, Looking, Writing, PlacedIn, Steps, LookupsOf, WritesOf, Cmds
<1>6. CASE Took(w, "status", link[Conv(w)]) BY <1>1, <1>2, <1>3, <1>5, <1>6, CountGoes DEF Took
<1>7. CASE Took(w, "newLead", link[Conv(w)]) BY <1>1, <1>2, <1>3, <1>5, <1>7, CountGoes DEF Took
<1> QED BY <1>4, <1>6, <1>7

LEMMA CountNewLead == ASSUME BookShape, CountInv, NEW w \in Worker, NewLead(w) PROVE CountInv'
<1>1. work[w].pc = "newLead" /\ ~On(w, "idle") /\ ~On(w, "lookup") BY DEF NewLead, On
<1>2. UNCHANGED << status, failures >> /\ Len(customers') = Len(customers) BY DEF NewLead, bookkeeping
<1>3. Grown BY NewLeadMoves
<1>4. \/ Wrote(w, Turned(w), "status")
      \/ Wrote(w, NewRow(w), "status")
  BY NewLeadMoves
<1>5. Onward(work[w].pc, work[w].next, "linkRead", "status")
  BY <1>1, AtStep DEF Onward, MadeOne, MadeTwo, Past, Looking, Writing, PlacedIn, Steps, LookupsOf, WritesOf, Cmds
<1>6. CASE Wrote(w, Turned(w), "status") BY <1>1, <1>2, <1>3, <1>5, <1>6, CountGoes DEF Wrote
<1>7. CASE Wrote(w, NewRow(w), "status") BY <1>1, <1>2, <1>3, <1>5, <1>7, CountGoes DEF Wrote
<1> QED BY <1>4, <1>6, <1>7

LEMMA CountStatus == ASSUME BookShape, CountInv, NEW w \in Worker, Status(w) PROVE CountInv'
<1>1. work[w].pc = "status" /\ ~On(w, "idle") /\ ~On(w, "lookup") BY DEF Status, On
<1>2. UNCHANGED << status, failures >> /\ Len(customers') = Len(customers) BY DEF Status, bookkeeping
<1>3. Grown BY StatusMoves
<1>4. \/ Wrote(w, [job |-> work[w].got, customer |-> crmJobs[work[w].got].customer, review |-> FALSE], "resolve")
      \/ Went(w, "resolve")
  BY StatusMoves
<1>5. Onward(work[w].pc, work[w].next, "linkRead", "resolve") /\ Onward(work[w].pc, work[w].next, "resolve", work[w].next)
  BY <1>1, AtStep DEF Onward, MadeOne, MadeTwo, Past, Looking, Writing, PlacedIn, Steps, LookupsOf, WritesOf, Cmds
<1>6. CASE Wrote(w, [job |-> work[w].got, customer |-> crmJobs[work[w].got].customer, review |-> FALSE], "resolve") BY <1>1, <1>2, <1>3, <1>5, <1>6, CountGoes DEF Wrote
<1>7. CASE Went(w, "resolve") BY <1>1, <1>2, <1>3, <1>5, <1>7, CountGoes DEF Went
<1> QED BY <1>4, <1>6, <1>7

LEMMA CountResolve == ASSUME BookShape, CountInv, NEW w \in Worker, Resolve(w) PROVE CountInv'
<1>1. work[w].pc = "resolve" /\ ~On(w, "idle") /\ ~On(w, "lookup") BY DEF Resolve, On
<1>2. UNCHANGED << status, failures >> /\ Len(customers') = Len(customers) BY DEF Resolve, bookkeeping, crm
<1>3. Grown BY ResolveMoves
<1>4. \/ Went(w, "book")
      \/ Looked(w, "resolved", work[w].mine)
  BY ResolveMoves
<1>5. Onward(work[w].pc, work[w].next, "book", work[w].next) /\ Onward(work[w].pc, work[w].next, "find", "resolved")
  BY <1>1, AtStep DEF Onward, MadeOne, MadeTwo, Past, Looking, Writing, PlacedIn, Steps, LookupsOf, WritesOf, Cmds
<1>6. CASE Went(w, "book") BY <1>1, <1>2, <1>3, <1>5, <1>6, CountGoes DEF Went
<1>7. CASE Looked(w, "resolved", work[w].mine) BY <1>1, <1>2, <1>3, <1>5, <1>7, CountGoes DEF Looked
<1> QED BY <1>4, <1>6, <1>7

LEMMA CountResolved == ASSUME BookShape, CountInv, NEW w \in Worker, Resolved(w) PROVE CountInv'
<1>1. work[w].pc = "resolved" /\ ~On(w, "idle") /\ ~On(w, "lookup") BY DEF Resolved, On
<1>2. UNCHANGED << status, failures >> /\ Len(customers') = Len(customers) BY DEF Resolved, bookkeeping, crm
<1>3. Grown BY ResolvedMoves
<1>4. Wrote(w, [customer |-> work[w].got, review |-> FALSE], "attachLead") BY ResolvedMoves
<1>5. Onward(work[w].pc, work[w].next, "linkRead", "attachLead")
  BY <1>1, AtStep DEF Onward, MadeOne, MadeTwo, Past, Looking, Writing, PlacedIn, Steps, LookupsOf, WritesOf, Cmds
<1> QED BY <1>1, <1>2, <1>3, <1>4, <1>5, CountGoes DEF Wrote

LEMMA CountAttachLead == ASSUME BookShape, CountInv, NEW w \in Worker, AttachLead(w) PROVE CountInv'
<1>1. work[w].pc = "attachLead" /\ ~On(w, "idle") /\ ~On(w, "lookup") BY DEF AttachLead, On
<1>2. UNCHANGED << status, failures >> /\ Len(customers') = Len(customers) BY DEF AttachLead, bookkeeping
<1>3. Grown BY AttachLeadMoves
<1>4. Went(w, "book") BY AttachLeadMoves
<1>5. Onward(work[w].pc, work[w].next, "book", work[w].next)
  BY <1>1, AtStep DEF Onward, MadeOne, MadeTwo, Past, Looking, Writing, PlacedIn, Steps, LookupsOf, WritesOf, Cmds
<1> QED BY <1>1, <1>2, <1>3, <1>4, <1>5, CountGoes DEF Went

LEMMA CountReview2 == ASSUME BookShape, CountInv, NEW w \in Worker, Review2(w) PROVE CountInv'
<1>1. work[w].pc = "review2" /\ ~On(w, "idle") /\ ~On(w, "lookup") BY DEF Review2, On
<1>2. UNCHANGED << status, failures >> /\ Len(customers') = Len(customers) BY DEF Review2, bookkeeping, crm
<1>3. Grown BY Review2Moves
<1>4. Wrote(w, [appt |-> Wanted(w), customer |-> 0, job |-> 0, booking |-> Wanted(w), review |-> TRUE], "ack") BY Review2Moves
<1>5. Onward(work[w].pc, work[w].next, "linkRead", "ack")
  BY <1>1, AtStep DEF Onward, MadeOne, MadeTwo, Past, Looking, Writing, PlacedIn, Steps, LookupsOf, WritesOf, Cmds
<1> QED BY <1>1, <1>2, <1>3, <1>4, <1>5, CountGoes DEF Wrote

LEMMA CountRefresh == ASSUME BookShape, CountInv, NEW w \in Worker, Refresh(w) PROVE CountInv'
<1>1. work[w].pc = "refresh" /\ ~On(w, "idle") /\ ~On(w, "lookup") BY DEF Refresh, On
<1>2. UNCHANGED << status, failures >> /\ Len(customers') = Len(customers) BY DEF Refresh, bookkeeping, crm
<1>3. Grown BY RefreshMoves
<1>4. \/ Took(w, "attach", link[Conv(w)])
      \/ Looked(w, "healed", link[Conv(w)])
  BY RefreshMoves
<1>5. Onward(work[w].pc, work[w].next, "attach", work[w].next) /\ Onward(work[w].pc, work[w].next, "find", "healed")
  BY <1>1, AtStep DEF Onward, MadeOne, MadeTwo, Past, Looking, Writing, PlacedIn, Steps, LookupsOf, WritesOf, Cmds
<1>6. CASE Took(w, "attach", link[Conv(w)]) BY <1>1, <1>2, <1>3, <1>5, <1>6, CountGoes DEF Took
<1>7. CASE Looked(w, "healed", link[Conv(w)]) BY <1>1, <1>2, <1>3, <1>5, <1>7, CountGoes DEF Looked
<1> QED BY <1>4, <1>6, <1>7

LEMMA CountHealed == ASSUME BookShape, CountInv, NEW w \in Worker, Healed(w) PROVE CountInv'
<1>1. work[w].pc = "healed" /\ ~On(w, "idle") /\ ~On(w, "lookup") BY DEF Healed, On
<1>2. UNCHANGED << status, failures >> /\ Len(customers') = Len(customers) BY DEF Healed, bookkeeping, crm
<1>3. Grown BY HealedMoves
<1>4. Wrote(w, [customer |-> work[w].got], "reread") BY HealedMoves
<1>5. Onward(work[w].pc, work[w].next, "linkRead", "reread")
  BY <1>1, AtStep DEF Onward, MadeOne, MadeTwo, Past, Looking, Writing, PlacedIn, Steps, LookupsOf, WritesOf, Cmds
<1> QED BY <1>1, <1>2, <1>3, <1>4, <1>5, CountGoes DEF Wrote

LEMMA CountReread == ASSUME BookShape, CountInv, NEW w \in Worker, Reread(w) PROVE CountInv'
<1>1. work[w].pc = "reread" /\ ~On(w, "idle") /\ ~On(w, "lookup") BY DEF Reread, On
<1>2. UNCHANGED << status, failures >> /\ Len(customers') = Len(customers) BY DEF Reread, bookkeeping, crm
<1>3. Grown BY RereadMoves
<1>4. Took(w, "attach", link[Conv(w)]) BY RereadMoves
<1>5. Onward(work[w].pc, work[w].next, "attach", work[w].next)
  BY <1>1, AtStep DEF Onward, MadeOne, MadeTwo, Past, Looking, Writing, PlacedIn, Steps, LookupsOf, WritesOf, Cmds
<1> QED BY <1>1, <1>2, <1>3, <1>4, <1>5, CountGoes DEF Took

LEMMA CountMakeJob == ASSUME BookShape, CountInv, NEW w \in Worker, MakeJob(w) PROVE CountInv'
<1>1. work[w].pc = "job" /\ ~On(w, "idle") /\ ~On(w, "lookup") BY DEF MakeJob, On
<1>2. UNCHANGED << status, failures >> /\ Len(customers') = Len(customers) BY DEF MakeJob, bookkeeping
<1>3. Grown BY MakeJobMoves
<1>4. \/ Wrote(w, [review |-> FALSE], "attachJob")
      \/ Wrote(w, [job |-> Len(crmJobs) + 1, review |-> FALSE], "attachJob")
      \/ Went(w, "ack")
  BY MakeJobMoves
<1>5. Onward(work[w].pc, work[w].next, "linkRead", "attachJob") /\ Onward(work[w].pc, work[w].next, "ack", work[w].next)
  BY <1>1, AtStep DEF Onward, MadeOne, MadeTwo, Past, Looking, Writing, PlacedIn, Steps, LookupsOf, WritesOf, Cmds
<1>6. CASE Wrote(w, [review |-> FALSE], "attachJob") BY <1>1, <1>2, <1>3, <1>5, <1>6, CountGoes DEF Wrote
<1>7. CASE Wrote(w, [job |-> Len(crmJobs) + 1, review |-> FALSE], "attachJob") BY <1>1, <1>2, <1>3, <1>5, <1>7, CountGoes DEF Wrote
<1>8. CASE Went(w, "ack") BY <1>1, <1>2, <1>3, <1>5, <1>8, CountGoes DEF Went
<1> QED BY <1>4, <1>6, <1>7, <1>8

LEMMA CountAttachAll == ASSUME BookShape, CountInv, NEW w \in Worker, AttachAll(w) PROVE CountInv'
<1>1. work[w].pc = "attachAll" /\ ~On(w, "idle") /\ ~On(w, "lookup") BY DEF AttachAll, On
<1>2. UNCHANGED << status, failures >> /\ Len(customers') = Len(customers) BY DEF AttachAll, bookkeeping
<1>3. Grown BY AttachAllMoves
<1>4. Went(w, "ack") BY AttachAllMoves
<1>5. Onward(work[w].pc, work[w].next, "ack", work[w].next)
  BY <1>1, AtStep DEF Onward, MadeOne, MadeTwo, Past, Looking, Writing, PlacedIn, Steps, LookupsOf, WritesOf, Cmds
<1> QED BY <1>1, <1>2, <1>3, <1>4, <1>5, CountGoes DEF Went

LEMMA CountAttach == ASSUME BookShape, CountInv, NEW w \in Worker, Attach(w) PROVE CountInv'
<1>1. work[w].pc = "attach" /\ ~On(w, "idle") /\ ~On(w, "lookup") BY DEF Attach, On
<1>2. UNCHANGED << status, failures >> /\ Len(customers') = Len(customers) BY DEF Attach, bookkeeping
<1>3. Grown BY AttachMoves
<1>4. Went(w, "job") BY AttachMoves
<1>5. Onward(work[w].pc, work[w].next, "job", work[w].next)
  BY <1>1, AtStep DEF Onward, MadeOne, MadeTwo, Past, Looking, Writing, PlacedIn, Steps, LookupsOf, WritesOf, Cmds
<1> QED BY <1>1, <1>2, <1>3, <1>4, <1>5, CountGoes DEF Went

LEMMA CountAttachJob == ASSUME BookShape, CountInv, NEW w \in Worker, AttachJob(w) PROVE CountInv'
<1>1. work[w].pc = "attachJob" /\ ~On(w, "idle") /\ ~On(w, "lookup") BY DEF AttachJob, On
<1>2. UNCHANGED << status, failures >> /\ Len(customers') = Len(customers) BY DEF AttachJob, bookkeeping
<1>3. Grown BY AttachJobMoves
<1>4. Went(w, "ack") BY AttachJobMoves
<1>5. Onward(work[w].pc, work[w].next, "ack", work[w].next)
  BY <1>1, AtStep DEF Onward, MadeOne, MadeTwo, Past, Looking, Writing, PlacedIn, Steps, LookupsOf, WritesOf, Cmds
<1> QED BY <1>1, <1>2, <1>3, <1>4, <1>5, CountGoes DEF Went

LEMMA CountUpsert == ASSUME BookShape, CountInv, NEW w \in Worker, Upsert(w) PROVE CountInv'
<1>1. work[w].pc = "upsert" /\ ~On(w, "idle") /\ ~On(w, "lookup") BY DEF Upsert, On
<1>2. UNCHANGED << status, failures >> /\ Len(customers') = Len(customers) BY DEF Upsert, bookkeeping
<1>3. Grown BY UpsertMoves
<1>4. Went(w, "ack") BY UpsertMoves
<1>5. Onward(work[w].pc, work[w].next, "ack", work[w].next)
  BY <1>1, AtStep DEF Onward, MadeOne, MadeTwo, Past, Looking, Writing, PlacedIn, Steps, LookupsOf, WritesOf, Cmds
<1> QED BY <1>1, <1>2, <1>3, <1>4, <1>5, CountGoes DEF Went

LEMMA CountCancel == ASSUME BookShape, CountInv, NEW w \in Worker, Cancel(w) PROVE CountInv'
<1>1. work[w].pc = "cancel" /\ ~On(w, "idle") /\ ~On(w, "lookup") BY DEF Cancel, On
<1>2. UNCHANGED << status, failures >> /\ Len(customers') = Len(customers) BY DEF Cancel, bookkeeping
<1>3. Grown BY CancelMoves
<1>4. Went(w, "ack") BY CancelMoves
<1>5. Onward(work[w].pc, work[w].next, "ack", work[w].next)
  BY <1>1, AtStep DEF Onward, MadeOne, MadeTwo, Past, Looking, Writing, PlacedIn, Steps, LookupsOf, WritesOf, Cmds
<1> QED BY <1>1, <1>2, <1>3, <1>4, <1>5, CountGoes DEF Went

LEMMA CountFindNone == ASSUME BookShape, CountInv, NEW w \in Worker, FindNone(w) PROVE CountInv'
<1>1. work[w].pc = "find" /\ ~On(w, "idle") /\ ~On(w, "lookup") BY DEF FindNone, On
<1>2. UNCHANGED << status, failures >> /\ Len(customers') = Len(customers) BY DEF FindNone, bookkeeping, crm
<1>3. Grown /\ Went(w, "insert") BY FindNoneMoves
<1>4. Onward(work[w].pc, work[w].next, "insert", work[w].next)
  BY <1>1 DEF Onward, MadeOne, MadeTwo, Past, Looking, Writing
<1>5. Forced(w) \/ Len(customers) = 0 BY DEF FindNone
<1> QED BY <1>1, <1>2, <1>3, <1>4, <1>5, CountMove DEF Went

LEMMA CountFindOne == ASSUME BookShape, CountInv, NEW w \in Worker, FindOne(w) PROVE CountInv'
<1>1. work[w].pc = "find" /\ ~On(w, "idle") /\ ~On(w, "lookup") BY DEF FindOne, On
<1>2. UNCHANGED << status, failures >> /\ Len(customers') = Len(customers) BY DEF FindOne, bookkeeping, crm
<1>3. Grown BY FindOneMoves
<1>4. PICK k : Got(w, "update", k) BY FindOneMoves
<1>5. Onward(work[w].pc, work[w].next, "update", work[w].next)
  BY <1>1 DEF Onward, MadeOne, MadeTwo, Past, Looking, Writing
<1> QED BY <1>1, <1>2, <1>3, <1>4, <1>5, CountGoes DEF Got

LEMMA CountFindConflict == ASSUME BookShape, CountInv, NEW w \in Worker, FindConflict(w) PROVE CountInv'
<1>1. work[w].pc = "find" /\ ~On(w, "idle") /\ ~On(w, "lookup") BY DEF FindConflict, On
<1>2. UNCHANGED << status, failures >> /\ Len(customers') = Len(customers) BY DEF FindConflict, bookkeeping, crm
<1>3. Grown BY FindConflictMoves
<1>4. \/ work[w].next = "linked" /\ \E p : Wrote(w, p, "ack")
      \/ work[w].next = "resolved" /\ Went(w, "review")
      \/ work[w].next = "healed" /\ Went(w, "attach")
      \/ work[w].next = "upsert" /\ Went(w, "upsert")
  BY FindConflictMoves
<1>5. CASE work[w].next = "linked" /\ \E p : Wrote(w, p, "ack")
  <2>1. PICK p : Wrote(w, p, "ack") BY <1>5
  <2>2. Onward(work[w].pc, work[w].next, "linkRead", "ack") BY <1>1, <1>5 DEF Onward, MadeOne, MadeTwo, Past, Looking, Writing
  <2> QED BY <1>1, <1>2, <1>3, <2>1, <2>2, CountGoes DEF Wrote
<1>6. CASE work[w].next = "resolved" /\ Went(w, "review")
  <2>1. Onward(work[w].pc, work[w].next, "review", work[w].next) BY <1>1, <1>6 DEF Onward, MadeOne, MadeTwo, Past, Looking, Writing
  <2> QED BY <1>1, <1>2, <1>3, <1>6, <2>1, CountGoes DEF Went
<1>7. CASE work[w].next = "healed" /\ Went(w, "attach")
  <2>1. Onward(work[w].pc, work[w].next, "attach", work[w].next) BY <1>1, <1>7 DEF Onward, MadeOne, MadeTwo, Past, Looking, Writing
  <2> QED BY <1>1, <1>2, <1>3, <1>7, <2>1, CountGoes DEF Went
<1>8. CASE work[w].next = "upsert" /\ Went(w, "upsert")
  <2>1. Onward(work[w].pc, work[w].next, "upsert", work[w].next) BY <1>1, <1>8 DEF Onward, MadeOne, MadeTwo, Past, Looking, Writing
  <2> QED BY <1>1, <1>2, <1>3, <1>8, <2>1, CountGoes DEF Went
<1> QED BY <1>4, <1>5, <1>6, <1>7, <1>8

LEMMA CountLinkRead == ASSUME BookShape, CountInv, NEW w \in Worker, LinkRead(w) PROVE CountInv'
<1>1. work[w].pc = "linkRead" /\ ~On(w, "idle") /\ ~On(w, "lookup") BY DEF LinkRead, On
<1>2. UNCHANGED << status, failures >> /\ Len(customers') = Len(customers) BY DEF LinkRead, bookkeeping, crm
<1>3. Grown BY LinkReadMoves
<1>4. To(w, "linkWrite", work[w].next, work[w].mine, link[Conv(w)], work[w].patch, work[w].ext, work[w].got) BY LinkReadMoves
<1>5. Onward(work[w].pc, work[w].next, "linkWrite", work[w].next)
  BY <1>1 DEF Onward, MadeOne, MadeTwo, Past, Looking, Writing
<1> QED BY <1>1, <1>2, <1>3, <1>4, <1>5, CountGoes

LEMMA CountLinkWrite == ASSUME BookShape, CountInv, NEW w \in Worker, LinkWrite(w) PROVE CountInv'
<1>1. work[w].pc = "linkWrite" /\ ~On(w, "idle") /\ ~On(w, "lookup") BY DEF LinkWrite, On
<1>2. UNCHANGED << status, failures >> /\ Len(customers') = Len(customers) BY DEF LinkWrite, bookkeeping, crm
<1>3. Grown BY LinkWriteMoves
<1>4. To(w, work[w].next, "idle", Mine(w), NoLink, NoPatch, work[w].ext, work[w].got) BY LinkWriteMoves
<1>5. Onward(work[w].pc, work[w].next, work[w].next, "idle") /\ work[w].next # "insert"
  BY <1>1, AtStep DEF Onward, MadeOne, MadeTwo, Past, Looking, Writing, PlacedIn, Steps, LookupsOf, WritesOf, Cmds
<1> QED BY <1>1, <1>2, <1>3, <1>4, <1>5, CountGoes

LEMMA CountFindJob == ASSUME BookShape, CountInv, NEW w \in Worker, FindJob(w) PROVE CountInv'
<1>1. work[w].pc = "findJob" /\ ~On(w, "idle") /\ ~On(w, "lookup") BY DEF FindJob, On
<1>2. UNCHANGED << status, failures >> /\ Len(customers') = Len(customers) BY DEF FindJob, bookkeeping, crm
<1>3. Grown BY FindJobMoves
<1>4. Went(w, "attachAll") \/ \E p : Wrote(w, p, "attachAll") BY FindJobMoves
<1>5. Onward(work[w].pc, work[w].next, "attachAll", work[w].next) /\ Onward(work[w].pc, work[w].next, "linkRead", "attachAll")
  BY <1>1 DEF Onward, MadeOne, MadeTwo, Past, Looking, Writing
<1>6. CASE Went(w, "attachAll") BY <1>1, <1>2, <1>3, <1>5, <1>6, CountGoes DEF Went
<1>7. CASE \E p : Wrote(w, p, "attachAll")
  <2>1. PICK p : Wrote(w, p, "attachAll") BY <1>7
  <2> QED BY <1>1, <1>2, <1>3, <1>5, <2>1, CountGoes DEF Wrote
<1> QED BY <1>4, <1>6, <1>7

LEMMA CountLookup == ASSUME BookShape, CountInv, NEW w \in Worker, Lookup(w) PROVE CountInv'
<1>1. work[w].pc = "lookup" /\ ~On(w, "idle") BY DEF Lookup, On
<1>2. UNCHANGED << status, failures >> /\ Len(customers') = Len(customers) BY DEF Lookup, bookkeeping, crm
<1>3. Grown BY LookupMoves
<1>4. CASE Duplicate(w, Wanted(w) \in DOMAIN appts, link[Conv(w)])
  <2>1. PICK p : Wrote(w, p, "ack") BY <1>4, LookupMoves
  <2>2. Onward(work[w].pc, work[w].next, "linkRead", "ack") BY <1>1 DEF Onward, MadeOne, MadeTwo, Past, Looking, Writing
  <2>3. Wanted(w) \notin DOMAIN appts BY <1>4 DEF Duplicate
  <2> QED BY <1>1, <1>2, <1>3, <2>1, <2>2, <2>3, CountMove DEF Wrote
<1>5. CASE ~Duplicate(w, Wanted(w) \in DOMAIN appts, link[Conv(w)])
  <2>1. PICK x : x = (Wanted(w) \in DOMAIN appts) OBVIOUS
  <2>2. To(w, "ensure", work[w].next, work[w].mine, work[w].seen, work[w].patch, x, work[w].got) BY <1>5, <2>1, LookupMoves
  <2>3. Onward(work[w].pc, work[w].next, "ensure", work[w].next) BY <1>1 DEF Onward, MadeOne, MadeTwo, Past, Looking, Writing
  <2>4. work[w].ext => x BY <1>1, <2>1, AtStep DEF GotBy, GotFor
  <2>5. On(w, "lookup") /\ Wanted(w) \in DOMAIN appts => x BY <2>1
  <2> QED BY <1>1, <1>2, <1>3, <2>2, <2>3, <2>4, <2>5, CountMove
<1> QED BY <1>4, <1>5

LEMMA CountReview == ASSUME BookShape, CountInv, NEW w \in Worker, Review(w) PROVE CountInv'
<1>1. work[w].pc = "review" /\ ~On(w, "idle") /\ ~On(w, "lookup") BY DEF Review, On
<1>2. UNCHANGED << status, failures >> /\ Len(customers') = Len(customers) BY DEF Review, bookkeeping
<1>3. Grown BY ReviewMoves
<1>4. Went(w, "review2") \/ Wrote(w, [appt |-> Wanted(w)], "review2") BY ReviewMoves
<1>5. Onward(work[w].pc, work[w].next, "review2", work[w].next) /\ Onward(work[w].pc, work[w].next, "linkRead", "review2")
  BY <1>1 DEF Onward, MadeOne, MadeTwo, Past, Looking, Writing
<1>6. CASE Went(w, "review2") BY <1>1, <1>2, <1>3, <1>5, <1>6, CountGoes DEF Went
<1>7. CASE Wrote(w, [appt |-> Wanted(w)], "review2") BY <1>1, <1>2, <1>3, <1>5, <1>7, CountGoes DEF Wrote
<1> QED BY <1>4, <1>6, <1>7

LEMMA CountBook == ASSUME BookShape, CountInv, NEW w \in Worker, Book(w) PROVE CountInv'
<1>1. work[w].pc = "book" /\ ~On(w, "idle") /\ ~On(w, "lookup") BY DEF Book, On
<1>2. UNCHANGED << status, failures >> /\ Len(customers') = Len(customers) BY DEF Book, bookkeeping
<1>3. Grown BY BookMoves
<1>4. PICK p : Wrote(w, p, "ack") \/ Wrote(w, p, "refresh") BY BookMoves
<1>5. Onward(work[w].pc, work[w].next, "linkRead", "ack") /\ Onward(work[w].pc, work[w].next, "linkRead", "refresh")
  BY <1>1 DEF Onward, MadeOne, MadeTwo, Past, Looking, Writing
<1>6. CASE Wrote(w, p, "ack") BY <1>1, <1>2, <1>3, <1>5, <1>6, CountGoes DEF Wrote
<1>7. CASE Wrote(w, p, "refresh") BY <1>1, <1>2, <1>3, <1>5, <1>7, CountGoes DEF Wrote
<1> QED BY <1>4, <1>6, <1>7

\* The event of a worker counts by what the worker made.
LEMMA MadeIs ==
  ASSUME BookShape, NEW v \in Worker, NEW e \in Recovered, work[v].event = {e}
  PROVE  (e \in Once <=> OnceBy(v)) /\ (e \in Twice <=> TwiceBy(v)) /\ (e \in Thrice <=> ThriceBy(v))
<1>1. e \in Events BY DEF Recovered
<1>2. status[e] = "running" /\ \A u \in Worker : work[u].event = {e} => u = v BY <1>1, OwnerIs
<1> QED BY <1>2 DEF Once, Twice, Thrice

LEMMA ForcedIs ==
  ASSUME BookShape, NEW w \in Worker, ~On(w, "idle"), Forced(w)
  PROVE  Event(w) \in Recovered /\ work[w].event = {Event(w)} /\ Cmd(w) = "CreateOrUpdate"
<1>1. Busy(w) BY AtStep
<1>2. Event(w) \in Events /\ Event(w).kind = "recovered" /\ work[w].event = {Event(w)} BY <1>1 DEF Busy, Forced
<1>3. Cmd(w) = "CreateOrUpdate"
  <2>1. PICK s : s = work[w].step OBVIOUS
  <2>2. Len(Commands(Event(w))) = 1 /\ Commands(Event(w))[1] = "CreateOrUpdate" BY <1>2, CommandsAre
  <2>3. s = 1 BY <1>1, <2>1, <2>2 DEF Busy
  <2> QED BY <2>1, <2>2, <2>3 DEF Cmd
<1> QED BY <1>2, <1>3 DEF Recovered

LEMMA CountInsertCustomer == ASSUME BookShape, CountInv, NEW w \in Worker, InsertCustomer(w) PROVE CountInv'
<1>1. work[w].pc = "insert" /\ ~On(w, "idle") /\ ~On(w, "lookup") BY DEF InsertCustomer, On
<1>2. UNCHANGED << status, failures, appts >> BY DEF InsertCustomer, bookkeeping
<1>3. Len(customers) \in Nat /\ Len(customers') = Len(customers) + 1 /\ failures \in Nat
  <2>1. customers \in Seq(Names) /\ failures \in Nat BY DEF BookShape, BookTypes, RowTypes
  <2> QED BY <2>1 DEF InsertCustomer
<1>4. Grown /\ Got(w, work[w].next, Len(customers) + 1) BY InsertCustomerMoves
<1>5. work[w].next \in { "matched", "linked", "upsert", "resolved", "healed" }
  BY <1>1, AtStep DEF PlacedIn, Steps, LookupsOf, WritesOf, Looking, Writing, Cmds
<1>6. Once \subseteq Once' /\ Twice \subseteq Twice' /\ Thrice \subseteq Thrice'
  <2>1. Onward(work[w].pc, work[w].next, work[w].next, work[w].next)
    BY <1>1, <1>5 DEF Onward, MadeOne, MadeTwo, Past, Looking, Writing
  <2> QED BY <1>1, <1>2, <1>4, <2>1, MadeGrows DEF Got
<1>7. Pending' \subseteq Pending \ {w}
  <2> SUFFICES ASSUME NEW v \in Pending' PROVE v \in Pending \ {w} OBVIOUS
  <2>1. v \in Worker /\ work'[v].pc = "insert" /\ work'[v].how # "newCustomer" BY DEF Pending, On, Forced
  <2>2. v # w BY <1>4, <1>5, <2>1 DEF Got, To
  <2>3. work'[v] = work[v] BY <1>4, <2>1, <2>2 DEF Got, To
  <2> QED BY <2>1, <2>2, <2>3 DEF Pending, On, Forced
<1>8. PICK n, m, f, p, q, a, b, c, x, y, z :
        /\ n = Len(customers) /\ m = Cardinality(Worker) /\ f = failures /\ p = Cardinality(Pending) /\ q = Cardinality(Pending')
        /\ a = Cardinality(Once) /\ b = Cardinality(Twice) /\ c = Cardinality(Thrice)
        /\ x = Cardinality(Once') /\ y = Cardinality(Twice') /\ z = Cardinality(Thrice')
  OBVIOUS
<1>9. n \in Nat /\ m \in Nat /\ f \in Nat /\ p \in Nat /\ a \in Nat /\ b \in Nat /\ c \in Nat BY <1>3, <1>8, TalliesAre
<1>10. q \in Nat /\ x \in Nat /\ y \in Nat /\ z \in Nat BY <1>8, CountsWillBe
<1>11. n > 0 => n + p <= m + 2 * f + a + b + c BY <1>8 DEF CountInv
<1>12. a <= x /\ b <= y /\ c <= z BY <1>6, <1>8, CountsWillBe, FS_Subset
<1>13. q <= p BY <1>7, <1>8, TalliesAre, FS_Subset
<1>14. q + 1 <= m
  <2>1. Pending' \subseteq Worker /\ w \notin Pending' BY <1>7 DEF Pending
  <2> QED BY <1>8, <2>1, BookingsAssumption, OneMore
<1>15. CASE ~Forced(w)
  <2>1. w \in Pending BY <1>1, <1>15 DEF Pending, On
  <2>2. q + 1 <= p BY <1>7, <1>8, <2>1, TalliesAre, OneMore
  <2>3. n + 1 + q <= m + 2 * f + x + y + z BY ONLY <1>9, <1>10, <1>11, <1>12, <1>14, <2>2
  <2> QED BY <1>2, <1>3, <1>8, <2>3 DEF CountInv
<1>16. CASE Forced(w)
  <2>1. PICK e : e = Event(w) OBVIOUS
  <2>2. e \in Recovered /\ work[w].event = {e} /\ Cmd(w) = "CreateOrUpdate" BY <1>1, <1>16, <2>1, ForcedIs
  <2>3. work'[w].event = {e} /\ work'[w].ext = work[w].ext /\ work'[w].pc = work[w].next /\ work'[w].next = work[w].next
        /\ work'[w].how = "newCustomer"
    BY <1>4, <1>16, <2>2 DEF Got, To, Forced
  <2>4. work[w].next \in { "resolved", "healed" }
    BY <1>1, <2>2, AtStep DEF PlacedIn, Steps, LookupsOf, WritesOf, Looking, Writing
  <2>5. \/ e \notin Once /\ e \in Once'
        \/ e \notin Twice /\ e \in Twice'
        \/ e \notin Thrice /\ e \in Thrice'
    <3>1. /\ OnceBy(w)' => e \in Once' 
          /\ TwiceBy(w)' => e \in Twice'
          /\ ThriceBy(w)' => e \in Thrice'
      BY <2>2, <2>3 DEF Once, Twice, Thrice, Recovered
    <3>2. CASE work[w].next = "resolved"
      <4>1. OnceBy(w)' /\ (work[w].ext => TwiceBy(w)') BY <2>3, <3>2 DEF OnceBy, TwiceBy, MadeOne, Forced
      <4>2. ~TwiceBy(w) /\ (~work[w].ext => ~OnceBy(w))
        BY <1>1, <3>2 DEF OnceBy, TwiceBy, MadeOne, MadeTwo, Past, Looking, Writing
      <4> QED BY <2>2, <3>1, <4>1, <4>2, MadeIs
    <3>3. CASE work[w].next = "healed"
      <4>1. TwiceBy(w)' /\ (work[w].ext => ThriceBy(w)') BY <2>3, <3>3 DEF TwiceBy, ThriceBy, MadeTwo, Forced
      <4>2. ~ThriceBy(w) /\ (~work[w].ext => ~TwiceBy(w))
        BY <1>1, <3>3 DEF ThriceBy, TwiceBy, MadeTwo, Writing
      <4> QED BY <2>2, <3>1, <4>1, <4>2, MadeIs
    <3> QED BY <2>4, <3>2, <3>3
  <2>6. a + 1 <= x \/ b + 1 <= y \/ c + 1 <= z BY <1>6, <1>8, <2>5, CountsWillBe, OneMore
  <2>7. n + 1 + q <= m + 2 * f + x + y + z BY ONLY <1>9, <1>10, <1>11, <1>12, <1>13, <1>14, <2>6
  <2> QED BY <1>2, <1>3, <1>8, <2>7 DEF CountInv
<1> QED BY <1>15, <1>16

\* Commands are taken up and given up: what the other events have made stays.
LEMMA OthersStay ==
  ASSUME BookShape, UNCHANGED crm, NEW w \in Worker, \A v \in Worker \ {w} : work'[v] = work[v], Starting(work'[w].pc, work'[w].next),
         NEW e, work[w].event \subseteq {e}, \A k \in Events \ {e} : status'[k] = status[k]
  PROVE  /\ Once \subseteq Once' \cup {e} /\ Twice \subseteq Twice' \cup {e} /\ Thrice \subseteq Thrice' \cup {e}
         /\ Pending' \subseteq Pending
<1>1. appts' = appts BY DEF crm
<1>2. ASSUME NEW k \in Recovered \ {e}, NEW v \in Worker, work[v].event = {k}
      PROVE  /\ work'[v].event = {k}
             /\ (OnceBy(v) => OnceBy(v)') /\ (TwiceBy(v) => TwiceBy(v)') /\ (ThriceBy(v) => ThriceBy(v)')
  <2>1. v # w BY <1>2
  <2>2. work'[v] = work[v] BY <2>1
  <2> QED BY <1>1, <1>2, <2>2, MadeStays
<1>3. \A k \in Recovered \ {e} : status'[k] = status[k] BY DEF Recovered
<1>4. Once \subseteq Once' \cup {e}
  <2> SUFFICES ASSUME NEW k \in Once, k # e PROVE k \in Once' OBVIOUS
  <2> QED BY <1>1, <1>2, <1>3 DEF Once, Recovered
<1>5. Twice \subseteq Twice' \cup {e}
  <2> SUFFICES ASSUME NEW k \in Twice, k # e PROVE k \in Twice' OBVIOUS
  <2> QED BY <1>2, <1>3 DEF Twice, Recovered
<1>6. Thrice \subseteq Thrice' \cup {e}
  <2> SUFFICES ASSUME NEW k \in Thrice, k # e PROVE k \in Thrice' OBVIOUS
  <2> QED BY <1>2, <1>3 DEF Thrice, Recovered
<1>7. Pending' \subseteq Pending
  <2> SUFFICES ASSUME NEW v \in Pending' PROVE v \in Pending OBVIOUS
  <2>1. v \in Worker /\ work'[v].pc = "insert" /\ work'[v].how # "newCustomer" BY DEF Pending, On, Forced
  <2>2. v # w BY <2>1 DEF Starting
  <2>3. work'[v] = work[v] BY <2>1, <2>2
  <2> QED BY <2>1, <2>3 DEF Pending, On, Forced
<1> QED BY <1>4, <1>5, <1>6, <1>7

\* A failure takes at most two from what its event has made: with the booking in the
\* diary the first still counts, and without it there is no third.
LEMMA CountFailCommand == ASSUME BookShape, CountInv, NEW w \in Worker, FailCommand(w) PROVE CountInv'
<1>1. PICK e : e = Event(w) OBVIOUS
<1>2. /\ ~On(w, "idle") /\ UNCHANGED crm /\ failures' = failures + 1 /\ work' = [work EXCEPT ![w] = Resting]
      /\ status' = [status EXCEPT ![e] = "failed"]
  BY <1>1 DEF FailCommand
<1>3. work[w].event = {e} /\ e \in Events /\ e.booking = Wanted(w) BY <1>1, <1>2, AtStep DEF Busy, Wanted
<1>4. status'[e] = "failed" /\ \A k \in Events \ {e} : status'[k] = status[k] BY <1>2, <1>3 DEF BookShape, BookTypes
<1>5. /\ Once \subseteq Once' \cup {e} /\ Twice \subseteq Twice' \cup {e} /\ Thrice \subseteq Thrice' \cup {e}
      /\ Pending' \subseteq Pending
  BY <1>2, <1>3, <1>4, IdleIs, OthersStay
<1>6. appts' = appts /\ Len(customers') = Len(customers) BY <1>2 DEF crm
<1>7. Once \subseteq Once' \/ Thrice \subseteq Thrice'
  <2>1. CASE work[w].ext
    <3>1. e.booking \in DOMAIN appts BY <1>2, <1>3, <2>1, AtStep DEF GotBy, GotFor
    <3>2. e \in Recovered => e \in Once' BY <1>4, <1>6, <3>1 DEF Once
    <3> QED BY <1>5, <3>2 DEF Once
  <2>2. CASE ~work[w].ext
    <3>1. e \in Recovered => e \notin Thrice BY <1>3, <2>2, MadeIs DEF ThriceBy
    <3> QED BY <1>5, <3>1 DEF Thrice
  <2> QED BY <2>1, <2>2
<1>8. PICK n, m, f, p, q, a, b, c, x, y, z :
        /\ n = Len(customers) /\ m = Cardinality(Worker) /\ f = failures /\ p = Cardinality(Pending) /\ q = Cardinality(Pending')
        /\ a = Cardinality(Once) /\ b = Cardinality(Twice) /\ c = Cardinality(Thrice)
        /\ x = Cardinality(Once') /\ y = Cardinality(Twice') /\ z = Cardinality(Thrice')
  OBVIOUS
<1>9. n \in Nat /\ m \in Nat /\ f \in Nat /\ p \in Nat /\ a \in Nat /\ b \in Nat /\ c \in Nat
  BY <1>8, TalliesAre, RowsAre DEF BookShape, BookTypes
<1>10. q \in Nat /\ x \in Nat /\ y \in Nat /\ z \in Nat BY <1>8, CountsWillBe
<1>11. n > 0 => n + p <= m + 2 * f + a + b + c BY <1>8 DEF CountInv
<1>12. a <= x + 1 /\ b <= y + 1 /\ c <= z + 1 BY <1>5, <1>8, CountsWillBe, OneLess
<1>13. a <= x \/ c <= z BY <1>7, <1>8, CountsWillBe, FS_Subset
<1>14. q <= p BY <1>5, <1>8, TalliesAre, FS_Subset
<1>15. n > 0 => n + q <= m + 2 * (f + 1) + x + y + z BY ONLY <1>9, <1>10, <1>11, <1>12, <1>13, <1>14
<1> QED BY <1>2, <1>6, <1>8, <1>15 DEF CountInv

\* What the unique index refuses is in the diary, and had made one.
LEMMA CountRefused == ASSUME BookShape, CountInv, NEW w \in Worker, Refused(w) PROVE CountInv'
<1>1. PICK e : e = Event(w) OBVIOUS
<1>2. /\ work[w].pc \in { "book", "review" } /\ ~On(w, "idle") /\ UNCHANGED << crm, failures >> /\ work' = [work EXCEPT ![w] = Resting]
      /\ status' = [status EXCEPT ![e] = "failed"] /\ ~work[w].ext /\ Wanted(w) \in DOMAIN appts
  BY <1>1 DEF Refused, On
<1>3. work[w].event = {e} /\ e \in Events /\ e.booking = Wanted(w) BY <1>1, <1>2, AtStep DEF Busy, Wanted
<1>4. status'[e] = "failed" /\ \A k \in Events \ {e} : status'[k] = status[k] BY <1>2, <1>3 DEF BookShape, BookTypes
<1>5. /\ Once \subseteq Once' \cup {e} /\ Twice \subseteq Twice' \cup {e} /\ Thrice \subseteq Thrice' \cup {e}
      /\ Pending' \subseteq Pending
  BY <1>2, <1>3, <1>4, IdleIs, OthersStay
<1>6. appts' = appts /\ Len(customers') = Len(customers) BY <1>2 DEF crm
<1>7. e \in Recovered => e \in Once' /\ e \notin Twice /\ e \notin Thrice
  <2>1. e \in Recovered => e \in Once' BY <1>2, <1>3, <1>4, <1>6 DEF Once
  <2>2. ~MadeTwo(work[w].pc, work[w].next) BY <1>2 DEF MadeTwo, Writing
  <2> QED BY <1>2, <1>3, <2>1, <2>2, MadeIs DEF TwiceBy, ThriceBy
<1>8. Once \subseteq Once' /\ Twice \subseteq Twice' /\ Thrice \subseteq Thrice' BY <1>5, <1>7 DEF Once, Twice, Thrice
<1>9. Len(customers) \in Nat /\ failures \in Nat BY RowsAre DEF BookShape, BookTypes
<1> QED BY <1>2, <1>5, <1>6, <1>8, <1>9, CountGrows

LEMMA CountProceeds == ASSUME BookShape, CountInv, NEW w \in Worker, Acknowledge(w) \/ Defer(w) PROVE CountInv'
<1>1. PICK e : e = Event(w) OBVIOUS
<1>2. ~On(w, "idle") /\ Proceed(w) /\ UNCHANGED crm /\ failures' \in { failures, failures + 1 } BY DEF Acknowledge, Defer, On
<1>3. work[w].event = {e} /\ e \in Events /\ work[w].step \in 1 .. Len(Commands(e)) BY <1>1, <1>2, AtStep DEF Busy
<1>4. \A k \in Events \ {e} : status'[k] = status[k] BY <1>1, <1>2, <1>3, ProceedIs DEF BookShape, BookTypes
<1>5. /\ Once \subseteq Once' \cup {e} /\ Twice \subseteq Twice' \cup {e} /\ Thrice \subseteq Thrice' \cup {e}
      /\ Pending' \subseteq Pending
  BY <1>2, <1>3, <1>4, ProceedIs, OthersStay
<1>6. e \in Recovered => status'[e] = "done"
  <2> SUFFICES ASSUME e \in Recovered PROVE status'[e] = "done" OBVIOUS
  <2>1. Len(Commands(e)) = 1 BY CommandsAre DEF Recovered
  <2>2. ~(work[w].step < Len(Commands(e))) BY <1>3, <2>1
  <2>3. status' = [status EXCEPT ![e] = "done"] BY <1>1, <1>2, <2>2, ProceedIs
  <2> QED BY <1>3, <2>3 DEF BookShape, BookTypes
<1>7. Once \subseteq Once' /\ Twice \subseteq Twice' /\ Thrice \subseteq Thrice' BY <1>5, <1>6 DEF Once, Twice, Thrice
<1>8. Len(customers') = Len(customers) /\ Len(customers) \in Nat /\ failures \in Nat BY <1>2, RowsAre DEF crm, BookShape, BookTypes
<1> QED BY <1>2, <1>5, <1>7, <1>8, CountGrows

LEMMA CountTakenUp == ASSUME BookShape, CountInv, NEW w \in Worker, NEW e \in Events, BeginEvent(w, e) \/ Recover(w, e) PROVE CountInv'
<1>1. /\ On(w, "idle") /\ UNCHANGED << crm, failures >> /\ status[e] \in { "waiting", "failed" }
      /\ status' = [status EXCEPT ![e] = "running"]
  BY DEF BeginEvent, Recover
<1>2. work[w].event = {}
  <2>1. Vacant(w) \/ Busy(w) BY DEF BookShape, BusyInv
  <2>2. ~Busy(w) BY <1>1 DEF Busy, On, PlacedIn, Steps, Looking, Writing
  <2> QED BY <2>1, <2>2 DEF Vacant
<1>3. \A k \in Events \ {e} : status'[k] = status[k] BY <1>1 DEF BookShape, BookTypes
<1>4. /\ Starting(work'[w].pc, work'[w].next) /\ \A v \in Worker \ {w} : work'[v] = work[v]
      /\ work'[w].event = {e} /\ (e.kind = "recovered" => work'[w].pc = "lookup")
  BY TakenUp
<1>5. /\ Once \subseteq Once' \cup {e} /\ Twice \subseteq Twice' \cup {e} /\ Thrice \subseteq Thrice' \cup {e}
      /\ Pending' \subseteq Pending
  BY <1>1, <1>2, <1>3, <1>4, OthersStay
<1>6. \A v \in Worker : work[v].event # {e} BY <1>1, OwnerIs
<1>7. e \notin Twice /\ e \notin Thrice /\ (e \in Once => e.booking \in DOMAIN appts) BY <1>1, <1>6 DEF Once, Twice, Thrice
<1>8. e \in Once => e \in Once'
  <2> SUFFICES ASSUME e \in Recovered, e.booking \in DOMAIN appts PROVE e \in Once' BY <1>7 DEF Once
  <2>1. Event(w)' = e BY <1>4 DEF Event
  <2>2. work'[w].pc = "lookup" BY <1>4 DEF Recovered
  <2>3. appts' = appts BY <1>1 DEF crm
  <2>4. OnceBy(w)' BY <2>1, <2>2, <2>3 DEF OnceBy, On, Wanted
  <2> QED BY <1>4, <2>4 DEF Once, Recovered
<1>9. Once \subseteq Once' /\ Twice \subseteq Twice' /\ Thrice \subseteq Thrice' BY <1>5, <1>7, <1>8
<1>10. Len(customers') = Len(customers) /\ Len(customers) \in Nat /\ failures \in Nat BY <1>1, RowsAre DEF crm, BookShape, BookTypes
<1> QED BY <1>1, <1>5, <1>9, <1>10, CountGrows

LEMMA CountStays == ASSUME BookShape, CountInv, BookingNext PROVE CountInv'
<1>1. PICK w \in Worker : CommandStep(w) \/ FailCommand(w) \/ Defer(w) \/ \E e \in Events : BeginEvent(w, e) \/ Recover(w, e)
  BY DEF BookingNext
<1>2. CASE Customers(w)
  BY <1>2, CountFindNone, CountFindOne, CountFindConflict, CountInsertCustomer, CountUpdateCustomer, CountMatched DEF Customers
<1>3. CASE Linking(w)
  BY <1>3, CountLinkRead, CountLinkWrite, CountLinkStart, CountLinked, CountFindJob, CountAttachAll DEF Linking
<1>4. CASE Qualifying(w) BY <1>4, CountLeadStart, CountLeadInsert, CountLeadAttach DEF Qualifying
<1>5. CASE Ensuring(w)
  BY <1>5, CountLookup, CountEnsure, CountNewLead, CountStatus, CountResolve, CountResolved, CountAttachLead DEF Ensuring
<1>6. CASE Booked(w)
  BY <1>6, CountReview, CountReview2, CountBook, CountRefused, CountRefresh, CountHealed, CountReread, CountAttach, CountMakeJob,
     CountAttachJob DEF Booked
<1>7. CASE Calendar(w) BY <1>7, CountUpsert, CountCancel DEF Calendar
<1>8. CASE Acknowledge(w) BY <1>8, CountProceeds
<1>9. CASE FailCommand(w) BY <1>9, CountFailCommand
<1>10. CASE Defer(w) BY <1>10, CountProceeds
<1>11. CASE \E e \in Events : BeginEvent(w, e) \/ Recover(w, e) BY <1>11, CountTakenUp
<1> QED BY <1>1, <1>2, <1>3, <1>4, <1>5, <1>6, <1>7, <1>8, <1>9, <1>10, <1>11 DEF CommandStep

LEMMA CountStutters == ASSUME BookShape, CountInv, UNCHANGED bookingVars PROVE CountInv'
<1>1. UNCHANGED << customers, appts, status, work, failures >> BY DEF bookingVars
<1>2. \A w \in Worker : work'[w] = work[w] BY <1>1
<1>3. \A w \in Worker : (OnceBy(w) => OnceBy(w)') /\ (TwiceBy(w) => TwiceBy(w)') /\ (ThriceBy(w) => ThriceBy(w)') BY <1>1, MadeStays
<1>4. Once \subseteq Once' /\ Twice \subseteq Twice' /\ Thrice \subseteq Thrice' BY <1>1, <1>3 DEF Once, Twice, Thrice, Recovered
<1>5. Pending' \subseteq Pending BY <1>1 DEF Pending, On, Forced
<1>6. Len(customers) \in Nat /\ failures \in Nat BY RowsAre DEF BookShape, BookTypes
<1> QED BY <1>1, <1>4, <1>5, <1>6, CountGrows

\* Commands that run at once may each make a customer for one number; later ones find it.
\* Only recoveries and failures add to that, and by how much is bounded.
THEOREM CustomersCorrect == BookingSpec => []CustomersBounded
<1>1. BookingInit => CountInv
  <2> SUFFICES ASSUME BookingInit PROVE CountInv OBVIOUS
  <2>1. Len(customers) \in {0, 1} /\ failures = 0 BY DEF BookingInit
  <2>2. Pending = {}
    <3>1. \A w \in Worker : work[w] = Resting BY DEF BookingInit
    <3>2. Resting.pc = "idle" BY DEF Resting
    <3> QED BY <3>1, <3>2 DEF Pending, On
  <2>3. Cardinality(Pending) = 0 BY <2>2, FS_EmptySet
  <2>4. Cardinality(Worker) >= 1
    <3>1. Cardinality(Worker) # 0 BY BookingsAssumption, FS_EmptySet
    <3> QED BY <3>1, TalliesAre
  <2>5. PICK m, a, b, c : /\ m = Cardinality(Worker) /\ a = Cardinality(Once) /\ b = Cardinality(Twice) /\ c = Cardinality(Thrice)
    OBVIOUS
  <2>6. m \in Nat /\ a \in Nat /\ b \in Nat /\ c \in Nat /\ m >= 1 BY <2>4, <2>5, TalliesAre
  <2>7. Len(customers) + 0 <= m + 2 * 0 + a + b + c BY <2>1, <2>6
  <2> QED BY <2>1, <2>3, <2>5, <2>7 DEF CountInv
<1>2. BookShape /\ CountInv /\ [BookingNext]_bookingVars => CountInv' BY CountStays, CountStutters
<1>3. BookShape /\ CountInv => CustomersBounded
  <2> SUFFICES ASSUME BookShape, CountInv PROVE CustomersBounded OBVIOUS
  <2>1. PICK n, m, f, p, a, b, c, r :
          /\ n = Len(customers) /\ m = Cardinality(Worker) /\ f = failures /\ p = Cardinality(Pending)
          /\ a = Cardinality(Once) /\ b = Cardinality(Twice) /\ c = Cardinality(Thrice) /\ r = Cardinality(Recovered)
    OBVIOUS
  <2>2. n \in Nat /\ f \in Nat BY <2>1, RowsAre DEF BookShape, BookTypes
  <2>3. /\ m \in Nat /\ p \in Nat /\ a \in Nat /\ b \in Nat /\ c \in Nat /\ r \in Nat
        /\ a <= r /\ b <= r /\ c <= r
    BY <2>1, TalliesAre
  <2>4. n > 0 => n + p <= m + 2 * f + a + b + c BY <2>1 DEF CountInv
  <2>5. n <= m + 3 * r + 2 * f BY ONLY <2>2, <2>3, <2>4
  <2> QED BY <2>1, <2>5 DEF CustomersBounded, Recovered
<1> QED BY <1>1, <1>2, <1>3, ShapeAlways, PTL DEF BookingSpec

-----------------------------------------------------------------------------
(* Names: what a worker reads of a customer before it writes.              *)

\* A customer is written by who has chosen it just before.
LEMMA UpdatesAre ==
  ASSUME BookShape, NEW w \in Worker, Does(w), On(w, "update")'
  PROVE  FindOne(w)
<1>1. work'[w].pc = "update" BY DEF On
<1>2. CASE Customers(w)
  <2>1. CASE FindNone(w) \/ Matched(w) BY <1>1, <2>1, FindNoneMoves, MatchedMoves DEF Went, Wrote, To
  <2>2. CASE FindConflict(w) BY <1>1, <2>2, FindConflictMoves DEF Went, Wrote, To
  <2>3. CASE InsertCustomer(w) \/ UpdateCustomer(w)
    <3>1. work'[w].pc = work[w].next /\ work[w].pc \in Looking /\ ~On(w, "idle")
      BY <2>3, InsertCustomerMoves, UpdateCustomerMoves DEF Went, Got, To, InsertCustomer, UpdateCustomer, On, Looking
    <3> QED BY <1>1, <3>1, AtStep DEF PlacedIn, LookupsOf, Steps, Cmds, Looking, Writing
  <2> QED BY <1>2, <2>1, <2>2, <2>3 DEF Customers
<1>3. CASE Linking(w)
  <2>1. CASE LinkRead(w) \/ LinkStart(w) \/ Linked(w)
    BY <1>1, <2>1, LinkReadMoves, LinkStartMoves, LinkedMoves DEF Went, Wrote, Took, Looked, To
  <2>2. CASE FindJob(w) \/ AttachAll(w) BY <1>1, <2>2, FindJobMoves, AttachAllMoves DEF Went, Wrote, To
  <2>3. CASE LinkWrite(w)
    <3>1. work'[w].pc = work[w].next /\ work[w].pc = "linkWrite" /\ ~On(w, "idle") BY <2>3, LinkWriteMoves DEF To, LinkWrite, On
    <3> QED BY <1>1, <3>1, AtStep DEF PlacedIn, WritesOf, Steps, Cmds, Looking, Writing
  <2> QED BY <1>3, <2>1, <2>2, <2>3 DEF Linking
<1>4. CASE Qualifying(w) BY <1>1, <1>4, LeadStartMoves, LeadInsertMoves, LeadAttachMoves DEF Qualifying, Went, Wrote, Took, To
<1>5. CASE Ensuring(w)
  <2>1. CASE Lookup(w) \/ Ensure(w) \/ NewLead(w) BY <1>1, <2>1, LookupMoves, EnsureMoves, NewLeadMoves DEF Went, Wrote, Took, To
  <2>2. CASE Status(w) \/ Resolve(w) BY <1>1, <2>2, StatusMoves, ResolveMoves DEF Went, Wrote, Looked, To
  <2>3. CASE Resolved(w) \/ AttachLead(w) BY <1>1, <2>3, ResolvedMoves, AttachLeadMoves DEF Went, Wrote, To
  <2> QED BY <1>5, <2>1, <2>2, <2>3 DEF Ensuring
<1>6. CASE Booked(w)
  <2>1. CASE Review(w) \/ Review2(w) BY <1>1, <2>1, ReviewMoves, Review2Moves DEF Went, Wrote, To
  <2>2. CASE Book(w) BY <1>1, <2>2, BookMoves DEF Wrote, To
  <2>3. CASE Refresh(w) \/ Healed(w) \/ Reread(w) BY <1>1, <2>3, RefreshMoves, HealedMoves, RereadMoves DEF Took, Looked, Wrote, To
  <2>4. CASE Attach(w) \/ MakeJob(w) \/ AttachJob(w) BY <1>1, <2>4, AttachMoves, MakeJobMoves, AttachJobMoves DEF Went, Wrote, To
  <2>5. CASE Refused(w)
    <3>1. work' = [work EXCEPT ![w] = Resting] BY <2>5 DEF Refused
    <3> QED BY <1>1, <3>1, IdleIs
  <2> QED BY <1>6, <2>1, <2>2, <2>3, <2>4, <2>5 DEF Booked
<1>7. CASE Calendar(w) BY <1>1, <1>7, UpsertMoves, CancelMoves DEF Calendar, Went, To
<1>8. CASE Acknowledge(w) \/ Defer(w)
  <2>1. ~On(w, "idle") /\ Proceed(w) BY <1>8 DEF Acknowledge, Defer, On
  <2> QED BY <1>1, <2>1, ProceedIs DEF Starting
<1>9. CASE FailCommand(w)
  <2>1. work' = [work EXCEPT ![w] = Resting] BY <1>9 DEF FailCommand
  <2> QED BY <1>1, <2>1, IdleIs
<1>10. CASE \E e \in Events : BeginEvent(w, e) \/ Recover(w, e) BY <1>1, <1>10, TakenUp DEF Starting
<1> QED BY <1>2, <1>3, <1>4, <1>5, <1>6, <1>7, <1>8, <1>9, <1>10 DEF Does, CommandStep

LEMMA NamesChange ==
  ASSUME BookShape, NEW w \in Worker, Does(w), NEW k \in DOMAIN customers, customers'[k] # customers[k]
  PROVE  UpdateCustomer(w) /\ k = work[w].got /\ Name(w) # Nothing
<1>1. CASE Customers(w)
  <2>1. CASE FindNone(w) \/ FindOne(w) \/ FindConflict(w) \/ Matched(w) BY <2>1 DEF FindNone, FindOne, FindConflict, Matched, crm
  <2>2. CASE InsertCustomer(w)
    <3>1. customers' = Append(customers, Name(w)) BY <2>2 DEF InsertCustomer
    <3>2. PICK n : n = Name(w) OBVIOUS
    <3>3. customers \in Seq(Names) BY DEF BookShape, BookTypes, RowTypes
    <3> QED BY <3>1, <3>2, <3>3
  <2>3. CASE UpdateCustomer(w)
    <3>1. customers \in Seq(Names) BY DEF BookShape, BookTypes, RowTypes
    <3> QED BY <2>3, <3>1 DEF UpdateCustomer
  <2> QED BY <1>1, <2>1, <2>2, <2>3 DEF Customers
<1>2. CASE Linking(w) BY <1>2 DEF Linking, LinkRead, LinkWrite, LinkStart, Linked, FindJob, AttachAll, crm
<1>3. CASE Qualifying(w) BY <1>3 DEF Qualifying, LeadStart, LeadInsert, LeadAttach, crm
<1>4. CASE Ensuring(w) BY <1>4 DEF Ensuring, Lookup, Ensure, NewLead, Status, Resolve, Resolved, AttachLead, crm
<1>5. CASE Booked(w)
  BY <1>5 DEF Booked, Review, Review2, Book, Refused, Refresh, Healed, Reread, Attach, MakeJob, AttachJob, crm
<1>6. CASE Calendar(w) BY <1>6 DEF Calendar, Upsert, Cancel, crm
<1>7. CASE Acknowledge(w) \/ Defer(w) \/ FailCommand(w) BY <1>7 DEF Acknowledge, Defer, FailCommand, crm
<1>8. CASE \E e \in Events : BeginEvent(w, e) \/ Recover(w, e) BY <1>8 DEF BeginEvent, Recover, crm
<1> QED BY <1>1, <1>2, <1>3, <1>4, <1>5, <1>6, <1>7, <1>8 DEF Does, CommandStep

LEMMA NameStays ==
  ASSUME BookShape, NEW o, Worker = {o}, NameInv, BookingNext
  PROVE  /\ NameInv'
         /\ \A k \in DOMAIN customers :
              customers'[k] # customers[k] /\ customers[k] # Nothing => On(o, "update") /\ (~ForBooking(o) \/ Chosen(o))
<1>1. Does(o) BY DEF BookingNext, Does
<1>2. NameInv'
  <2> SUFFICES ASSUME On(o, "update")' PROVE Chosen(o)' \/ ~Conflict(o, work[o].got)' BY DEF NameInv
  <2>1. FindOne(o) BY <1>1, UpdatesAre
  <2>2. PICK k \in DOMAIN customers : Got(o, "update", k) /\ (IF Chosen(o) THEN k = work[o].got ELSE ~Conflict(o, k))
    BY <2>1, FindOneMoves
  <2>3. customers' = customers BY <2>1 DEF FindOne, crm
  <2>4. Event(o)' = Event(o) /\ Chosen(o)' = Chosen(o) /\ work'[o].got = k BY <2>2 DEF Got, To, Event, Chosen
  <2>5. Conflict(o, work[o].got)' = Conflict(o, k) BY <2>3, <2>4 DEF Conflict, ForBooking, Name, Conv
  <2> QED BY <2>2, <2>4, <2>5
<1>3. ASSUME NEW k \in DOMAIN customers, customers'[k] # customers[k], customers[k] # Nothing
      PROVE  On(o, "update") /\ (~ForBooking(o) \/ Chosen(o))
  <2>1. UpdateCustomer(o) /\ k = work[o].got /\ Name(o) # Nothing BY <1>1, <1>3, NamesChange
  <2>2. On(o, "update") BY <2>1 DEF UpdateCustomer
  <2>3. customers'[k] = Name(o) BY <1>3, <2>1 DEF UpdateCustomer
  <2> QED BY <1>3, <2>1, <2>2, <2>3 DEF NameInv, Conflict
<1> QED BY <1>2, <1>3

\* With one worker no booking gives a customer another's name, unless the office told it to:
\* nothing is written between the look at the name and the write.
THEOREM NameCorrect == ASSUME NEW o, Worker = {o} PROVE BookingSpec => NameStands
<1>1. BookingInit => NameInv
  <2> SUFFICES ASSUME BookingInit PROVE NameInv OBVIOUS
  <2>1. \A w \in Worker : work[w] = Resting BY DEF BookingInit
  <2>2. Resting.pc = "idle" BY DEF Resting
  <2> QED BY <2>1, <2>2 DEF NameInv, On
<1>2. BookShape /\ NameInv /\ [BookingNext]_bookingVars => NameInv'
  <2>1. BookShape /\ NameInv /\ BookingNext => NameInv' BY NameStays
  <2>2. NameInv /\ UNCHANGED bookingVars => NameInv'
    BY DEF NameInv, bookingVars, On, Chosen, Conflict, ForBooking, Name, Conv, Event
  <2> QED BY <2>1, <2>2
<1>3. BookShape /\ NameInv /\ [BookingNext]_bookingVars =>
        [\A k \in DOMAIN customers :
           customers'[k] # customers[k] /\ customers[k] # Nothing =>
             \E w \in Worker : On(w, "update") /\ (~ForBooking(w) \/ Chosen(w))]_bookingVars
  BY NameStays
<1> QED BY <1>1, <1>2, <1>3, ShapeAlways, PTL DEF BookingSpec, NameStands

-----------------------------------------------------------------------------
(* One worker: the link row is as it was read.                             *)

LEMMA RowAtIs ==
  ASSUME BookShape, NEW w \in Worker, ~On(w, "idle"), NEW pc, NEW p
  PROVE  /\ RowAt(pc, p, link[Conv(w)]).customer = IF pc \in Writing /\ "customer" \in DOMAIN p THEN p.customer ELSE link[Conv(w)].customer
         /\ RowAt(pc, p, link[Conv(w)]).job = IF pc \in Writing /\ "job" \in DOMAIN p THEN p.job ELSE link[Conv(w)].job
         /\ RowAt(pc, p, link[Conv(w)]).appt = IF pc \in Writing /\ "appt" \in DOMAIN p THEN p.appt ELSE link[Conv(w)].appt
<1>1. PICK r \in Row : r = link[Conv(w)] BY AtStep
<1>2. DOMAIN r = { "row", "lead", "customer", "job", "appt", "booking", "review" } BY DEF Row
<1>3. \A f \in DOMAIN r : Laid(p, r)[f] = IF f = "row" THEN TRUE ELSE IF f \in DOMAIN p THEN p[f] ELSE r[f] BY DEF Laid
<1>4. /\ Laid(p, r).customer = IF "customer" \in DOMAIN p THEN p.customer ELSE r.customer
      /\ Laid(p, r).job = IF "job" \in DOMAIN p THEN p.job ELSE r.job
      /\ Laid(p, r).appt = IF "appt" \in DOMAIN p THEN p.appt ELSE r.appt
  BY <1>2, <1>3
<1> QED BY <1>1, <1>4 DEF RowAt

LEMMA JobbedIs ==
  ASSUME Alone, NEW w \in Worker
  PROVE  \A c \in Conversation : c \in Jobbed <=> Now(w, c).job # 0
  BY DEF Alone, Jobbed

\* A step changes what is on one conversation's row, or is about to be.
LEMMA JobsCount ==
  ASSUME NEW S, IsFiniteSet(S), NEW J, NEW K, J \subseteq S, K \subseteq S, NEW c \in S
  PROVE  /\ Cardinality(J) \in Nat /\ Cardinality(K) \in Nat
         /\ J \ {c} \subseteq K /\ (c \in J => c \in K) => Cardinality(J) <= Cardinality(K)
         /\ J \ {c} \subseteq K /\ c \notin J /\ c \in K => Cardinality(J) + 1 <= Cardinality(K)
         /\ J \ {c} \subseteq K => Cardinality(J) <= Cardinality(K) + 1
<1>1. IsFiniteSet(J) /\ IsFiniteSet(K) BY FS_Subset
<1>2. Cardinality(J) \in Nat /\ Cardinality(K) \in Nat BY <1>1, FS_CardinalityType
<1>3. \A A, B : IsFiniteSet(B) /\ A \subseteq B => Cardinality(A) <= Cardinality(B) BY FS_Subset
<1>4. ASSUME J \ {c} \subseteq K, c \in J => c \in K PROVE Cardinality(J) <= Cardinality(K)
  <2>1. J \subseteq K BY <1>4
  <2> QED BY <1>1, <1>3, <2>1
<1>5. ASSUME J \ {c} \subseteq K, c \notin J, c \in K PROVE Cardinality(J) + 1 <= Cardinality(K)
  <2>1. IsFiniteSet(J \cup {c}) /\ Cardinality(J \cup {c}) = Cardinality(J) + 1 BY <1>1, <1>5, FS_AddElement
  <2>2. J \cup {c} \subseteq K BY <1>5
  <2>3. Cardinality(J \cup {c}) <= Cardinality(K) BY <1>1, <1>3, <2>2
  <2> QED BY <2>1, <2>3
<1>6. ASSUME J \ {c} \subseteq K PROVE Cardinality(J) <= Cardinality(K) + 1
  <2>1. CASE c \in K
    <3>1. J \subseteq K BY <1>6, <2>1
    <3>2. Cardinality(J) <= Cardinality(K) BY <1>1, <1>3, <3>1
    <3> QED BY <1>2, <3>2
  <2>2. CASE c \notin K
    <3>1. IsFiniteSet(K \cup {c}) /\ Cardinality(K \cup {c}) = Cardinality(K) + 1 BY <1>1, <2>2, FS_AddElement
    <3>2. J \subseteq K \cup {c} BY <1>6
    <3>3. Cardinality(J) <= Cardinality(K \cup {c}) BY <1>3, <3>1, <3>2
    <3> QED BY <3>1, <3>3
  <2> QED BY <2>1, <2>2
<1> QED BY <1>2, <1>4, <1>5, <1>6

LEMMA PaidIs ==
  ASSUME BookShape, RowTypes', switches' \in Nat, failures' \in Nat, Alone, NEW w \in Worker, Conv(w) \in Conversation,
         \A c \in Conversation \ {Conv(w)} : Now(w, c)'.job = Now(w, c).job,
         NEW old, old = Now(w, Conv(w)).job, NEW new, NEW k, k = Conv(w), new = Now(w, k)'.job, Paid(old, new),
         Len(crmJobs) <= Cardinality(Jobbed) + switches + failures
  PROVE  Len(crmJobs') <= Cardinality(Jobbed)' + switches' + failures'
<1>1. /\ \A c \in Conversation : c \in Jobbed <=> Now(w, c).job # 0
      /\ \A c \in Conversation : c \in Jobbed' <=> Now(w, c)'.job # 0
  <2>1. \A c \in Conversation : c \in Jobbed <=> Now(w, c).job # 0 BY JobbedIs
  <2>2. \A c \in Conversation : c \in Jobbed' <=> Now(w, c)'.job # 0 BY DEF Alone, Jobbed
  <2> QED BY <2>1, <2>2
<1>2. k \in Conversation /\ Jobbed \subseteq Conversation /\ Jobbed' \subseteq Conversation /\ IsFiniteSet(Conversation)
  BY BookingsAssumption DEF Jobbed
<1>3. Jobbed \ {k} \subseteq Jobbed' BY <1>1, <1>2
<1>4. (k \in Jobbed <=> old # 0) /\ (k \in Jobbed' <=> new # 0) BY <1>1, <1>2
<1>5. PICK J, K : J = Jobbed /\ K = Jobbed' OBVIOUS
<1>6. PICK m, n : m = Cardinality(J) /\ n = Cardinality(K) OBVIOUS
<1>7. /\ m \in Nat /\ n \in Nat
      /\ (old # 0 => new # 0) => m <= n
      /\ old = 0 /\ new # 0 => m + 1 <= n
      /\ m <= n + 1
  BY <1>2, <1>3, <1>4, <1>5, <1>6, JobsCount
<1>8. PICK j, s, f, jj, ss, ff : /\ j = Len(crmJobs) /\ s = switches /\ f = failures
                                 /\ jj = Len(crmJobs') /\ ss = switches' /\ ff = failures'
  OBVIOUS
<1>9. j \in Nat /\ s \in Nat /\ f \in Nat /\ jj \in Nat /\ ss \in Nat /\ ff \in Nat
  <2>1. j \in Nat BY <1>8, RowsAre DEF BookShape, BookTypes
  <2>2. jj \in Nat BY <1>8 DEF RowTypes
  <2> QED BY <1>8, <2>1, <2>2 DEF BookShape, BookTypes
<1>10. j <= m + s + f BY <1>5, <1>6, <1>8
<1>11. \/ jj = j /\ ss = s /\ ff = f /\ (old # 0 => new # 0)
       \/ jj = j + 1 /\ ss = s /\ ff = f /\ old = 0 /\ new # 0
       \/ jj = j /\ ss + ff = s + f + 1
  BY <1>8 DEF Paid
<1>12. jj <= n + ss + ff BY ONLY <1>7, <1>9, <1>10, <1>11
<1> QED BY <1>5, <1>6, <1>8, <1>12

\* A worker that goes on within its command.
LEMMA OneMove ==
  ASSUME Alone, BookShape, BookShape', OneInv, NEW w \in Worker, ~On(w, "idle"),
         NEW pc, NEW next, NEW mine, NEW seen, NEW patch, NEW ext, NEW got,
         To(w, pc, next, mine, seen, patch, ext, got),
         NEW cmd, cmd = Cmd(w), NEW b, b = Wanted(w), NEW k, k = Conv(w),
         NEW row, link'[k] = row, \A c \in Conversation \ {k} : link'[c] = link[c],
         OneFor(cmd, pc, next, mine, seen, patch, row, b)',
         status' = status, \A a : JobHeld(a) => JobHeld(a)',
         \A j \in DOMAIN crmJobs' : crmJobs'[j].customer # 0,
         Paid(RowAt(work[w].pc, work[w].patch, link[k]).job, RowAt(pc, patch, row).job)
  PROVE  OneInv'
<1>1. /\ Cmd(w)' = cmd /\ Wanted(w)' = b /\ Conv(w)' = k
      /\ work'[w].pc = pc /\ work'[w].next = next /\ work'[w].mine = mine /\ work'[w].seen = seen /\ work'[w].patch = patch
  BY SameCommand DEF To
<1>2. k \in Conversation BY AtStep
<1>3. \A v \in Worker : ~On(v, "idle")' => OneBy(v)'
  <2>1. OneBy(w)' BY <1>1 DEF OneBy
  <2> QED BY <2>1 DEF Alone
<1>4. \A c \in Conversation : Owned(link'[c])
  <2>1. Owned(row) BY DEF OneFor, JobFor, Owned
  <2> QED BY <2>1 DEF OneInv
<1>5. \A e \in Events : e.kind = "confirmed" /\ status'[e] = "done" => JobHeld(e.booking)' BY DEF OneInv
<1>6. Len(crmJobs') <= Cardinality(Jobbed)' + switches' + failures'
  <2>1. RowTypes' /\ switches' \in Nat /\ failures' \in Nat BY DEF BookShape, BookTypes
  <2>2. \A c \in Conversation \ {k} : Now(w, c)'.job = Now(w, c).job BY <1>1 DEF Now
  <2>3. RowAt(work[w].pc, work[w].patch, link[k]).job = Now(w, k).job BY DEF RowAt, Now
  <2>4. RowAt(pc, patch, row).job = Now(w, k)'.job BY <1>1 DEF RowAt, Now
  <2>5. PICK old, new : old = Now(w, k).job /\ new = Now(w, k)'.job OBVIOUS
  <2>6. Paid(old, new) BY <2>3, <2>4, <2>5
  <2>7. Len(crmJobs) <= Cardinality(Jobbed) + switches + failures BY DEF OneInv
  <2> QED BY <1>2, <2>1, <2>2, <2>5, <2>6, <2>7, PaidIs
<1> QED BY <1>3, <1>4, <1>5, <1>6 DEF OneInv

\* That is all, for most of them: neither the row nor the jobs change.
LEMMA OneGoes ==
  ASSUME Alone, BookShape, BookShape', OneInv, NEW w \in Worker, ~On(w, "idle"),
         NEW pc, NEW next, NEW mine, NEW seen, NEW patch, NEW ext, NEW got,
         To(w, pc, next, mine, seen, patch, ext, got),
         OneFor(Cmd(w), pc, next, mine, seen, patch, link[Conv(w)], Wanted(w)),
         UNCHANGED << link, crmJobs, status, switches, failures >>, \A a : JobHeld(a) => JobHeld(a)',
         RowAt(work[w].pc, work[w].patch, link[Conv(w)]).job # 0 => RowAt(pc, patch, link[Conv(w)]).job # 0
  PROVE  OneInv'
<1>1. PICK cmd, b, k, row : cmd = Cmd(w) /\ b = Wanted(w) /\ k = Conv(w) /\ row = link[k] OBVIOUS
<1>2. OneFor(cmd, pc, next, mine, seen, patch, row, b)'
  <2>1. OneFor(cmd, pc, next, mine, seen, patch, row, b) BY <1>1
  <2> QED BY <2>1 DEF OneFor, TrueFor, JobFor, DiaryFor
<1>3. \A j \in DOMAIN crmJobs' : crmJobs'[j].customer # 0 BY DEF OneInv
<1>4. Paid(RowAt(work[w].pc, work[w].patch, link[k]).job, RowAt(pc, patch, row).job) BY <1>1 DEF Paid
<1> QED BY <1>1, <1>2, <1>3, <1>4, OneMove

\* A worker that takes up a command or gives one up.
LEMMA OneBetween ==
  ASSUME Alone, BookShape, BookShape', OneInv, UNCHANGED << crm, link, flagged, switches >>,
         NEW w \in Worker, Starting(work'[w].pc, work'[w].next),
         (failures' = failures + 1 /\ ~On(w, "idle")) \/ (failures' = failures /\ work[w].pc \notin Writing),
         \A e \in Events : e.kind = "confirmed" /\ status'[e] = "done" => status[e] = "done" \/ JobHeld(e.booking)
  PROVE  OneInv'
<1>1. \A b : JobHeld(b) <=> JobHeld(b)' BY DEF JobHeld, crm
<1>2. link' = link /\ crmJobs' = crmJobs BY DEF crm
<1>3. \A v \in Worker : ~On(v, "idle")' => OneBy(v)'
  <2> SUFFICES ASSUME ~On(w, "idle")' PROVE OneBy(w)' BY DEF Alone
  <2>1. PlacedIn(Cmd(w)', work'[w].pc, work'[w].next) /\ Conv(w)' \in Conversation /\ Cmd(w)' \in Cmds
    <3>1. Busy(w)' BY DEF BookShape, BusyInv, Vacant
    <3>2. Event(w)' \in Events BY <3>1 DEF Busy
    <3> QED BY <3>1, <3>2, CommandsAre DEF Busy, PlacedIn, Conv, Cmd
  <2>2. PICK cmd, pc, next, k : cmd = Cmd(w)' /\ pc = work'[w].pc /\ next = work'[w].next /\ k = Conv(w)' OBVIOUS
  <2>3. Starting(pc, next) /\ PlacedIn(cmd, pc, next) /\ cmd \in Cmds /\ pc # "idle"
    BY <2>1, <2>2 DEF On, PlacedIn, Starting
  <2>4. TrueFor(cmd, pc, next, work'[w].mine, work'[w].seen, link[k])
    BY <2>3 DEF Starting, PlacedIn, Cmds, Steps, LookupsOf, WritesOf, Looking, Writing, TrueFor, Follows
  <2>5. JobFor(pc, next, work'[w].patch, link[k])
    <3>1. Owned(link[k]) BY <2>1, <2>2 DEF OneInv
    <3> QED BY <2>3, <3>1 DEF Starting, Looking, Writing, JobFor, RowAt, InReview
  <2>6. DiaryFor(cmd, pc, next, work'[w].patch, link[k], Wanted(w)')
    BY <2>3 DEF Starting, Looking, Writing, DiaryFor, Shown2
  <2> QED BY <1>1, <1>2, <2>2, <2>4, <2>5, <2>6 DEF OneBy, OneFor, TrueFor, JobFor, DiaryFor
<1>4. \A e \in Events : e.kind = "confirmed" /\ status'[e] = "done" => JobHeld(e.booking)' BY <1>1 DEF OneInv
<1>5. Len(crmJobs') <= Cardinality(Jobbed)' + switches' + failures'
  <2>1. work'[w].pc \notin Writing BY DEF Starting, Writing
  <2>2. \A c \in Conversation : Now(w, c)' = link[c] BY <1>2, <2>1 DEF Now
  <2>3. CASE failures' = failures /\ work[w].pc \notin Writing
    <3>1. \A c \in Conversation : Now(w, c) = link[c] BY <2>3 DEF Now
    <3>2. Jobbed' = Jobbed BY <2>2, <3>1 DEF Alone, Jobbed
    <3> QED BY <1>2, <2>3, <3>2 DEF OneInv
  <2>4. CASE failures' = failures + 1 /\ ~On(w, "idle")
    <3>1. PICK k \in Conversation : \A c \in Conversation \ {k} : Now(w, c) = link[c]
      <4>1. PICK k : k = Conv(w) OBVIOUS
      <4>2. k \in Conversation BY <2>4, <4>1, AtStep
      <4>3. \A c \in Conversation \ {k} : Now(w, c) = link[c] BY <4>1 DEF Now
      <4> QED BY <4>2, <4>3
    <3>2. Jobbed \subseteq Conversation /\ Jobbed' \subseteq Conversation /\ IsFiniteSet(Conversation)
      BY BookingsAssumption DEF Jobbed
    <3>3. Jobbed \ {k} \subseteq Jobbed' BY <2>2, <3>1 DEF Alone, Jobbed
    <3>4. PICK J, K : J = Jobbed /\ K = Jobbed' OBVIOUS
    <3>5. Cardinality(J) \in Nat /\ Cardinality(K) \in Nat /\ Cardinality(J) <= Cardinality(K) + 1
      BY <3>2, <3>3, <3>4, JobsCount
    <3>6. PICK j, s, f, m, n : j = Len(crmJobs) /\ s = switches /\ f = failures /\ m = Cardinality(J) /\ n = Cardinality(K) OBVIOUS
    <3>7. j \in Nat /\ s \in Nat /\ f \in Nat BY <3>6, RowsAre DEF BookShape, BookTypes
    <3>8. j <= m + s + f BY <3>4, <3>6 DEF OneInv
    <3>9. j <= n + s + (f + 1) BY ONLY <3>5, <3>6, <3>7, <3>8
    <3> QED BY <1>2, <2>4, <3>4, <3>6, <3>9
  <2> QED BY <2>3, <2>4
<1> QED BY <1>2, <1>3, <1>4, <1>5 DEF OneInv

\* Which command has a step.
LEMMA CmdAt ==
  ASSUME BookShape, NEW w \in Worker, ~On(w, "idle")
  PROVE  /\ work[w].pc = "matched" => Cmd(w) = "Match"
         /\ work[w].pc \in { "linkStart", "linked", "findJob", "attachAll" } => Cmd(w) = "Link"
         /\ work[w].pc \in { "leadStart", "leadInsert", "leadAttach" } => Cmd(w) = "Lead"
         /\ work[w].pc = "upsert" => Cmd(w) = "Upsert"
         /\ work[w].pc = "cancel" => Cmd(w) = "Cancel"
         /\ work[w].pc \in { "lookup", "ensure", "newLead", "status", "resolve", "resolved", "attachLead", "review", "review2", "book",
                             "refresh", "healed", "reread", "attach", "job", "attachJob" } => Cmd(w) = "CreateOrUpdate"
<1>1. PICK cmd, pc, next : cmd = Cmd(w) /\ pc = work[w].pc /\ next = work[w].next OBVIOUS
<1>2. cmd \in Cmds /\ PlacedIn(cmd, pc, next) BY <1>1, AtStep
<1>3. /\ pc = "matched" => cmd = "Match"
      /\ pc \in { "linkStart", "linked", "findJob", "attachAll" } => cmd = "Link"
      /\ pc \in { "leadStart", "leadInsert", "leadAttach" } => cmd = "Lead"
      /\ pc = "upsert" => cmd = "Upsert"
      /\ pc = "cancel" => cmd = "Cancel"
      /\ pc \in { "lookup", "ensure", "newLead", "status", "resolve", "resolved", "attachLead", "review", "review2", "book",
                  "refresh", "healed", "reread", "attach", "job", "attachJob" } => cmd = "CreateOrUpdate"
  BY ONLY <1>2 DEF PlacedIn, Steps, Cmds, Looking, Writing
<1> QED BY <1>1, <1>3

LEMMA LookingFor ==
  ASSUME BookShape, NEW w \in Worker, work[w].pc \in Looking
  PROVE  Cmd(w) \in Cmds /\ work[w].next \in LookupsOf(Cmd(w))
<1>1. ~On(w, "idle") BY DEF On, Looking
<1>2. PICK cmd, pc, next : cmd = Cmd(w) /\ pc = work[w].pc /\ next = work[w].next OBVIOUS
<1>3. cmd \in Cmds /\ PlacedIn(cmd, pc, next) /\ pc \in Looking BY <1>1, <1>2, AtStep
<1>4. next \in LookupsOf(cmd) BY ONLY <1>3 DEF PlacedIn, Steps, Cmds, Looking, Writing
<1> QED BY <1>2, <1>3, <1>4

\* Elsewhere the row is what it is.
LEMMA RowNow == \A pc, p, row : pc \notin Writing => RowAt(pc, p, row) = row
  BY DEF RowAt

\* What is about to be written.
LEMMA RowWritten ==
  ASSUME BookShape, NEW w \in Worker, ~On(w, "idle"), NEW q
  PROVE  /\ RowAt("linkRead", q, link[Conv(w)]).customer = IF "customer" \in DOMAIN q THEN q.customer ELSE link[Conv(w)].customer
         /\ RowAt("linkRead", q, link[Conv(w)]).job = IF "job" \in DOMAIN q THEN q.job ELSE link[Conv(w)].job
         /\ RowAt("linkRead", q, link[Conv(w)]).appt = IF "appt" \in DOMAIN q THEN q.appt ELSE link[Conv(w)].appt
<1>1. PICK pc : pc = "linkRead" /\ pc \in Writing BY DEF Writing
<1> QED BY <1>1, RowAtIs

LEMMA JobStays ==
  ASSUME RowTypes, flagged' = flagged, NEW k \in DOMAIN appts, NEW a, appts' = [appts EXCEPT ![k] = a], appts[k].job # 0 => a.job # 0
  PROVE  \A b : JobHeld(b) => JobHeld(b)'
  BY DEF RowTypes, JobHeld

LEMMA JobsInDiary ==
  ASSUME BookShape, NEW w \in Worker,
         AttachAll(w) \/ Attach(w) \/ (AttachJob(w) /\ work[w].mine.job # 0) \/ Upsert(w) \/ Cancel(w)
  PROVE  \A b : JobHeld(b) => JobHeld(b)'
<1>1. RowTypes BY DEF BookShape, BookTypes
<1>2. flagged' = flagged BY DEF AttachAll, Attach, AttachJob, Upsert, Cancel, memory
<1>3. work[w].mine \in Row /\ work[w].mine.appt \in ApptIds BY TaskHas DEF BookShape
<1>4. \A b \in DOMAIN appts : appts[b] \in Appt BY <1>1 DEF RowTypes
<1>5. CASE appts' = appts BY <1>2, <1>5 DEF JobHeld
<1>6. CASE AttachAll(w) /\ appts' # appts
  <2> DEFINE k == work[w].mine.appt
             a == Attached(appts[k], work[w].mine)
  <2>1. k # Nothing /\ appts' = [appts EXCEPT ![k] = a] BY <1>6 DEF AttachAll
  <2>2. k \in DOMAIN appts BY <1>3, <2>1 DEF ApptIds
  <2>3. a.job = IF work[w].mine.job = 0 THEN appts[k].job ELSE work[w].mine.job BY <1>3, <1>4, <2>2, AttachedIs
  <2> HIDE DEF a
  <2> QED BY <1>1, <1>2, <2>1, <2>2, <2>3, JobStays
<1>7. CASE Attach(w) /\ appts' # appts
  <2> DEFINE k == work[w].mine.appt
             a == [appts[k] EXCEPT !.customer = work[w].mine.customer]
  <2>1. k # Nothing /\ appts' = [appts EXCEPT ![k] = a] BY <1>7 DEF Attach
  <2>2. k \in DOMAIN appts BY <1>3, <2>1 DEF ApptIds
  <2>3. a.job = appts[k].job BY <1>4, <2>2 DEF Appt
  <2> HIDE DEF a
  <2> QED BY <1>1, <1>2, <2>1, <2>2, <2>3, JobStays
<1>8. CASE AttachJob(w) /\ work[w].mine.job # 0 /\ appts' # appts
  <2> DEFINE k == work[w].mine.appt
             a == [appts[k] EXCEPT !.job = work[w].mine.job]
  <2>1. k # Nothing /\ appts' = [appts EXCEPT ![k] = a] BY <1>8 DEF AttachJob
  <2>2. k \in DOMAIN appts BY <1>3, <2>1 DEF ApptIds
  <2>3. a.job # 0 BY <1>4, <1>8, <2>2 DEF Appt
  <2> HIDE DEF a
  <2> QED BY <1>1, <1>2, <2>1, <2>2, <2>3, JobStays
<1>9. CASE Upsert(w) /\ Wanted(w) \notin DOMAIN appts
  <2>1. appts' = Put(Wanted(w), Appointment([NoLink EXCEPT !.customer = work[w].got], "scheduled")) BY <1>9 DEF Upsert
  <2>2. DOMAIN appts \subseteq DOMAIN appts' /\ \A b \in DOMAIN appts : appts'[b] = appts[b] BY <1>9, <2>1 DEF Put
  <2> QED BY <1>2, <2>2 DEF JobHeld
<1>10. CASE Upsert(w) /\ Wanted(w) \in DOMAIN appts
  <2> DEFINE k == Wanted(w)
             a == [appts[k] EXCEPT !.state = "scheduled", !.customer = IF @ = 0 THEN work[w].got ELSE @]
  <2>1. appts' = [appts EXCEPT ![k] = a] BY <1>1, <1>10 DEF Upsert, RowTypes
  <2>2. a.job = appts[k].job BY <1>4, <1>10 DEF Appt
  <2> HIDE DEF a
  <2> QED BY <1>1, <1>2, <1>10, <2>1, <2>2, JobStays
<1>11. CASE Cancel(w) /\ appts' # appts
  <2> DEFINE k == Wanted(w)
             a == [appts[k] EXCEPT !.state = "cancelled"]
  <2>1. k \in DOMAIN appts /\ appts' = [appts EXCEPT ![k] = a] BY <1>11 DEF Cancel
  <2>2. a.job = appts[k].job BY <1>4, <2>1 DEF Appt
  <2> HIDE DEF a
  <2> QED BY <1>1, <1>2, <2>1, <2>2, JobStays
<1> QED BY <1>5, <1>6, <1>7, <1>8, <1>9, <1>10, <1>11

\* The same, of a step that brings the booking to be held.
LEMMA OneStands ==
  ASSUME Alone, BookShape, BookShape', OneInv, NEW w \in Worker, ~On(w, "idle"),
         NEW pc, NEW next, NEW mine, NEW seen, NEW patch, NEW ext, NEW got,
         To(w, pc, next, mine, seen, patch, ext, got),
         NEW cmd, cmd = Cmd(w), NEW b, b = Wanted(w), NEW row, row = link[Conv(w)],
         OneFor(cmd, pc, next, mine, seen, patch, row, b)',
         UNCHANGED << link, crmJobs, status, switches, failures >>, \A a : JobHeld(a) => JobHeld(a)',
         RowAt(work[w].pc, work[w].patch, row).job # 0 => RowAt(pc, patch, row).job # 0
  PROVE  OneInv'
<1>1. PICK k : k = Conv(w) OBVIOUS
<1>2. link'[k] = row /\ \A c \in Conversation \ {k} : link'[c] = link[c] BY <1>1
<1>3. \A j \in DOMAIN crmJobs' : crmJobs'[j].customer # 0 BY DEF OneInv
<1>4. Paid(RowAt(work[w].pc, work[w].patch, link[k]).job, RowAt(pc, patch, row).job) BY <1>1 DEF Paid
<1> QED BY <1>1, <1>2, <1>3, <1>4, OneMove

LEMMA OneFindNone == ASSUME Alone, BookShape, OneInv, NEW w \in Worker, FindNone(w) PROVE OneInv'
<1>1. work[w].pc = "find" /\ ~On(w, "idle") BY DEF FindNone, On
<1>2. UNCHANGED << link, crmJobs, status, switches, failures >> /\ \A a : JobHeld(a) => JobHeld(a)'
  BY DEF FindNone, crm, bookkeeping, memory, JobHeld
<1>3. BookShape' BY FindNoneMoves
<1>4. PICK n, m, s, p, g, row, b : /\ n = work[w].next /\ m = work[w].mine /\ s = work[w].seen /\ p = work[w].patch
                                  /\ g = work[w].got /\ row = link[Conv(w)] /\ b = Wanted(w)
  OBVIOUS
<1>5. PICK cmd \in Cmds : cmd = Cmd(w) /\ n \in LookupsOf(cmd) BY <1>1, <1>4, LookingFor DEF Looking
<1>6. OneFor(cmd, "find", n, m, s, p, row, b) BY <1>1, <1>4, <1>5 DEF OneInv, OneBy
<1>8. Went(w, "insert") BY FindNoneMoves
<1>9. OneFor(cmd, "insert", n, m, s, p, row, b)
  BY ONLY <1>5, <1>6, RowNow DEF OneFor, TrueFor, JobFor, DiaryFor, Follows, Shown2, InReview, Owned, Looking, Writing, LookupsOf, Cmds
<1>10. RowAt("find", p, row).job # 0 => RowAt("insert", p, row).job # 0 BY <1>5, RowNow DEF Writing, LookupsOf, Cmds
<1> QED BY <1>1, <1>2, <1>3, <1>4, <1>5, <1>8, <1>9, <1>10, OneGoes DEF Went

LEMMA OneInsertCustomer == ASSUME Alone, BookShape, OneInv, NEW w \in Worker, InsertCustomer(w) PROVE OneInv'
<1>1. work[w].pc = "insert" /\ ~On(w, "idle") BY DEF InsertCustomer, On
<1>2. UNCHANGED << link, crmJobs, status, switches, failures >> /\ \A a : JobHeld(a) => JobHeld(a)'
  BY DEF InsertCustomer, crm, bookkeeping, memory, JobHeld
<1>3. BookShape' BY InsertCustomerMoves
<1>4. PICK n, m, s, p, g, row, b : /\ n = work[w].next /\ m = work[w].mine /\ s = work[w].seen /\ p = work[w].patch
                                  /\ g = work[w].got /\ row = link[Conv(w)] /\ b = Wanted(w)
  OBVIOUS
<1>5. PICK cmd \in Cmds : cmd = Cmd(w) /\ n \in LookupsOf(cmd) BY <1>1, <1>4, LookingFor DEF Looking
<1>6. OneFor(cmd, "insert", n, m, s, p, row, b) BY <1>1, <1>4, <1>5 DEF OneInv, OneBy
<1>8. Got(w, work[w].next, Len(customers) + 1) BY InsertCustomerMoves
<1>9. OneFor(cmd, n, n, m, s, p, row, b)
  BY ONLY <1>5, <1>6, RowNow DEF OneFor, TrueFor, JobFor, DiaryFor, Follows, Shown2, InReview, Owned, Looking, Writing, LookupsOf, Cmds
<1>10. RowAt("insert", p, row).job # 0 => RowAt(n, p, row).job # 0 BY <1>5, RowNow DEF Writing, LookupsOf, Cmds
<1> QED BY <1>1, <1>2, <1>3, <1>4, <1>5, <1>8, <1>9, <1>10, OneGoes DEF Got

LEMMA OneUpdateCustomer == ASSUME Alone, BookShape, OneInv, NEW w \in Worker, UpdateCustomer(w) PROVE OneInv'
<1>1. work[w].pc = "update" /\ ~On(w, "idle") BY DEF UpdateCustomer, On
<1>2. UNCHANGED << link, crmJobs, status, switches, failures >> /\ \A a : JobHeld(a) => JobHeld(a)'
  BY DEF UpdateCustomer, crm, bookkeeping, memory, JobHeld
<1>3. BookShape' BY UpdateCustomerMoves
<1>4. PICK n, m, s, p, g, row, b : /\ n = work[w].next /\ m = work[w].mine /\ s = work[w].seen /\ p = work[w].patch
                                  /\ g = work[w].got /\ row = link[Conv(w)] /\ b = Wanted(w)
  OBVIOUS
<1>5. PICK cmd \in Cmds : cmd = Cmd(w) /\ n \in LookupsOf(cmd) BY <1>1, <1>4, LookingFor DEF Looking
<1>6. OneFor(cmd, "update", n, m, s, p, row, b) BY <1>1, <1>4, <1>5 DEF OneInv, OneBy
<1>8. Went(w, work[w].next) BY UpdateCustomerMoves
<1>9. OneFor(cmd, n, n, m, s, p, row, b)
  BY ONLY <1>5, <1>6, RowNow DEF OneFor, TrueFor, JobFor, DiaryFor, Follows, Shown2, InReview, Owned, Looking, Writing, LookupsOf, Cmds
<1>10. RowAt("update", p, row).job # 0 => RowAt(n, p, row).job # 0 BY <1>5, RowNow DEF Writing, LookupsOf, Cmds
<1> QED BY <1>1, <1>2, <1>3, <1>4, <1>5, <1>8, <1>9, <1>10, OneGoes DEF Went

LEMMA OneMatched == ASSUME Alone, BookShape, OneInv, NEW w \in Worker, Matched(w) PROVE OneInv'
<1>1. work[w].pc = "matched" /\ ~On(w, "idle") BY DEF Matched, On
<1>2. UNCHANGED << link, crmJobs, status, switches, failures >> /\ \A a : JobHeld(a) => JobHeld(a)'
  BY DEF Matched, crm, bookkeeping, memory, JobHeld
<1>3. BookShape' BY MatchedMoves
<1>4. PICK n, m, s, p, g, row, b : /\ n = work[w].next /\ m = work[w].mine /\ s = work[w].seen /\ p = work[w].patch
                                  /\ g = work[w].got /\ row = link[Conv(w)] /\ b = Wanted(w)
  OBVIOUS
<1>5. Cmd(w) = "Match" BY <1>1, CmdAt
<1>6. OneFor("Match", "matched", n, m, s, p, row, b) BY <1>1, <1>4, <1>5 DEF OneInv, OneBy
<1>7. g # 0 BY <1>1, <1>4, AtStep, RowsAre DEF GotBy, GotFor, HasOne
<1>8. Wrote(w, [customer |-> work[w].got], "ack") BY MatchedMoves
<1>9. PICK q : q = [customer |-> g] OBVIOUS
<1>10. DOMAIN q = { "customer" } /\ q.customer = g BY <1>9
<1>11. /\ RowAt("linkRead", q, row).customer = g
       /\ RowAt("linkRead", q, row).job = row.job
       /\ RowAt("linkRead", q, row).appt = row.appt
  BY <1>1, <1>4, <1>10, RowWritten
<1>12. OneFor("Match", "linkRead", "ack", m, s, q, row, b)
  BY ONLY <1>6, <1>7, <1>11, RowNow DEF OneFor, TrueFor, JobFor, DiaryFor, Follows, Shown2, InReview, Owned, Looking, Writing
<1>13. RowAt("matched", p, row).job # 0 => RowAt("linkRead", q, row).job # 0 BY <1>6, <1>11, RowNow DEF OneFor, JobFor, InReview, Writing
<1> QED BY <1>1, <1>2, <1>3, <1>4, <1>5, <1>8, <1>9, <1>12, <1>13, OneGoes DEF Wrote

LEMMA OneLinked == ASSUME Alone, BookShape, OneInv, NEW w \in Worker, Linked(w) PROVE OneInv'
<1>1. work[w].pc = "linked" /\ ~On(w, "idle") BY DEF Linked, On
<1>2. UNCHANGED << link, crmJobs, status, switches, failures >> /\ \A a : JobHeld(a) => JobHeld(a)'
  BY DEF Linked, crm, bookkeeping, memory, JobHeld
<1>3. BookShape' BY LinkedMoves
<1>4. PICK n, m, s, p, g, row, b : /\ n = work[w].next /\ m = work[w].mine /\ s = work[w].seen /\ p = work[w].patch
                                  /\ g = work[w].got /\ row = link[Conv(w)] /\ b = Wanted(w)
  OBVIOUS
<1>5. Cmd(w) = "Link" BY <1>1, CmdAt
<1>6. OneFor("Link", "linked", n, m, s, p, row, b) BY <1>1, <1>4, <1>5 DEF OneInv, OneBy
<1>7. g # 0 BY <1>1, <1>4, AtStep, RowsAre DEF GotBy, GotFor, HasOne
<1>8. Wrote(w, [customer |-> work[w].got], "findJob") BY LinkedMoves
<1>9. PICK q : q = [customer |-> g] OBVIOUS
<1>10. DOMAIN q = { "customer" } /\ q.customer = g BY <1>9
<1>11. /\ RowAt("linkRead", q, row).customer = g
       /\ RowAt("linkRead", q, row).job = row.job
       /\ RowAt("linkRead", q, row).appt = row.appt
  BY <1>1, <1>4, <1>10, RowWritten
<1>12. OneFor("Link", "linkRead", "findJob", m, s, q, row, b)
  BY ONLY <1>6, <1>7, <1>11, RowNow DEF OneFor, TrueFor, JobFor, DiaryFor, Follows, Shown2, InReview, Owned, Looking, Writing
<1>13. RowAt("linked", p, row).job # 0 => RowAt("linkRead", q, row).job # 0 BY <1>6, <1>11, RowNow DEF OneFor, JobFor, InReview, Writing
<1> QED BY <1>1, <1>2, <1>3, <1>4, <1>5, <1>8, <1>9, <1>12, <1>13, OneGoes DEF Wrote

LEMMA OneLeadStart == ASSUME Alone, BookShape, OneInv, NEW w \in Worker, LeadStart(w) PROVE OneInv'
<1>1. work[w].pc = "leadStart" /\ ~On(w, "idle") BY DEF LeadStart, On
<1>2. UNCHANGED << link, crmJobs, status, switches, failures >> /\ \A a : JobHeld(a) => JobHeld(a)'
  BY DEF LeadStart, crm, bookkeeping, memory, JobHeld
<1>3. BookShape' BY LeadStartMoves
<1>4. PICK n, m, s, p, g, row, b : /\ n = work[w].next /\ m = work[w].mine /\ s = work[w].seen /\ p = work[w].patch
                                  /\ g = work[w].got /\ row = link[Conv(w)] /\ b = Wanted(w)
  OBVIOUS
<1>5. Cmd(w) = "Lead" BY <1>1, CmdAt
<1>6. OneFor("Lead", "leadStart", n, m, s, p, row, b) BY <1>1, <1>4, <1>5 DEF OneInv, OneBy
<1>8. \/ Took(w, "leadInsert", link[Conv(w)])
      \/ Took(w, "leadAttach", link[Conv(w)])
  BY <1>4, LeadStartMoves
<1>9. CASE Took(w, "leadInsert", link[Conv(w)])
  <2>1. OneFor("Lead", "leadInsert", n, row, s, p, row, b)
    BY ONLY <1>5, <1>6, RowNow DEF OneFor, TrueFor, JobFor, DiaryFor, Follows, Shown2, InReview, Owned, Looking, Writing
  <2>2. RowAt("leadStart", p, row).job # 0 => RowAt("leadInsert", p, row).job # 0 BY <1>5, RowNow DEF Writing, LookupsOf, Cmds
  <2> QED BY <1>1, <1>2, <1>3, <1>4, <1>5, <1>9, <2>1, <2>2, OneGoes DEF Took
<1>10. CASE Took(w, "leadAttach", link[Conv(w)])
  <2>1. OneFor("Lead", "leadAttach", n, row, s, p, row, b)
    BY ONLY <1>5, <1>6, RowNow DEF OneFor, TrueFor, JobFor, DiaryFor, Follows, Shown2, InReview, Owned, Looking, Writing
  <2>2. RowAt("leadStart", p, row).job # 0 => RowAt("leadAttach", p, row).job # 0 BY <1>5, RowNow DEF Writing, LookupsOf, Cmds
  <2> QED BY <1>1, <1>2, <1>3, <1>4, <1>5, <1>10, <2>1, <2>2, OneGoes DEF Took
<1> QED BY <1>8, <1>9, <1>10

LEMMA OneLeadInsert == ASSUME Alone, BookShape, OneInv, NEW w \in Worker, LeadInsert(w) PROVE OneInv'
<1>1. work[w].pc = "leadInsert" /\ ~On(w, "idle") BY DEF LeadInsert, On
<1>2. UNCHANGED << link, crmJobs, status, switches, failures >> /\ \A a : JobHeld(a) => JobHeld(a)'
  BY DEF LeadInsert, crm, bookkeeping, memory, JobHeld
<1>3. BookShape' BY LeadInsertMoves
<1>4. PICK n, m, s, p, g, row, b : /\ n = work[w].next /\ m = work[w].mine /\ s = work[w].seen /\ p = work[w].patch
                                  /\ g = work[w].got /\ row = link[Conv(w)] /\ b = Wanted(w)
  OBVIOUS
<1>5. Cmd(w) = "Lead" BY <1>1, CmdAt
<1>6. OneFor("Lead", "leadInsert", n, m, s, p, row, b) BY <1>1, <1>4, <1>5 DEF OneInv, OneBy
<1>8. Wrote(w, [lead |-> Len(leads) + 1], "leadAttach") BY LeadInsertMoves
<1>9. PICK q : q = [lead |-> Len(leads) + 1] OBVIOUS
<1>10. DOMAIN q = { "lead" } BY <1>9
<1>11. /\ RowAt("linkRead", q, row).customer = row.customer
       /\ RowAt("linkRead", q, row).job = row.job
       /\ RowAt("linkRead", q, row).appt = row.appt
  BY <1>1, <1>4, <1>10, RowWritten
<1>12. OneFor("Lead", "linkRead", "leadAttach", m, s, q, row, b)
  BY ONLY <1>6, <1>11, RowNow DEF OneFor, TrueFor, JobFor, DiaryFor, Follows, Shown2, InReview, Owned, Looking, Writing
<1>13. RowAt("leadInsert", p, row).job # 0 => RowAt("linkRead", q, row).job # 0 BY <1>6, <1>11, RowNow DEF OneFor, JobFor, InReview, Writing
<1> QED BY <1>1, <1>2, <1>3, <1>4, <1>5, <1>8, <1>9, <1>12, <1>13, OneGoes DEF Wrote

LEMMA OneLeadAttach == ASSUME Alone, BookShape, OneInv, NEW w \in Worker, LeadAttach(w) PROVE OneInv'
<1>1. work[w].pc = "leadAttach" /\ ~On(w, "idle") BY DEF LeadAttach, On
<1>2. UNCHANGED << link, crmJobs, status, switches, failures >> /\ \A a : JobHeld(a) => JobHeld(a)'
  BY DEF LeadAttach, crm, bookkeeping, memory, JobHeld
<1>3. BookShape' BY LeadAttachMoves
<1>4. PICK n, m, s, p, g, row, b : /\ n = work[w].next /\ m = work[w].mine /\ s = work[w].seen /\ p = work[w].patch
                                  /\ g = work[w].got /\ row = link[Conv(w)] /\ b = Wanted(w)
  OBVIOUS
<1>5. Cmd(w) = "Lead" BY <1>1, CmdAt
<1>6. OneFor("Lead", "leadAttach", n, m, s, p, row, b) BY <1>1, <1>4, <1>5 DEF OneInv, OneBy
<1>8. Went(w, "ack") BY LeadAttachMoves
<1>9. OneFor("Lead", "ack", n, m, s, p, row, b)
  BY ONLY <1>5, <1>6, RowNow DEF OneFor, TrueFor, JobFor, DiaryFor, Follows, Shown2, InReview, Owned, Looking, Writing
<1>10. RowAt("leadAttach", p, row).job # 0 => RowAt("ack", p, row).job # 0 BY <1>5, RowNow DEF Writing, LookupsOf, Cmds
<1> QED BY <1>1, <1>2, <1>3, <1>4, <1>5, <1>8, <1>9, <1>10, OneGoes DEF Went

LEMMA OneEnsure == ASSUME Alone, BookShape, OneInv, NEW w \in Worker, Ensure(w) PROVE OneInv'
<1>1. work[w].pc = "ensure" /\ ~On(w, "idle") BY DEF Ensure, On
<1>2. UNCHANGED << link, crmJobs, status, switches, failures >> /\ \A a : JobHeld(a) => JobHeld(a)'
  BY DEF Ensure, crm, bookkeeping, memory, JobHeld
<1>3. BookShape' BY EnsureMoves
<1>4. PICK n, m, s, p, g, row, b : /\ n = work[w].next /\ m = work[w].mine /\ s = work[w].seen /\ p = work[w].patch
                                  /\ g = work[w].got /\ row = link[Conv(w)] /\ b = Wanted(w)
  OBVIOUS
<1>5. Cmd(w) = "CreateOrUpdate" BY <1>1, CmdAt
<1>6. OneFor("CreateOrUpdate", "ensure", n, m, s, p, row, b) BY <1>1, <1>4, <1>5 DEF OneInv, OneBy
<1>8. \/ Took(w, "status", link[Conv(w)])
      \/ Took(w, "newLead", link[Conv(w)])
  BY <1>4, EnsureMoves
<1>9. CASE Took(w, "status", link[Conv(w)])
  <2>1. OneFor("CreateOrUpdate", "status", n, row, s, p, row, b)
    BY ONLY <1>5, <1>6, RowNow DEF OneFor, TrueFor, JobFor, DiaryFor, Follows, Shown2, InReview, Owned, Looking, Writing
  <2>2. RowAt("ensure", p, row).job # 0 => RowAt("status", p, row).job # 0 BY <1>5, RowNow DEF Writing, LookupsOf, Cmds
  <2> QED BY <1>1, <1>2, <1>3, <1>4, <1>5, <1>9, <2>1, <2>2, OneGoes DEF Took
<1>10. CASE Took(w, "newLead", link[Conv(w)])
  <2>1. OneFor("CreateOrUpdate", "newLead", n, row, s, p, row, b)
    BY ONLY <1>5, <1>6, RowNow DEF OneFor, TrueFor, JobFor, DiaryFor, Follows, Shown2, InReview, Owned, Looking, Writing
  <2>2. RowAt("ensure", p, row).job # 0 => RowAt("newLead", p, row).job # 0 BY <1>5, RowNow DEF Writing, LookupsOf, Cmds
  <2> QED BY <1>1, <1>2, <1>3, <1>4, <1>5, <1>10, <2>1, <2>2, OneGoes DEF Took
<1> QED BY <1>8, <1>9, <1>10

LEMMA OneResolved == ASSUME Alone, BookShape, OneInv, NEW w \in Worker, Resolved(w) PROVE OneInv'
<1>1. work[w].pc = "resolved" /\ ~On(w, "idle") BY DEF Resolved, On
<1>2. UNCHANGED << link, crmJobs, status, switches, failures >> /\ \A a : JobHeld(a) => JobHeld(a)'
  BY DEF Resolved, crm, bookkeeping, memory, JobHeld
<1>3. BookShape' BY ResolvedMoves
<1>4. PICK n, m, s, p, g, row, b : /\ n = work[w].next /\ m = work[w].mine /\ s = work[w].seen /\ p = work[w].patch
                                  /\ g = work[w].got /\ row = link[Conv(w)] /\ b = Wanted(w)
  OBVIOUS
<1>5. Cmd(w) = "CreateOrUpdate" BY <1>1, CmdAt
<1>6. OneFor("CreateOrUpdate", "resolved", n, m, s, p, row, b) BY <1>1, <1>4, <1>5 DEF OneInv, OneBy
<1>7. g # 0 BY <1>1, <1>4, AtStep, RowsAre DEF GotBy, GotFor, HasOne
<1>8. Wrote(w, [customer |-> work[w].got, review |-> FALSE], "attachLead") BY ResolvedMoves
<1>9. PICK q : q = [customer |-> g, review |-> FALSE] OBVIOUS
<1>10. DOMAIN q = { "customer", "review" } /\ q.customer = g BY <1>9
<1>11. /\ RowAt("linkRead", q, row).customer = g
       /\ RowAt("linkRead", q, row).job = row.job
       /\ RowAt("linkRead", q, row).appt = row.appt
  BY <1>1, <1>4, <1>10, RowWritten
<1>12. OneFor("CreateOrUpdate", "linkRead", "attachLead", m, s, q, row, b)
  BY ONLY <1>6, <1>7, <1>11, RowNow DEF OneFor, TrueFor, JobFor, DiaryFor, Follows, Shown2, InReview, Owned, Looking, Writing
<1>13. RowAt("resolved", p, row).job # 0 => RowAt("linkRead", q, row).job # 0 BY <1>6, <1>11, RowNow DEF OneFor, JobFor, InReview, Writing
<1> QED BY <1>1, <1>2, <1>3, <1>4, <1>5, <1>8, <1>9, <1>12, <1>13, OneGoes DEF Wrote

LEMMA OneAttachLead == ASSUME Alone, BookShape, OneInv, NEW w \in Worker, AttachLead(w) PROVE OneInv'
<1>1. work[w].pc = "attachLead" /\ ~On(w, "idle") BY DEF AttachLead, On
<1>2. UNCHANGED << link, crmJobs, status, switches, failures >> /\ \A a : JobHeld(a) => JobHeld(a)'
  BY DEF AttachLead, crm, bookkeeping, memory, JobHeld
<1>3. BookShape' BY AttachLeadMoves
<1>4. PICK n, m, s, p, g, row, b : /\ n = work[w].next /\ m = work[w].mine /\ s = work[w].seen /\ p = work[w].patch
                                  /\ g = work[w].got /\ row = link[Conv(w)] /\ b = Wanted(w)
  OBVIOUS
<1>5. Cmd(w) = "CreateOrUpdate" BY <1>1, CmdAt
<1>6. OneFor("CreateOrUpdate", "attachLead", n, m, s, p, row, b) BY <1>1, <1>4, <1>5 DEF OneInv, OneBy
<1>8. Went(w, "book") BY AttachLeadMoves
<1>9. OneFor("CreateOrUpdate", "book", n, m, s, p, row, b)
  BY ONLY <1>5, <1>6, RowNow DEF OneFor, TrueFor, JobFor, DiaryFor, Follows, Shown2, InReview, Owned, Looking, Writing
<1>10. RowAt("attachLead", p, row).job # 0 => RowAt("book", p, row).job # 0 BY <1>5, RowNow DEF Writing, LookupsOf, Cmds
<1> QED BY <1>1, <1>2, <1>3, <1>4, <1>5, <1>8, <1>9, <1>10, OneGoes DEF Went

LEMMA OneReview2 == ASSUME Alone, BookShape, OneInv, NEW w \in Worker, Review2(w) PROVE OneInv'
<1>1. work[w].pc = "review2" /\ ~On(w, "idle") BY DEF Review2, On
<1>2. UNCHANGED << link, crmJobs, status, switches, failures >> /\ \A a : JobHeld(a) => JobHeld(a)'
  BY DEF Review2, crm, bookkeeping, memory, JobHeld
<1>3. BookShape' BY Review2Moves
<1>4. PICK n, m, s, p, g, row, b : /\ n = work[w].next /\ m = work[w].mine /\ s = work[w].seen /\ p = work[w].patch
                                  /\ g = work[w].got /\ row = link[Conv(w)] /\ b = Wanted(w)
  OBVIOUS
<1>5. Cmd(w) = "CreateOrUpdate" BY <1>1, CmdAt
<1>6. OneFor("CreateOrUpdate", "review2", n, m, s, p, row, b) BY <1>1, <1>4, <1>5 DEF OneInv, OneBy
<1>8. Wrote(w, [appt |-> Wanted(w), customer |-> 0, job |-> 0, booking |-> Wanted(w), review |-> TRUE], "ack") BY Review2Moves
<1>9. PICK q : q = [appt |-> b, customer |-> 0, job |-> 0, booking |-> b, review |-> TRUE] OBVIOUS
<1>10. DOMAIN q = { "appt", "customer", "job", "booking", "review" } /\ q.appt = b /\ q.customer = 0 /\ q.job = 0 BY <1>9
<1>11. /\ RowAt("linkRead", q, row).customer = 0
       /\ RowAt("linkRead", q, row).job = 0
       /\ RowAt("linkRead", q, row).appt = b
  BY <1>1, <1>4, <1>10, RowWritten
<1>12. OneFor("CreateOrUpdate", "linkRead", "ack", m, s, q, row, b)
  BY ONLY <1>6, <1>11, RowNow DEF OneFor, TrueFor, JobFor, DiaryFor, Follows, Shown2, InReview, Owned, Looking, Writing
<1>13. RowAt("review2", p, row).job # 0 => RowAt("linkRead", q, row).job # 0 BY <1>6, <1>11, RowNow DEF OneFor, JobFor, InReview, Writing
<1> QED BY <1>1, <1>2, <1>3, <1>4, <1>5, <1>8, <1>9, <1>12, <1>13, OneGoes DEF Wrote

LEMMA OneHealed == ASSUME Alone, BookShape, OneInv, NEW w \in Worker, Healed(w) PROVE OneInv'
<1>1. work[w].pc = "healed" /\ ~On(w, "idle") BY DEF Healed, On
<1>2. UNCHANGED << link, crmJobs, status, switches, failures >> /\ \A a : JobHeld(a) => JobHeld(a)'
  BY DEF Healed, crm, bookkeeping, memory, JobHeld
<1>3. BookShape' BY HealedMoves
<1>4. PICK n, m, s, p, g, row, b : /\ n = work[w].next /\ m = work[w].mine /\ s = work[w].seen /\ p = work[w].patch
                                  /\ g = work[w].got /\ row = link[Conv(w)] /\ b = Wanted(w)
  OBVIOUS
<1>5. Cmd(w) = "CreateOrUpdate" BY <1>1, CmdAt
<1>6. OneFor("CreateOrUpdate", "healed", n, m, s, p, row, b) BY <1>1, <1>4, <1>5 DEF OneInv, OneBy
<1>7. g # 0 BY <1>1, <1>4, AtStep, RowsAre DEF GotBy, GotFor, HasOne
<1>8. Wrote(w, [customer |-> work[w].got], "reread") BY HealedMoves
<1>9. PICK q : q = [customer |-> g] OBVIOUS
<1>10. DOMAIN q = { "customer" } /\ q.customer = g BY <1>9
<1>11. /\ RowAt("linkRead", q, row).customer = g
       /\ RowAt("linkRead", q, row).job = row.job
       /\ RowAt("linkRead", q, row).appt = row.appt
  BY <1>1, <1>4, <1>10, RowWritten
<1>12. OneFor("CreateOrUpdate", "linkRead", "reread", m, s, q, row, b)
  BY ONLY <1>6, <1>7, <1>11, RowNow DEF OneFor, TrueFor, JobFor, DiaryFor, Follows, Shown2, InReview, Owned, Looking, Writing
<1>13. RowAt("healed", p, row).job # 0 => RowAt("linkRead", q, row).job # 0 BY <1>6, <1>11, RowNow DEF OneFor, JobFor, InReview, Writing
<1> QED BY <1>1, <1>2, <1>3, <1>4, <1>5, <1>8, <1>9, <1>12, <1>13, OneGoes DEF Wrote

LEMMA OneReread == ASSUME Alone, BookShape, OneInv, NEW w \in Worker, Reread(w) PROVE OneInv'
<1>1. work[w].pc = "reread" /\ ~On(w, "idle") BY DEF Reread, On
<1>2. UNCHANGED << link, crmJobs, status, switches, failures >> /\ \A a : JobHeld(a) => JobHeld(a)'
  BY DEF Reread, crm, bookkeeping, memory, JobHeld
<1>3. BookShape' BY RereadMoves
<1>4. PICK n, m, s, p, g, row, b : /\ n = work[w].next /\ m = work[w].mine /\ s = work[w].seen /\ p = work[w].patch
                                  /\ g = work[w].got /\ row = link[Conv(w)] /\ b = Wanted(w)
  OBVIOUS
<1>5. Cmd(w) = "CreateOrUpdate" BY <1>1, CmdAt
<1>6. OneFor("CreateOrUpdate", "reread", n, m, s, p, row, b) BY <1>1, <1>4, <1>5 DEF OneInv, OneBy
<1>8. Took(w, "attach", link[Conv(w)]) BY RereadMoves
<1>9. OneFor("CreateOrUpdate", "attach", n, row, s, p, row, b)
  BY ONLY <1>5, <1>6, RowNow DEF OneFor, TrueFor, JobFor, DiaryFor, Follows, Shown2, InReview, Owned, Looking, Writing
<1>10. RowAt("reread", p, row).job # 0 => RowAt("attach", p, row).job # 0 BY <1>5, RowNow DEF Writing, LookupsOf, Cmds
<1> QED BY <1>1, <1>2, <1>3, <1>4, <1>5, <1>8, <1>9, <1>10, OneGoes DEF Took

LEMMA OneFindOne == ASSUME Alone, BookShape, OneInv, NEW w \in Worker, FindOne(w) PROVE OneInv'
<1>1. work[w].pc = "find" /\ ~On(w, "idle") BY DEF FindOne, On
<1>2. UNCHANGED << link, crmJobs, status, switches, failures >> /\ \A a : JobHeld(a) => JobHeld(a)'
  BY DEF FindOne, crm, bookkeeping, memory, JobHeld
<1>3. BookShape' BY FindOneMoves
<1>4. PICK n, m, s, p, g, row, b : /\ n = work[w].next /\ m = work[w].mine /\ s = work[w].seen /\ p = work[w].patch
                                  /\ g = work[w].got /\ row = link[Conv(w)] /\ b = Wanted(w)
  OBVIOUS
<1>5. PICK cmd \in Cmds : cmd = Cmd(w) /\ n \in LookupsOf(cmd) BY <1>1, <1>4, LookingFor DEF Looking
<1>6. OneFor(cmd, "find", n, m, s, p, row, b) BY <1>1, <1>4, <1>5 DEF OneInv, OneBy
<1>8. PICK k \in DOMAIN customers : Got(w, "update", k) BY FindOneMoves
<1>9. OneFor(cmd, "update", n, m, s, p, row, b)
  BY ONLY <1>5, <1>6, RowNow DEF OneFor, TrueFor, JobFor, DiaryFor, Follows, Shown2, InReview, Owned, Looking, Writing, LookupsOf, Cmds
<1>10. RowAt("find", p, row).job # 0 => RowAt("update", p, row).job # 0 BY <1>5, RowNow DEF Writing, LookupsOf, Cmds
<1> QED BY <1>1, <1>2, <1>3, <1>4, <1>5, <1>8, <1>9, <1>10, OneGoes DEF Got

LEMMA OneLinkStart == ASSUME Alone, BookShape, OneInv, NEW w \in Worker, LinkStart(w) PROVE OneInv'
<1>1. work[w].pc = "linkStart" /\ ~On(w, "idle") BY DEF LinkStart, On
<1>2. UNCHANGED << link, crmJobs, status, switches, failures >> /\ \A a : JobHeld(a) => JobHeld(a)'
  BY DEF LinkStart, crm, bookkeeping, memory, JobHeld
<1>3. BookShape' BY LinkStartMoves
<1>4. PICK n, m, s, p, g, row, b : /\ n = work[w].next /\ m = work[w].mine /\ s = work[w].seen /\ p = work[w].patch
                                  /\ g = work[w].got /\ row = link[Conv(w)] /\ b = Wanted(w)
  OBVIOUS
<1>5. Cmd(w) = "Link" BY <1>1, CmdAt
<1>6. OneFor("Link", "linkStart", n, m, s, p, row, b) BY <1>1, <1>4, <1>5 DEF OneInv, OneBy
<1>8. \/ Wrote(w, NoPatch, "ack")
      \/ row.customer = 0 /\ Looked(w, "linked", link[Conv(w)])
      \/ Took(w, "findJob", link[Conv(w)])
  BY <1>4, LinkStartMoves
<1>9. CASE Wrote(w, NoPatch, "ack")
  <2>1. PICK q : q = NoPatch OBVIOUS
  <2>2. DOMAIN q = { "row" } BY <2>1 DEF NoPatch
  <2>3. /\ RowAt("linkRead", q, row).customer = row.customer
         /\ RowAt("linkRead", q, row).job = row.job
         /\ RowAt("linkRead", q, row).appt = row.appt
    BY <1>1, <1>4, <2>2, RowWritten
  <2>4. OneFor("Link", "linkRead", "ack", m, s, q, row, b)
    BY ONLY <1>6, <2>3, RowNow DEF OneFor, TrueFor, JobFor, DiaryFor, Follows, Shown2, InReview, Owned, Looking, Writing
  <2>5. RowAt("linkStart", p, row).job # 0 => RowAt("linkRead", q, row).job # 0 BY <1>6, <2>3, RowNow DEF OneFor, JobFor, InReview, Writing
  <2> QED BY <1>1, <1>2, <1>3, <1>4, <1>5, <1>9, <2>1, <2>4, <2>5, OneGoes DEF Wrote
<1>10. CASE row.customer = 0 /\ Looked(w, "linked", link[Conv(w)])
  <2>1. OneFor("Link", "find", "linked", row, s, p, row, b)
    BY ONLY <1>5, <1>6, <1>10, RowNow DEF OneFor, TrueFor, JobFor, DiaryFor, Follows, Shown2, InReview, Owned, Looking, Writing
  <2>2. RowAt("linkStart", p, row).job # 0 => RowAt("find", p, row).job # 0 BY <1>5, RowNow DEF Writing, LookupsOf, Cmds
  <2> QED BY <1>1, <1>2, <1>3, <1>4, <1>5, <1>10, <2>1, <2>2, OneGoes DEF Looked
<1>11. CASE Took(w, "findJob", link[Conv(w)])
  <2>1. OneFor("Link", "findJob", n, row, s, p, row, b)
    BY ONLY <1>5, <1>6, RowNow DEF OneFor, TrueFor, JobFor, DiaryFor, Follows, Shown2, InReview, Owned, Looking, Writing
  <2>2. RowAt("linkStart", p, row).job # 0 => RowAt("findJob", p, row).job # 0 BY <1>5, RowNow DEF Writing, LookupsOf, Cmds
  <2> QED BY <1>1, <1>2, <1>3, <1>4, <1>5, <1>11, <2>1, <2>2, OneGoes DEF Took
<1> QED BY <1>8, <1>9, <1>10, <1>11

LEMMA OneResolve == ASSUME Alone, BookShape, OneInv, NEW w \in Worker, Resolve(w) PROVE OneInv'
<1>1. work[w].pc = "resolve" /\ ~On(w, "idle") BY DEF Resolve, On
<1>2. UNCHANGED << link, crmJobs, status, switches, failures >> /\ \A a : JobHeld(a) => JobHeld(a)'
  BY DEF Resolve, crm, bookkeeping, memory, JobHeld
<1>3. BookShape' BY ResolveMoves
<1>4. PICK n, m, s, p, g, row, b : /\ n = work[w].next /\ m = work[w].mine /\ s = work[w].seen /\ p = work[w].patch
                                  /\ g = work[w].got /\ row = link[Conv(w)] /\ b = Wanted(w)
  OBVIOUS
<1>5. Cmd(w) = "CreateOrUpdate" BY <1>1, CmdAt
<1>6. OneFor("CreateOrUpdate", "resolve", n, m, s, p, row, b) BY <1>1, <1>4, <1>5 DEF OneInv, OneBy
<1>8. \/ Went(w, "book")
      \/ m.customer = 0 /\ Looked(w, "resolved", work[w].mine)
  BY <1>4, ResolveMoves
<1>9. CASE Went(w, "book")
  <2>1. OneFor("CreateOrUpdate", "book", n, m, s, p, row, b)
    BY ONLY <1>5, <1>6, RowNow DEF OneFor, TrueFor, JobFor, DiaryFor, Follows, Shown2, InReview, Owned, Looking, Writing
  <2>2. RowAt("resolve", p, row).job # 0 => RowAt("book", p, row).job # 0 BY <1>5, RowNow DEF Writing, LookupsOf, Cmds
  <2> QED BY <1>1, <1>2, <1>3, <1>4, <1>5, <1>9, <2>1, <2>2, OneGoes DEF Went
<1>10. CASE m.customer = 0 /\ Looked(w, "resolved", work[w].mine)
  <2>1. OneFor("CreateOrUpdate", "find", "resolved", m, s, p, row, b)
    BY ONLY <1>5, <1>6, <1>10, RowNow DEF OneFor, TrueFor, JobFor, DiaryFor, Follows, Shown2, InReview, Owned, Looking, Writing
  <2>2. RowAt("resolve", p, row).job # 0 => RowAt("find", p, row).job # 0 BY <1>5, RowNow DEF Writing, LookupsOf, Cmds
  <2> QED BY <1>1, <1>2, <1>3, <1>4, <1>5, <1>10, <2>1, <2>2, OneGoes DEF Looked
<1> QED BY <1>8, <1>9, <1>10

LEMMA OneRefresh == ASSUME Alone, BookShape, OneInv, NEW w \in Worker, Refresh(w) PROVE OneInv'
<1>1. work[w].pc = "refresh" /\ ~On(w, "idle") BY DEF Refresh, On
<1>2. UNCHANGED << link, crmJobs, status, switches, failures >> /\ \A a : JobHeld(a) => JobHeld(a)'
  BY DEF Refresh, crm, bookkeeping, memory, JobHeld
<1>3. BookShape' BY RefreshMoves
<1>4. PICK n, m, s, p, g, row, b : /\ n = work[w].next /\ m = work[w].mine /\ s = work[w].seen /\ p = work[w].patch
                                  /\ g = work[w].got /\ row = link[Conv(w)] /\ b = Wanted(w)
  OBVIOUS
<1>5. Cmd(w) = "CreateOrUpdate" BY <1>1, CmdAt
<1>6. OneFor("CreateOrUpdate", "refresh", n, m, s, p, row, b) BY <1>1, <1>4, <1>5 DEF OneInv, OneBy
<1>8. \/ Took(w, "attach", link[Conv(w)])
      \/ row.customer = 0 /\ Looked(w, "healed", link[Conv(w)])
  BY <1>4, RefreshMoves
<1>9. CASE Took(w, "attach", link[Conv(w)])
  <2>1. OneFor("CreateOrUpdate", "attach", n, row, s, p, row, b)
    BY ONLY <1>5, <1>6, RowNow DEF OneFor, TrueFor, JobFor, DiaryFor, Follows, Shown2, InReview, Owned, Looking, Writing
  <2>2. RowAt("refresh", p, row).job # 0 => RowAt("attach", p, row).job # 0 BY <1>5, RowNow DEF Writing, LookupsOf, Cmds
  <2> QED BY <1>1, <1>2, <1>3, <1>4, <1>5, <1>9, <2>1, <2>2, OneGoes DEF Took
<1>10. CASE row.customer = 0 /\ Looked(w, "healed", link[Conv(w)])
  <2>1. OneFor("CreateOrUpdate", "find", "healed", row, s, p, row, b)
    BY ONLY <1>5, <1>6, <1>10, RowNow DEF OneFor, TrueFor, JobFor, DiaryFor, Follows, Shown2, InReview, Owned, Looking, Writing
  <2>2. RowAt("refresh", p, row).job # 0 => RowAt("find", p, row).job # 0 BY <1>5, RowNow DEF Writing, LookupsOf, Cmds
  <2> QED BY <1>1, <1>2, <1>3, <1>4, <1>5, <1>10, <2>1, <2>2, OneGoes DEF Looked
<1> QED BY <1>8, <1>9, <1>10

LEMMA OneAttach == ASSUME Alone, BookShape, OneInv, NEW w \in Worker, Attach(w) PROVE OneInv'
<1>1. work[w].pc = "attach" /\ ~On(w, "idle") BY DEF Attach, On
<1>2. UNCHANGED << link, crmJobs, status, switches, failures >> /\ \A a : JobHeld(a) => JobHeld(a)'
  BY JobsInDiary DEF Attach, crm, bookkeeping, memory
<1>3. BookShape' BY AttachMoves
<1>4. PICK n, m, s, p, g, row, b : /\ n = work[w].next /\ m = work[w].mine /\ s = work[w].seen /\ p = work[w].patch
                                  /\ g = work[w].got /\ row = link[Conv(w)] /\ b = Wanted(w)
  OBVIOUS
<1>5. Cmd(w) = "CreateOrUpdate" BY <1>1, CmdAt
<1>6. OneFor("CreateOrUpdate", "attach", n, m, s, p, row, b) BY <1>1, <1>4, <1>5 DEF OneInv, OneBy
<1>8. Went(w, "job") BY AttachMoves
<1>9. OneFor("CreateOrUpdate", "job", n, m, s, p, row, b)
  BY ONLY <1>5, <1>6, RowNow DEF OneFor, TrueFor, JobFor, DiaryFor, Follows, Shown2, InReview, Owned, Looking, Writing
<1>10. RowAt("attach", p, row).job # 0 => RowAt("job", p, row).job # 0 BY <1>5, RowNow DEF Writing, LookupsOf, Cmds
<1> QED BY <1>1, <1>2, <1>3, <1>4, <1>5, <1>8, <1>9, <1>10, OneGoes DEF Went

LEMMA OneAttachAll == ASSUME Alone, BookShape, OneInv, NEW w \in Worker, AttachAll(w) PROVE OneInv'
<1>1. work[w].pc = "attachAll" /\ ~On(w, "idle") BY DEF AttachAll, On
<1>2. UNCHANGED << link, crmJobs, status, switches, failures >> /\ \A a : JobHeld(a) => JobHeld(a)'
  BY JobsInDiary DEF AttachAll, crm, bookkeeping, memory
<1>3. BookShape' BY AttachAllMoves
<1>4. PICK n, m, s, p, g, row, b : /\ n = work[w].next /\ m = work[w].mine /\ s = work[w].seen /\ p = work[w].patch
                                  /\ g = work[w].got /\ row = link[Conv(w)] /\ b = Wanted(w)
  OBVIOUS
<1>5. Cmd(w) = "Link" BY <1>1, CmdAt
<1>6. OneFor("Link", "attachAll", n, m, s, p, row, b) BY <1>1, <1>4, <1>5 DEF OneInv, OneBy
<1>8. Went(w, "ack") BY AttachAllMoves
<1>9. OneFor("Link", "ack", n, m, s, p, row, b)
  BY ONLY <1>5, <1>6, RowNow DEF OneFor, TrueFor, JobFor, DiaryFor, Follows, Shown2, InReview, Owned, Looking, Writing
<1>10. RowAt("attachAll", p, row).job # 0 => RowAt("ack", p, row).job # 0 BY <1>5, RowNow DEF Writing, LookupsOf, Cmds
<1> QED BY <1>1, <1>2, <1>3, <1>4, <1>5, <1>8, <1>9, <1>10, OneGoes DEF Went

LEMMA OneUpsert == ASSUME Alone, BookShape, OneInv, NEW w \in Worker, Upsert(w) PROVE OneInv'
<1>1. work[w].pc = "upsert" /\ ~On(w, "idle") BY DEF Upsert, On
<1>2. UNCHANGED << link, crmJobs, status, switches, failures >> /\ \A a : JobHeld(a) => JobHeld(a)'
  BY JobsInDiary DEF Upsert, crm, bookkeeping, memory
<1>3. BookShape' BY UpsertMoves
<1>4. PICK n, m, s, p, g, row, b : /\ n = work[w].next /\ m = work[w].mine /\ s = work[w].seen /\ p = work[w].patch
                                  /\ g = work[w].got /\ row = link[Conv(w)] /\ b = Wanted(w)
  OBVIOUS
<1>5. Cmd(w) = "Upsert" BY <1>1, CmdAt
<1>6. OneFor("Upsert", "upsert", n, m, s, p, row, b) BY <1>1, <1>4, <1>5 DEF OneInv, OneBy
<1>8. Went(w, "ack") BY UpsertMoves
<1>9. OneFor("Upsert", "ack", n, m, s, p, row, b)
  BY ONLY <1>5, <1>6, RowNow DEF OneFor, TrueFor, JobFor, DiaryFor, Follows, Shown2, InReview, Owned, Looking, Writing
<1>10. RowAt("upsert", p, row).job # 0 => RowAt("ack", p, row).job # 0 BY <1>5, RowNow DEF Writing, LookupsOf, Cmds
<1> QED BY <1>1, <1>2, <1>3, <1>4, <1>5, <1>8, <1>9, <1>10, OneGoes DEF Went

LEMMA OneCancel == ASSUME Alone, BookShape, OneInv, NEW w \in Worker, Cancel(w) PROVE OneInv'
<1>1. work[w].pc = "cancel" /\ ~On(w, "idle") BY DEF Cancel, On
<1>2. UNCHANGED << link, crmJobs, status, switches, failures >> /\ \A a : JobHeld(a) => JobHeld(a)'
  BY JobsInDiary DEF Cancel, crm, bookkeeping, memory
<1>3. BookShape' BY CancelMoves
<1>4. PICK n, m, s, p, g, row, b : /\ n = work[w].next /\ m = work[w].mine /\ s = work[w].seen /\ p = work[w].patch
                                  /\ g = work[w].got /\ row = link[Conv(w)] /\ b = Wanted(w)
  OBVIOUS
<1>5. Cmd(w) = "Cancel" BY <1>1, CmdAt
<1>6. OneFor("Cancel", "cancel", n, m, s, p, row, b) BY <1>1, <1>4, <1>5 DEF OneInv, OneBy
<1>8. Went(w, "ack") BY CancelMoves
<1>9. OneFor("Cancel", "ack", n, m, s, p, row, b)
  BY ONLY <1>5, <1>6, RowNow DEF OneFor, TrueFor, JobFor, DiaryFor, Follows, Shown2, InReview, Owned, Looking, Writing
<1>10. RowAt("cancel", p, row).job # 0 => RowAt("ack", p, row).job # 0 BY <1>5, RowNow DEF Writing, LookupsOf, Cmds
<1> QED BY <1>1, <1>2, <1>3, <1>4, <1>5, <1>8, <1>9, <1>10, OneGoes DEF Went

-----------------------------------------------------------------------------
(* Steps that write the diary, the link row or a job.                      *)

LEMMA OneLinkRead == ASSUME Alone, BookShape, OneInv, NEW w \in Worker, LinkRead(w) PROVE OneInv'
<1>1. work[w].pc = "linkRead" /\ ~On(w, "idle") BY DEF LinkRead, On
<1>2. UNCHANGED << link, crmJobs, status, switches, failures >> /\ \A a : JobHeld(a) => JobHeld(a)'
  BY DEF LinkRead, crm, bookkeeping, memory, JobHeld
<1>3. BookShape' BY LinkReadMoves
<1>4. PICK cmd, n, m, s, p, row, b : /\ cmd = Cmd(w) /\ n = work[w].next /\ m = work[w].mine /\ s = work[w].seen
                                     /\ p = work[w].patch /\ row = link[Conv(w)] /\ b = Wanted(w)
  OBVIOUS
<1>5. OneFor(cmd, "linkRead", n, m, s, p, row, b) BY <1>1, <1>4 DEF OneInv, OneBy
<1>6. RowAt("linkRead", p, row) = Laid(p, row) /\ RowAt("linkWrite", p, row) = Laid(p, row) BY DEF RowAt, Writing
<1>7. TrueFor(cmd, "linkWrite", n, m, row, row) BY ONLY <1>5 DEF OneFor, TrueFor, Follows, Looking, Writing
<1>8. JobFor("linkWrite", n, p, row) BY ONLY <1>5, <1>6 DEF OneFor, JobFor, InReview, Owned, Looking, Writing
<1>9. DiaryFor(cmd, "linkWrite", n, p, row, b) BY ONLY <1>5, <1>6 DEF OneFor, DiaryFor, Shown2, Looking, Writing
<1>10. OneFor(cmd, "linkWrite", n, m, row, p, row, b) BY <1>7, <1>8, <1>9 DEF OneFor
<1>11. To(w, "linkWrite", n, m, row, p, work[w].ext, work[w].got) BY <1>4, LinkReadMoves
<1> QED BY <1>1, <1>2, <1>3, <1>4, <1>6, <1>10, <1>11, OneGoes

\* What is written is what was about to be, and the worker has it.
LEMMA OneLinkWrite == ASSUME Alone, BookShape, OneInv, NEW w \in Worker, LinkWrite(w) PROVE OneInv'
<1>1. work[w].pc = "linkWrite" /\ ~On(w, "idle") BY DEF LinkWrite, On
<1>2. UNCHANGED << crmJobs, status, switches, failures >> /\ \A a : JobHeld(a) => JobHeld(a)'
  BY DEF LinkWrite, crm, bookkeeping, memory, JobHeld
<1>3. BookShape' BY LinkWriteMoves
<1>4. PICK cmd, n, m, s, p, old, b, k : /\ cmd = Cmd(w) /\ n = work[w].next /\ m = work[w].mine /\ s = work[w].seen
                                        /\ p = work[w].patch /\ old = link[Conv(w)] /\ b = Wanted(w) /\ k = Conv(w)
  OBVIOUS
<1>5. OneFor(cmd, "linkWrite", n, m, s, p, old, b) BY <1>1, <1>4 DEF OneInv, OneBy
<1>6. PICK row : row = Laid(p, old) OBVIOUS
<1>7. s = old /\ (Follows(cmd, "linkWrite", n) => m = old) BY <1>5 DEF OneFor, TrueFor
<1>8. k \in Conversation /\ link' = [link EXCEPT ![k] = row]
  BY <1>1, <1>4, <1>6, <1>7, AtStep DEF LinkWrite
<1>9. link'[k] = row /\ \A c \in Conversation \ {k} : link'[c] = link[c] BY <1>8 DEF BookShape, BookTypes, RowTypes
<1>10. cmd \in Cmds /\ n \in WritesOf(cmd)
  <2>1. cmd \in Cmds /\ PlacedIn(cmd, "linkWrite", n) BY <1>1, <1>4, AtStep
  <2> QED BY ONLY <2>1 DEF PlacedIn, Steps, Cmds, Looking, Writing
<1>11. RowAt("linkWrite", p, old) = row /\ \A q : RowAt(n, q, row) = row
  <2>1. n \notin Writing BY ONLY <1>10 DEF Cmds, WritesOf, Writing
  <2>2. \A q : RowAt(n, q, row) = row BY <2>1, RowNow
  <2> QED BY <1>6, <2>2 DEF RowAt, Writing
<1>12. PICK x : x = Mine(w) OBVIOUS
<1>13. Follows(cmd, n, "idle") => x = row
  <2>1. n \notin Returned => (Follows(cmd, n, "idle") => Follows(cmd, "linkWrite", n))
    BY ONLY <1>10 DEF Cmds, WritesOf, Writing, Looking, Returned, Follows
  <2>2. x = IF n \in Returned THEN Laid(p, s) ELSE Laid(p, m) BY <1>4, <1>12 DEF Mine
  <2> QED BY <1>6, <1>7, <2>1, <2>2
<1>14. TrueFor(cmd, n, "idle", x, NoLink, row) BY ONLY <1>10, <1>13 DEF TrueFor, Cmds, WritesOf
<1>15. JobFor(n, "idle", NoPatch, row)
  BY ONLY <1>5, <1>10, <1>11 DEF OneFor, JobFor, InReview, Owned, Looking, Writing, Cmds, WritesOf
<1>16. DiaryFor(cmd, n, "idle", NoPatch, row, b)
  <2>1. DiaryFor(cmd, "linkWrite", n, p, old, b) BY <1>5 DEF OneFor
  <2> QED BY ONLY <1>10, <1>11, <2>1 DEF DiaryFor, Shown2, Looking, Writing, Cmds, WritesOf
<1>17. OneFor(cmd, n, "idle", x, NoLink, NoPatch, row, b) BY <1>14, <1>15, <1>16 DEF OneFor
<1>18. OneFor(cmd, n, "idle", x, NoLink, NoPatch, row, b)'
  BY <1>2, <1>17 DEF OneFor, TrueFor, JobFor, DiaryFor
<1>19. \A j \in DOMAIN crmJobs' : crmJobs'[j].customer # 0 BY <1>2 DEF OneInv
<1>20. Paid(RowAt(work[w].pc, work[w].patch, link[k]).job, RowAt(n, NoPatch, row).job) BY <1>1, <1>2, <1>4, <1>11 DEF Paid
<1>21. To(w, n, "idle", x, NoLink, NoPatch, work[w].ext, work[w].got) BY <1>4, <1>12, LinkWriteMoves
<1> QED BY <1>1, <1>2, <1>3, <1>4, <1>9, <1>18, <1>19, <1>20, <1>21, OneMove

LEMMA OneFindJob == ASSUME Alone, BookShape, OneInv, NEW w \in Worker, FindJob(w) PROVE OneInv'
<1>1. work[w].pc = "findJob" /\ ~On(w, "idle") BY DEF FindJob, On
<1>2. UNCHANGED << link, crmJobs, status, switches, failures >> /\ \A a : JobHeld(a) => JobHeld(a)'
  BY DEF FindJob, crm, bookkeeping, memory, JobHeld
<1>3. BookShape' BY FindJobMoves
<1>4. PICK n, m, s, p, row, b : /\ n = work[w].next /\ m = work[w].mine /\ s = work[w].seen
                                /\ p = work[w].patch /\ row = link[Conv(w)] /\ b = Wanted(w)
  OBVIOUS
<1>5. Cmd(w) = "Link" BY <1>1, CmdAt
<1>6. OneFor("Link", "findJob", n, m, s, p, row, b) BY <1>1, <1>4, <1>5 DEF OneInv, OneBy
<1>7. CASE Went(w, "attachAll")
  <2>1. OneFor("Link", "attachAll", n, m, s, p, row, b)
    BY ONLY <1>6, RowNow DEF OneFor, TrueFor, JobFor, DiaryFor, Follows, Shown2, InReview, Owned, Looking, Writing
  <2>2. RowAt("findJob", p, row).job # 0 => RowAt("attachAll", p, row).job # 0 BY RowNow DEF Writing
  <2> QED BY <1>1, <1>2, <1>3, <1>4, <1>5, <1>7, <2>1, <2>2, OneGoes DEF Went
<1>8. ASSUME NEW j \in DOMAIN crmJobs, work[w].mine.job = 0, crmJobs[j].customer = work[w].mine.customer, Wrote(w, [job |-> j], "attachAll")
      PROVE  OneInv'
  <2>1. PICK q : q = [job |-> j] OBVIOUS
  <2>2. DOMAIN q = { "job" } /\ q.job = j BY <2>1
  <2>3. /\ RowAt("linkRead", q, row).customer = row.customer
        /\ RowAt("linkRead", q, row).job = j
        /\ RowAt("linkRead", q, row).appt = row.appt
    BY <1>1, <1>4, <2>2, RowWritten
  <2>4. m = row BY <1>6 DEF OneFor, TrueFor, Follows
  <2>5. row.customer # 0 BY <1>4, <1>8, <2>4 DEF OneInv
  <2>6. j # 0 BY <1>8, RowsAre DEF BookShape, BookTypes
  <2>7. OneFor("Link", "linkRead", "attachAll", m, s, q, row, b)
    BY ONLY <1>6, <2>3, <2>4, <2>5, RowNow DEF OneFor, TrueFor, JobFor, DiaryFor, Follows, Shown2, InReview, Owned, Looking, Writing
  <2>8. RowAt("findJob", p, row).job # 0 => RowAt("linkRead", q, row).job # 0 BY <2>3, <2>6
  <2> QED BY <1>1, <1>2, <1>3, <1>4, <1>5, <1>8, <2>1, <2>7, <2>8, OneGoes DEF Wrote
<1> QED BY <1>7, <1>8, FindJobMoves

\* A booking that is in question comes before the office.
LEMMA OneFindConflict == ASSUME Alone, BookShape, OneInv, NEW w \in Worker, FindConflict(w) PROVE OneInv'
<1>1. work[w].pc = "find" /\ ~On(w, "idle") BY DEF FindConflict, On
<1>2. UNCHANGED << link, crmJobs, status, switches, failures, appts >> BY DEF FindConflict, crm, bookkeeping
<1>3. BookShape' BY FindConflictMoves
<1>4. PICK n, m, s, p, row, b : /\ n = work[w].next /\ m = work[w].mine /\ s = work[w].seen
                                /\ p = work[w].patch /\ row = link[Conv(w)] /\ b = Wanted(w)
  OBVIOUS
<1>5. PICK cmd \in Cmds : cmd = Cmd(w) /\ n \in LookupsOf(cmd) BY <1>1, <1>4, LookingFor DEF Looking
<1>6. OneFor(cmd, "find", n, m, s, p, row, b) BY <1>1, <1>4, <1>5 DEF OneInv, OneBy
<1>7. \A a : JobHeld(a) => JobHeld(a)'
  <2>1. flagged \subseteq flagged' BY FindConflictMoves DEF FindConflict
  <2> QED BY <1>2, <2>1 DEF JobHeld
<1>8. CASE n = "linked" /\ Wrote(w, [customer |-> 0, job |-> 0, booking |-> Wanted(w), review |-> TRUE], "ack")
  <2>1. PICK q : q = [customer |-> 0, job |-> 0, booking |-> b, review |-> TRUE] OBVIOUS
  <2>2. DOMAIN q = { "customer", "job", "booking", "review" } /\ q.customer = 0 /\ q.job = 0 BY <2>1
  <2>3. /\ RowAt("linkRead", q, row).customer = 0
        /\ RowAt("linkRead", q, row).job = 0
        /\ RowAt("linkRead", q, row).appt = row.appt
    BY <1>1, <1>4, <2>2, RowWritten
  <2>4. cmd = "Link" BY ONLY <1>5, <1>8 DEF LookupsOf, Cmds
  <2>5. OneFor(cmd, "linkRead", "ack", m, s, q, row, b)
    BY ONLY <1>6, <2>3, <2>4, RowNow DEF OneFor, TrueFor, JobFor, DiaryFor, Follows, Shown2, InReview, Owned, Looking, Writing
  <2>6. RowAt("find", p, row).job # 0 => RowAt("linkRead", q, row).job # 0
    BY ONLY <1>6, <1>8, <2>3, RowNow DEF OneFor, JobFor, Owned, Looking, Writing
  <2> QED BY <1>1, <1>2, <1>3, <1>4, <1>5, <1>7, <1>8, <2>1, <2>5, <2>6, OneGoes DEF Wrote
<1>9. CASE n = "resolved" /\ Went(w, "review")
  <2>1. cmd = "CreateOrUpdate" BY ONLY <1>5, <1>9 DEF LookupsOf, Cmds
  <2>2. OneFor(cmd, "review", n, m, s, p, row, b)
    BY ONLY <1>6, <1>9, <2>1, RowNow DEF OneFor, TrueFor, JobFor, DiaryFor, Follows, Shown2, InReview, Owned, Looking, Writing
  <2>3. RowAt("find", p, row).job # 0 => RowAt("review", p, row).job # 0 BY RowNow DEF Writing
  <2> QED BY <1>1, <1>2, <1>3, <1>4, <1>5, <1>7, <1>9, <2>2, <2>3, OneGoes DEF Went
<1>10. CASE n = "healed"
  <2>1. cmd = "CreateOrUpdate" BY ONLY <1>5, <1>10 DEF LookupsOf, Cmds
  <2> QED BY ONLY <1>6, <1>10, <2>1 DEF OneFor, DiaryFor, Looking
<1>11. CASE n = "upsert" /\ Went(w, "upsert")
  <2>1. cmd = "Upsert" BY ONLY <1>5, <1>11 DEF LookupsOf, Cmds
  <2>2. OneFor(cmd, "upsert", n, m, s, p, row, b)
    BY ONLY <1>6, <1>11, <2>1, RowNow DEF OneFor, TrueFor, JobFor, DiaryFor, Follows, Shown2, InReview, Owned, Looking, Writing
  <2>3. RowAt("find", p, row).job # 0 => RowAt("upsert", p, row).job # 0 BY RowNow DEF Writing
  <2> QED BY <1>1, <1>2, <1>3, <1>4, <1>5, <1>7, <1>11, <2>2, <2>3, OneGoes DEF Went
<1> QED BY <1>4, <1>8, <1>9, <1>10, <1>11, FindConflictMoves

\* The other booking keeps the conversation; this one comes before the office.
LEMMA OneLookup == ASSUME Alone, BookShape, OneInv, NEW w \in Worker, Lookup(w) PROVE OneInv'
<1>1. work[w].pc = "lookup" /\ ~On(w, "idle") BY DEF Lookup, On
<1>2. UNCHANGED << link, crmJobs, appts, status, switches, failures >> BY DEF Lookup, crm, bookkeeping
<1>3. BookShape' BY LookupMoves
<1>4. PICK n, m, s, p, row, b, k : /\ n = work[w].next /\ m = work[w].mine /\ s = work[w].seen /\ k = Conv(w)
                                   /\ p = work[w].patch /\ row = link[Conv(w)] /\ b = Wanted(w)
  OBVIOUS
<1>5. Cmd(w) = "CreateOrUpdate" BY <1>1, CmdAt
<1>6. OneFor("CreateOrUpdate", "lookup", n, m, s, p, row, b) BY <1>1, <1>4, <1>5 DEF OneInv, OneBy
<1>7. CASE flagged' = flagged \cup {b} /\ Wrote(w, [appt |-> row.appt, booking |-> row.booking, review |-> TRUE], "ack")
  <2>1. JobHeld(b)' /\ \A a : JobHeld(a) => JobHeld(a)' BY <1>2, <1>7 DEF JobHeld
  <2>2. PICK q : q = [appt |-> row.appt, booking |-> row.booking, review |-> TRUE] OBVIOUS
  <2>3. DOMAIN q = { "appt", "booking", "review" } /\ q.appt = row.appt BY <2>2
  <2>4. /\ RowAt("linkRead", q, row).customer = row.customer
        /\ RowAt("linkRead", q, row).job = row.job
        /\ RowAt("linkRead", q, row).appt = row.appt
    BY <1>1, <1>4, <2>3, RowWritten
  <2>5. TrueFor("CreateOrUpdate", "linkRead", "ack", m, s, row) /\ JobFor("linkRead", "ack", q, row)
    BY ONLY <1>6, <2>4, RowNow DEF OneFor, TrueFor, JobFor, Follows, InReview, Owned, Looking, Writing
  <2>6. DiaryFor("CreateOrUpdate", "linkRead", "ack", q, row, b)'
    BY ONLY <2>1 DEF DiaryFor, Shown2, Looking, Writing
  <2>7. OneFor("CreateOrUpdate", "linkRead", "ack", m, s, q, row, b)' BY <2>5, <2>6 DEF OneFor, TrueFor, JobFor
  <2>8. RowAt("lookup", p, row).job = row.job BY RowNow DEF Writing
  <2>9. Wrote(w, q, "ack") BY <1>7, <2>2
  <2> QED BY <1>1, <1>2, <1>3, <1>4, <1>5, <2>1, <2>4, <2>7, <2>8, <2>9, OneStands DEF Wrote
<1>8. CASE flagged' = flagged /\ To(w, "ensure", n, m, s, p, b \in DOMAIN appts, work[w].got)
  <2>1. \A a : JobHeld(a) => JobHeld(a)' BY <1>2, <1>8 DEF JobHeld
  <2>2. OneFor("CreateOrUpdate", "ensure", n, m, s, p, row, b)
    BY ONLY <1>6, RowNow DEF OneFor, TrueFor, JobFor, DiaryFor, Follows, Shown2, InReview, Owned, Looking, Writing
  <2>3. RowAt("lookup", p, row).job # 0 => RowAt("ensure", p, row).job # 0 BY RowNow DEF Writing
  <2> QED BY <1>1, <1>2, <1>3, <1>4, <1>5, <1>8, <2>1, <2>2, <2>3, OneGoes
<1> QED BY <1>4, <1>7, <1>8, LookupMoves DEF Lookup

\* A conversation that is turned over loses its job, which is counted.
LEMMA OneNewLead == ASSUME Alone, BookShape, OneInv, NEW w \in Worker, NewLead(w) PROVE OneInv'
<1>1. work[w].pc = "newLead" /\ ~On(w, "idle") BY DEF NewLead, On
<1>2. UNCHANGED << link, crmJobs, appts, status, failures, flagged >> BY DEF NewLead, bookkeeping
<1>3. BookShape' /\ \A a : JobHeld(a) => JobHeld(a)' BY <1>2, NewLeadMoves DEF JobHeld
<1>4. PICK n, m, s, p, row, b, k : /\ n = work[w].next /\ m = work[w].mine /\ s = work[w].seen /\ k = Conv(w)
                                   /\ p = work[w].patch /\ row = link[Conv(w)] /\ b = Wanted(w)
  OBVIOUS
<1>5. Cmd(w) = "CreateOrUpdate" BY <1>1, CmdAt
<1>6. OneFor("CreateOrUpdate", "newLead", n, m, s, p, row, b) BY <1>1, <1>4, <1>5 DEF OneInv, OneBy
<1>7. CASE switches' = switches + 1 /\ Wrote(w, Turned(w), "status")
  <2>1. PICK q : q = Turned(w) OBVIOUS
  <2>2. DOMAIN q = { "lead", "booking", "review", "customer", "job", "appt" } /\ q.customer = 0 /\ q.job = 0 /\ q.appt = Nothing
    BY <2>1 DEF Turned
  <2>3. /\ RowAt("linkRead", q, row).customer = 0
        /\ RowAt("linkRead", q, row).job = 0
        /\ RowAt("linkRead", q, row).appt = Nothing
    BY <1>1, <1>4, <2>2, RowWritten
  <2>4. OneFor("CreateOrUpdate", "linkRead", "status", m, s, q, row, b)
    BY ONLY <1>6, <2>3, RowNow DEF OneFor, TrueFor, JobFor, DiaryFor, Follows, Shown2, InReview, Owned, Looking, Writing
  <2>5. OneFor("CreateOrUpdate", "linkRead", "status", m, s, q, row, b)'
    BY <1>3, <2>4 DEF OneFor, TrueFor, JobFor, DiaryFor, Shown2, Looking, Writing
  <2>6. \A old, new : Paid(old, new)
    <3>1. PICK x, y, f : x = switches /\ y = switches' /\ f = failures OBVIOUS
    <3>2. x \in Nat /\ f \in Nat /\ y = x + 1 BY <1>7, <3>1 DEF BookShape, BookTypes
    <3>3. y + f = x + f + 1 BY ONLY <3>2
    <3> QED BY <1>2, <3>1, <3>3 DEF Paid
  <2>7. \A j \in DOMAIN crmJobs' : crmJobs'[j].customer # 0 BY <1>2 DEF OneInv
  <2>8. Wrote(w, q, "status") BY <1>7, <2>1
  <2> QED BY <1>1, <1>2, <1>3, <1>4, <1>5, <2>5, <2>6, <2>7, <2>8, OneMove DEF Wrote
<1>8. CASE switches' = switches /\ Wrote(w, NewRow(w), "status")
  <2>1. PICK q : q = NewRow(w) OBVIOUS
  <2>2. DOMAIN q = { "lead", "booking", "review" } BY <2>1 DEF NewRow
  <2>3. /\ RowAt("linkRead", q, row).customer = row.customer
        /\ RowAt("linkRead", q, row).job = row.job
        /\ RowAt("linkRead", q, row).appt = row.appt
    BY <1>1, <1>4, <2>2, RowWritten
  <2>4. OneFor("CreateOrUpdate", "linkRead", "status", m, s, q, row, b)
    BY ONLY <1>6, <2>3, RowNow DEF OneFor, TrueFor, JobFor, DiaryFor, Follows, Shown2, InReview, Owned, Looking, Writing
  <2>5. RowAt("newLead", p, row).job # 0 => RowAt("linkRead", q, row).job # 0 BY <2>3, RowNow DEF Writing
  <2>6. Wrote(w, q, "status") BY <1>8, <2>1
  <2> QED BY <1>1, <1>2, <1>3, <1>4, <1>5, <1>8, <2>4, <2>5, <2>6, OneGoes DEF Wrote
<1> QED BY <1>7, <1>8, NewLeadMoves

LEMMA OneStatus == ASSUME Alone, BookShape, OneInv, NEW w \in Worker, Status(w) PROVE OneInv'
<1>1. work[w].pc = "status" /\ ~On(w, "idle") BY DEF Status, On
<1>2. UNCHANGED << link, crmJobs, status, switches, failures >> /\ \A a : JobHeld(a) => JobHeld(a)'
  BY DEF Status, bookkeeping, memory, JobHeld
<1>3. BookShape' BY StatusMoves
<1>4. PICK n, m, s, p, g, row, b : /\ n = work[w].next /\ m = work[w].mine /\ s = work[w].seen /\ g = work[w].got
                                   /\ p = work[w].patch /\ row = link[Conv(w)] /\ b = Wanted(w)
  OBVIOUS
<1>5. Cmd(w) = "CreateOrUpdate" BY <1>1, CmdAt
<1>6. OneFor("CreateOrUpdate", "status", n, m, s, p, row, b) BY <1>1, <1>4, <1>5 DEF OneInv, OneBy
<1>7. CASE Wrote(w, [job |-> g, customer |-> crmJobs[g].customer, review |-> FALSE], "resolve") /\ g \in DOMAIN crmJobs
  <2>1. PICK c : c = crmJobs[g].customer OBVIOUS
  <2>2. PICK q : q = [job |-> g, customer |-> c, review |-> FALSE] OBVIOUS
  <2>3. DOMAIN q = { "job", "customer", "review" } /\ q.job = g /\ q.customer = c BY <2>2
  <2>4. /\ RowAt("linkRead", q, row).customer = c
        /\ RowAt("linkRead", q, row).job = g
        /\ RowAt("linkRead", q, row).appt = row.appt
    BY <1>1, <1>4, <2>3, RowWritten
  <2>5. c # 0 BY <1>7, <2>1 DEF OneInv
  <2>6. g # 0 BY <1>7, RowsAre DEF BookShape, BookTypes
  <2>7. OneFor("CreateOrUpdate", "linkRead", "resolve", m, s, q, row, b)
    BY ONLY <1>6, <2>4, <2>5, RowNow DEF OneFor, TrueFor, JobFor, DiaryFor, Follows, Shown2, InReview, Owned, Looking, Writing
  <2>8. RowAt("status", p, row).job # 0 => RowAt("linkRead", q, row).job # 0 BY <2>4, <2>6
  <2>9. Wrote(w, q, "resolve") BY <1>7, <2>1, <2>2
  <2> QED BY <1>1, <1>2, <1>3, <1>4, <1>5, <2>7, <2>8, <2>9, OneGoes DEF Wrote
<1>8. CASE Went(w, "resolve")
  <2>1. OneFor("CreateOrUpdate", "resolve", n, m, s, p, row, b)
    BY ONLY <1>6, RowNow DEF OneFor, TrueFor, JobFor, DiaryFor, Follows, Shown2, InReview, Owned, Looking, Writing
  <2>2. RowAt("status", p, row).job # 0 => RowAt("resolve", p, row).job # 0 BY RowNow DEF Writing
  <2> QED BY <1>1, <1>2, <1>3, <1>4, <1>5, <1>8, <2>1, <2>2, OneGoes DEF Went
<1> QED BY <1>4, <1>7, <1>8, StatusMoves

LEMMA OneReview == ASSUME Alone, BookShape, OneInv, NEW w \in Worker, Review(w) PROVE OneInv'
<1>1. work[w].pc = "review" /\ ~On(w, "idle") BY DEF Review, On
<1>2. UNCHANGED << link, crmJobs, status, switches, failures >> BY DEF Review, bookkeeping
<1>3. BookShape' BY ReviewMoves
<1>4. PICK n, m, s, p, row, b, k : /\ n = work[w].next /\ m = work[w].mine /\ s = work[w].seen /\ k = Conv(w)
                                   /\ p = work[w].patch /\ row = link[Conv(w)] /\ b = Wanted(w)
  OBVIOUS
<1>5. Cmd(w) = "CreateOrUpdate" BY <1>1, CmdAt
<1>6. OneFor("CreateOrUpdate", "review", n, m, s, p, row, b) BY <1>1, <1>4, <1>5 DEF OneInv, OneBy
<1>7. flagged' = flagged \cup {b} BY <1>4, ReviewMoves
<1>8. JobHeld(b)' /\ \A a : JobHeld(a) => JobHeld(a)'
  <2>1. DOMAIN appts \subseteq DOMAIN appts' BY ReviewMoves DEF Grown
  <2>2. \A a \in DOMAIN appts \ {b} : appts'[a] = appts[a]
    <3>1. RowTypes BY DEF BookShape, BookTypes
    <3>2. CASE work[w].ext BY <1>4, <3>1, <3>2 DEF Review, RowTypes
    <3>3. CASE ~work[w].ext BY <1>4, <3>3 DEF Review, InsertAppointment, Put
    <3> QED BY <3>2, <3>3
  <2> QED BY <1>7, <2>1, <2>2 DEF JobHeld
<1>9. CASE Went(w, "review2")
  <2>1. TrueFor("CreateOrUpdate", "review2", n, m, s, row) /\ JobFor("review2", n, p, row)
    BY ONLY <1>6, RowNow DEF OneFor, TrueFor, JobFor, Follows, InReview, Owned, Looking, Writing
  <2>2. DiaryFor("CreateOrUpdate", "review2", n, p, row, b)' BY ONLY <1>8 DEF DiaryFor, Shown2, Looking, Writing
  <2>3. OneFor("CreateOrUpdate", "review2", n, m, s, p, row, b)' BY <2>1, <2>2 DEF OneFor, TrueFor, JobFor
  <2>4. RowAt("review", p, row).job # 0 => RowAt("review2", p, row).job # 0 BY RowNow DEF Writing
  <2> QED BY <1>1, <1>2, <1>3, <1>4, <1>5, <1>8, <1>9, <2>3, <2>4, OneStands DEF Went
<1>10. CASE Wrote(w, [appt |-> b], "review2")
  <2>1. PICK q : q = [appt |-> b] OBVIOUS
  <2>2. DOMAIN q = { "appt" } /\ q.appt = b BY <2>1
  <2>3. /\ RowAt("linkRead", q, row).customer = row.customer
        /\ RowAt("linkRead", q, row).job = row.job
        /\ RowAt("linkRead", q, row).appt = b
    BY <1>1, <1>4, <2>2, RowWritten
  <2>4. TrueFor("CreateOrUpdate", "linkRead", "review2", m, s, row) /\ JobFor("linkRead", "review2", q, row)
    BY ONLY <1>6, <2>3, RowNow DEF OneFor, TrueFor, JobFor, Follows, InReview, Owned, Looking, Writing
  <2>5. DiaryFor("CreateOrUpdate", "linkRead", "review2", q, row, b)' BY ONLY <1>8 DEF DiaryFor, Shown2, Looking, Writing
  <2>6. OneFor("CreateOrUpdate", "linkRead", "review2", m, s, q, row, b)' BY <2>4, <2>5 DEF OneFor, TrueFor, JobFor
  <2>7. RowAt("review", p, row).job # 0 => RowAt("linkRead", q, row).job # 0 BY <2>3, RowNow DEF Writing
  <2>8. Wrote(w, q, "review2") BY <1>10, <2>1
  <2> QED BY <1>1, <1>2, <1>3, <1>4, <1>5, <1>8, <2>6, <2>7, <2>8, OneStands DEF Wrote
<1> QED BY <1>4, <1>9, <1>10, ReviewMoves

LEMMA OneBook == ASSUME Alone, BookShape, OneInv, HeldInv, NEW w \in Worker, Book(w) PROVE OneInv'
<1>1. work[w].pc = "book" /\ ~On(w, "idle") BY DEF Book, On
<1>2. UNCHANGED << link, crmJobs, status, switches, failures >> BY DEF Book, bookkeeping
<1>3. BookShape' BY BookMoves
<1>4. PICK n, m, s, p, row, b, k : /\ n = work[w].next /\ m = work[w].mine /\ s = work[w].seen /\ k = Conv(w)
                                   /\ p = work[w].patch /\ row = link[Conv(w)] /\ b = Wanted(w)
  OBVIOUS
<1>5. Cmd(w) = "CreateOrUpdate" BY <1>1, CmdAt
<1>6. OneFor("CreateOrUpdate", "book", n, m, s, p, row, b) BY <1>1, <1>4, <1>5 DEF OneInv, OneBy
<1>7. m = row /\ row.customer # 0
  <2>1. m = row BY <1>6 DEF OneFor, TrueFor, Follows, Writing
  <2>2. HeldBy(w) BY <1>1 DEF HeldInv
  <2> QED BY <1>1, <1>4, <1>5, <2>1, <2>2 DEF HeldBy, HeldFor
<1>8. CASE appts' = appts /\ flagged' = flagged \cup {b} /\ Wrote(w, [appt |-> m.appt, booking |-> m.booking, review |-> TRUE], "ack")
  <2>1. JobHeld(b)' /\ \A a : JobHeld(a) => JobHeld(a)' BY <1>8 DEF JobHeld
  <2>2. PICK q : q = [appt |-> m.appt, booking |-> m.booking, review |-> TRUE] OBVIOUS
  <2>3. DOMAIN q = { "appt", "booking", "review" } /\ q.appt = m.appt BY <2>2
  <2>4. /\ RowAt("linkRead", q, row).customer = row.customer
        /\ RowAt("linkRead", q, row).job = row.job
        /\ RowAt("linkRead", q, row).appt = m.appt
    BY <1>1, <1>4, <2>3, RowWritten
  <2>5. TrueFor("CreateOrUpdate", "linkRead", "ack", m, s, row) /\ JobFor("linkRead", "ack", q, row)
    BY ONLY <1>6, <2>4, RowNow DEF OneFor, TrueFor, JobFor, Follows, InReview, Owned, Looking, Writing
  <2>6. DiaryFor("CreateOrUpdate", "linkRead", "ack", q, row, b)' BY ONLY <2>1 DEF DiaryFor, Shown2, Looking, Writing
  <2>7. OneFor("CreateOrUpdate", "linkRead", "ack", m, s, q, row, b)' BY <2>5, <2>6 DEF OneFor, TrueFor, JobFor
  <2>8. RowAt("book", p, row).job = row.job BY RowNow DEF Writing
  <2>9. Wrote(w, q, "ack") BY <1>8, <2>2
  <2> QED BY <1>1, <1>2, <1>3, <1>4, <1>5, <2>1, <2>4, <2>7, <2>8, <2>9, OneStands DEF Wrote
<1>9. CASE /\ ~Duplicate(w, work[w].ext, m) /\ flagged' = flagged
           /\ Wrote(w, [appt |-> Wanted(w), booking |-> Wanted(w), review |-> FALSE], "refresh")
  <2>1. \A a : JobHeld(a) => JobHeld(a)'
    <3>1. RowTypes BY DEF BookShape, BookTypes
    <3>2. m \in Row BY <1>4, TaskHas DEF BookShape
    <3>3. CASE ~work[w].ext
      <4>1. DOMAIN appts \subseteq DOMAIN appts' /\ \A a \in DOMAIN appts : appts'[a] = appts[a]
        BY <1>4, <1>9, <3>3 DEF Book, InsertAppointment, Put
      <4> QED BY <1>9, <4>1 DEF JobHeld
    <3>4. CASE work[w].ext
      <4>1. b \in DOMAIN appts /\ appts[b] \in Appt BY <1>1, <1>4, <3>1, <3>4, AtStep DEF GotFor, GotBy, RowTypes
      <4> DEFINE d == [Attached(appts[b], m) EXCEPT !.state = IF Event(w).kind = "completed" THEN "completed" ELSE "scheduled"]
      <4>2. appts' = [appts EXCEPT ![b] = d] BY <1>4, <1>9, <3>1, <3>4 DEF Book, RowTypes
      <4>3. d.job = IF m.job = 0 THEN appts[b].job ELSE m.job
        <5>1. Attached(appts[b], m) \in Appt /\ Attached(appts[b], m).job = IF m.job = 0 THEN appts[b].job ELSE m.job
          BY <3>2, <4>1, AttachedIs
        <5> QED BY <5>1 DEF Appt
      <4> HIDE DEF d
      <4> QED BY <1>9, <3>1, <4>1, <4>2, <4>3, JobStays
    <3> QED BY <3>3, <3>4
  <2>2. PICK q : q = [appt |-> b, booking |-> b, review |-> FALSE] OBVIOUS
  <2>3. DOMAIN q = { "appt", "booking", "review" } /\ q.appt = b BY <2>2
  <2>4. /\ RowAt("linkRead", q, row).customer = row.customer
        /\ RowAt("linkRead", q, row).job = row.job
        /\ RowAt("linkRead", q, row).appt = b
    BY <1>1, <1>4, <2>3, RowWritten
  <2>5. OneFor("CreateOrUpdate", "linkRead", "refresh", m, s, q, row, b)
    BY ONLY <1>6, <1>7, <2>4, RowNow DEF OneFor, TrueFor, JobFor, DiaryFor, Follows, Shown2, InReview, Owned, Looking, Writing
  <2>6. RowAt("book", p, row).job # 0 => RowAt("linkRead", q, row).job # 0 BY <2>4, RowNow DEF Writing
  <2>7. Wrote(w, q, "refresh") BY <1>4, <1>9, <2>2
  <2> QED BY <1>1, <1>2, <1>3, <1>4, <1>5, <2>1, <2>5, <2>6, <2>7, OneGoes DEF Wrote
<1> QED BY <1>4, <1>8, <1>9, BookMoves

\* A job is made for a conversation that has none, for the customer it has.
LEMMA OneMakeJob == ASSUME Alone, BookShape, OneInv, NEW w \in Worker, MakeJob(w) PROVE OneInv'
<1>1. work[w].pc = "job" /\ ~On(w, "idle") BY DEF MakeJob, On
<1>2. UNCHANGED << link, appts, status, switches, failures, flagged >> BY DEF MakeJob, bookkeeping, memory
<1>3. BookShape' /\ \A a : JobHeld(a) => JobHeld(a)' BY <1>2, MakeJobMoves DEF JobHeld
<1>4. PICK n, m, s, p, row, b, k : /\ n = work[w].next /\ m = work[w].mine /\ s = work[w].seen /\ k = Conv(w)
                                   /\ p = work[w].patch /\ row = link[Conv(w)] /\ b = Wanted(w)
  OBVIOUS
<1>5. Cmd(w) = "CreateOrUpdate" BY <1>1, CmdAt
<1>6. OneFor("CreateOrUpdate", "job", n, m, s, p, row, b) BY <1>1, <1>4, <1>5 DEF OneInv, OneBy
<1>7. m = row /\ row.customer # 0 /\ row.appt = b
  BY ONLY <1>6, RowNow DEF OneFor, TrueFor, Follows, DiaryFor, Shown2, Writing
<1>8. CASE m.job # 0 /\ crmJobs' = crmJobs /\ Wrote(w, [review |-> FALSE], "attachJob")
  <2>1. PICK q : q = [review |-> FALSE] OBVIOUS
  <2>2. DOMAIN q = { "review" } BY <2>1
  <2>3. /\ RowAt("linkRead", q, row).customer = row.customer
        /\ RowAt("linkRead", q, row).job = row.job
        /\ RowAt("linkRead", q, row).appt = row.appt
    BY <1>1, <1>4, <2>2, RowWritten
  <2>4. OneFor("CreateOrUpdate", "linkRead", "attachJob", m, s, q, row, b)
    BY ONLY <1>6, <1>7, <1>8, <2>3, RowNow DEF OneFor, TrueFor, JobFor, DiaryFor, Follows, Shown2, InReview, Owned, Looking, Writing
  <2>5. RowAt("job", p, row).job # 0 => RowAt("linkRead", q, row).job # 0 BY <2>3, RowNow DEF Writing
  <2>6. Wrote(w, q, "attachJob") BY <1>8, <2>1
  <2> QED BY <1>1, <1>2, <1>3, <1>4, <1>5, <1>8, <2>4, <2>5, <2>6, OneGoes DEF Wrote
<1>9. CASE /\ m.job = 0 /\ m.customer # 0 /\ crmJobs' = Append(crmJobs, [customer |-> m.customer, lead |-> m.lead])
           /\ Wrote(w, [job |-> Len(crmJobs) + 1, review |-> FALSE], "attachJob")
  <2>1. crmJobs \in Seq(JobRow) /\ Len(crmJobs) \in Nat BY RowsAre DEF BookShape, BookTypes, RowTypes
  <2>2. PICK j : j = Len(crmJobs) + 1 OBVIOUS
  <2>3. PICK q : q = [job |-> j, review |-> FALSE] OBVIOUS
  <2>4. DOMAIN q = { "job", "review" } /\ q.job = j BY <2>3
  <2>5. /\ RowAt("linkRead", q, row).customer = row.customer
        /\ RowAt("linkRead", q, row).job = j
        /\ RowAt("linkRead", q, row).appt = row.appt
    BY <1>1, <1>4, <2>4, RowWritten
  <2>6. j # 0 BY <2>1, <2>2
  <2>7. OneFor("CreateOrUpdate", "linkRead", "attachJob", m, s, q, row, b)
    BY ONLY <1>6, <1>7, <2>5, <2>6, RowNow DEF OneFor, TrueFor, JobFor, DiaryFor, Follows, Shown2, InReview, Owned, Looking, Writing
  <2>8. OneFor("CreateOrUpdate", "linkRead", "attachJob", m, s, q, row, b)'
    BY <1>3, <2>7 DEF OneFor, TrueFor, JobFor, DiaryFor, Shown2, Looking, Writing
  <2>9. PICK r : r = [customer |-> m.customer, lead |-> m.lead] OBVIOUS
  <2>10. r.customer # 0 /\ crmJobs' = Append(crmJobs, r) BY <1>9, <2>9
  <2>11. Len(crmJobs') = Len(crmJobs) + 1 /\ \A i \in DOMAIN crmJobs' : crmJobs'[i] = IF i \in DOMAIN crmJobs THEN crmJobs[i] ELSE r
    BY <2>1, <2>10
  <2>12. \A i \in DOMAIN crmJobs' : crmJobs'[i].customer # 0 BY <2>10, <2>11 DEF OneInv
  <2>13. RowAt("job", p, row).job = 0 BY <1>7, <1>9, RowNow DEF Writing
  <2>14. Paid(RowAt(work[w].pc, work[w].patch, link[k]).job, RowAt("linkRead", q, row).job)
    BY <1>1, <1>2, <1>4, <2>5, <2>6, <2>11, <2>13 DEF Paid
  <2>15. Wrote(w, q, "attachJob") BY <1>9, <2>2, <2>3
  <2> QED BY <1>1, <1>2, <1>3, <1>4, <1>5, <2>8, <2>12, <2>14, <2>15, OneMove DEF Wrote
<1>10. ~(m.job = 0 /\ m.customer = 0) BY <1>7
<1> QED BY <1>4, <1>8, <1>9, <1>10, MakeJobMoves

\* The appointment gets the job the link has.
LEMMA OneAttachJob == ASSUME Alone, BookShape, OneInv, NEW w \in Worker, AttachJob(w) PROVE OneInv'
<1>1. work[w].pc = "attachJob" /\ ~On(w, "idle") BY DEF AttachJob, On
<1>2. UNCHANGED << link, crmJobs, status, switches, failures, flagged >> BY DEF AttachJob, bookkeeping
<1>3. BookShape' /\ Went(w, "ack") BY AttachJobMoves
<1>4. PICK n, m, s, p, row, b, k : /\ n = work[w].next /\ m = work[w].mine /\ s = work[w].seen /\ k = Conv(w)
                                   /\ p = work[w].patch /\ row = link[Conv(w)] /\ b = Wanted(w)
  OBVIOUS
<1>5. Cmd(w) = "CreateOrUpdate" BY <1>1, CmdAt
<1>6. OneFor("CreateOrUpdate", "attachJob", n, m, s, p, row, b) BY <1>1, <1>4, <1>5 DEF OneInv, OneBy
<1>7. m = row /\ m.job # 0 /\ m.appt = b
  BY ONLY <1>6, RowNow DEF OneFor, TrueFor, Follows, DiaryFor, Shown2, Writing
<1>8. \A a : JobHeld(a) => JobHeld(a)' BY <1>4, <1>7, JobsInDiary
<1>9. JobHeld(b)'
  <2>1. RowTypes BY DEF BookShape, BookTypes
  <2>2. b # Nothing
    <3>1. Event(w) \in Events /\ Busy(w) BY <1>1, AtStep DEF Busy
    <3>2. Event(w).kind \in { "confirmed", "completed", "recovered" } BY <1>5, <3>1, RecoveryIs
    <3> QED BY <1>4, <3>1, <3>2, BookingsAssumption DEF Wanted
  <2>3. b \in DOMAIN appts
    <3>1. m.appt \in ApptIds BY <1>4, TaskHas DEF BookShape
    <3> QED BY <1>7, <2>2, <3>1 DEF ApptIds
  <2>4. appts[b] \in Appt BY <2>1, <2>3 DEF RowTypes
  <2> DEFINE d == [appts[b] EXCEPT !.job = m.job]
  <2>5. appts' = [appts EXCEPT ![b] = d] BY <1>4, <1>7, <2>2 DEF AttachJob
  <2>6. d.job # 0 BY <1>7, <2>4 DEF Appt
  <2> HIDE DEF d
  <2> QED BY <2>1, <2>3, <2>5, <2>6 DEF JobHeld, RowTypes
<1>10. TrueFor("CreateOrUpdate", "ack", n, m, s, row) /\ JobFor("ack", n, p, row)
  BY ONLY <1>6, RowNow DEF OneFor, TrueFor, JobFor, Follows, InReview, Owned, Looking, Writing
<1>11. DiaryFor("CreateOrUpdate", "ack", n, p, row, b)' BY ONLY <1>9 DEF DiaryFor, Shown2, Looking, Writing
<1>12. OneFor("CreateOrUpdate", "ack", n, m, s, p, row, b)' BY <1>10, <1>11 DEF OneFor, TrueFor, JobFor
<1>13. RowAt("attachJob", p, row).job # 0 => RowAt("ack", p, row).job # 0 BY RowNow DEF Writing
<1> QED BY <1>1, <1>2, <1>3, <1>4, <1>5, <1>8, <1>12, <1>13, OneStands DEF Went

-----------------------------------------------------------------------------
(* Between commands, and every step.                                       *)

LEMMA OneFailed == ASSUME Alone, BookShape, OneInv, NEW w \in Worker, FailCommand(w) \/ Refused(w) PROVE OneInv'
<1>1. /\ work' = [work EXCEPT ![w] = Resting] /\ status' = [status EXCEPT ![Event(w)] = "failed"]
      /\ UNCHANGED << crm, link, flagged, switches >>
  BY DEF FailCommand, Refused, memory
<1>2. BookShape' BY FailedMoves
<1>3. \A e \in Events : status'[e] = "done" => status[e] = "done" BY <1>1 DEF BookShape, BookTypes
<1>4. Starting(work'[w].pc, work'[w].next) BY <1>1, IdleIs
<1>5. (failures' = failures + 1 /\ ~On(w, "idle")) \/ (failures' = failures /\ work[w].pc \notin Writing)
  BY DEF FailCommand, Refused, On, Writing
<1> QED BY <1>1, <1>2, <1>3, <1>4, <1>5, OneBetween

LEMMA OneProceeds == ASSUME Alone, BookShape, OneInv, NEW w \in Worker, Acknowledge(w) \/ Defer(w) PROVE OneInv'
<1>1. ~On(w, "idle") /\ Proceed(w) /\ UNCHANGED << crm, link, flagged, switches >> BY DEF Acknowledge, Defer, On
<1>2. Busy(w) /\ Event(w) \in Events BY <1>1, AtStep DEF Busy
<1>3. \A e \in Events : e.kind = "confirmed" /\ status'[e] = "done" => status[e] = "done" \/ JobHeld(e.booking)
  <2> SUFFICES ASSUME NEW e \in Events, e.kind = "confirmed", status'[e] = "done", status[e] # "done" PROVE JobHeld(e.booking)
    OBVIOUS
  <2>1. e = Event(w) /\ work[w].step = Len(Commands(e)) BY <1>1, <1>2, ProceedIs DEF BookShape, BookTypes
  <2>2. Acknowledge(w) BY <2>1 DEF Defer, IsNonFatal
  <2>3. work[w].pc = "ack" BY <2>2 DEF Acknowledge, On
  <2>4. Cmd(w) = "CreateOrUpdate" BY <2>1, CommandsAre DEF Cmd
  <2>5. OneBy(w) /\ Wanted(w) = e.booking BY <1>1, <2>1 DEF OneInv, Wanted
  <2> QED BY <2>3, <2>4, <2>5 DEF OneBy, OneFor, DiaryFor
<1>4. BookShape' BY AckMoves, DeferMoves
<1>5. (failures' = failures + 1 /\ ~On(w, "idle")) \/ (failures' = failures /\ work[w].pc \notin Writing)
  BY DEF Acknowledge, Defer, On, Writing
<1>6. Starting(work'[w].pc, work'[w].next) BY <1>1, ProceedIs
<1> QED BY <1>1, <1>3, <1>4, <1>5, <1>6, OneBetween

LEMMA OneTakenUp == ASSUME Alone, BookShape, OneInv, NEW w \in Worker, NEW e \in Events, BeginEvent(w, e) \/ Recover(w, e) PROVE OneInv'
<1>1. UNCHANGED << crm, link, flagged, switches, failures >> /\ status' = [status EXCEPT ![e] = "running"] /\ work[w].pc = "idle"
  BY DEF BeginEvent, Recover, On
<1>2. \A k \in Events : status'[k] = "done" => status[k] = "done" BY <1>1 DEF BookShape, BookTypes
<1>3. BookShape' BY BeginMoves
<1>4. work[w].pc \notin Writing BY <1>1 DEF Writing
<1>5. Starting(work'[w].pc, work'[w].next) BY TakenUp
<1> QED BY <1>1, <1>2, <1>3, <1>4, <1>5, OneBetween

LEMMA OneStays == ASSUME Alone, BookShape, HeldInv, OneInv, BookingNext PROVE OneInv'
<1>1. PICK w \in Worker : CommandStep(w) \/ FailCommand(w) \/ Defer(w) \/ \E e \in Events : BeginEvent(w, e) \/ Recover(w, e)
  BY DEF BookingNext
<1>2. CASE Customers(w)
  BY <1>2, OneFindNone, OneFindOne, OneFindConflict, OneInsertCustomer, OneUpdateCustomer, OneMatched DEF Customers
<1>3. CASE Linking(w)
  BY <1>3, OneLinkRead, OneLinkWrite, OneLinkStart, OneLinked, OneFindJob, OneAttachAll DEF Linking
<1>4. CASE Qualifying(w) BY <1>4, OneLeadStart, OneLeadInsert, OneLeadAttach DEF Qualifying
<1>5. CASE Ensuring(w)
  BY <1>5, OneLookup, OneEnsure, OneNewLead, OneStatus, OneResolve, OneResolved, OneAttachLead DEF Ensuring
<1>6. CASE Booked(w)
  BY <1>6, OneReview, OneReview2, OneBook, OneFailed, OneRefresh, OneHealed, OneReread, OneAttach, OneMakeJob, OneAttachJob DEF Booked
<1>7. CASE Calendar(w) BY <1>7, OneUpsert, OneCancel DEF Calendar
<1>8. CASE Acknowledge(w) \/ Defer(w) BY <1>8, OneProceeds
<1>9. CASE FailCommand(w) BY <1>9, OneFailed
<1>10. CASE \E e \in Events : BeginEvent(w, e) \/ Recover(w, e) BY <1>10, OneTakenUp
<1> QED BY <1>1, <1>2, <1>3, <1>4, <1>5, <1>6, <1>7, <1>8, <1>9, <1>10 DEF CommandStep

LEMMA OneStutters == ASSUME OneInv, UNCHANGED bookingVars PROVE OneInv'
<1>1. UNCHANGED << crmJobs, appts, link, status, work, flagged, switches, failures >> BY DEF bookingVars
<1>2. \A b : JobHeld(b) <=> JobHeld(b)' BY <1>1 DEF JobHeld
<1>3. ASSUME NEW w \in Worker, ~On(w, "idle")' PROVE OneBy(w)'
  <2>1. OneBy(w) BY <1>1, <1>3 DEF OneInv, On
  <2>2. PICK cmd, pc, next, mine, seen, patch, row, b :
          /\ cmd = Cmd(w) /\ pc = work[w].pc /\ next = work[w].next /\ mine = work[w].mine /\ seen = work[w].seen
          /\ patch = work[w].patch /\ row = link[Conv(w)] /\ b = Wanted(w)
    OBVIOUS
  <2>3. OneFor(cmd, pc, next, mine, seen, patch, row, b) BY <2>1, <2>2 DEF OneBy
  <2>4. OneFor(cmd, pc, next, mine, seen, patch, row, b)' BY <1>2, <2>3 DEF OneFor, TrueFor, JobFor, DiaryFor
  <2>5. /\ Cmd(w)' = cmd /\ Wanted(w)' = b /\ link'[Conv(w)'] = row
        /\ work'[w].pc = pc /\ work'[w].next = next /\ work'[w].mine = mine /\ work'[w].seen = seen /\ work'[w].patch = patch
    BY <1>1, <2>2 DEF Cmd, Wanted, Conv, Event
  <2> QED BY <2>4, <2>5 DEF OneBy
<1>4. Jobbed' = Jobbed BY <1>1 DEF Jobbed, Now, Conv, Event
<1> QED BY <1>1, <1>2, <1>3, <1>4 DEF OneInv

LEMMA OneAtFirst == ASSUME BookingInit PROVE OneInv
<1>1. \A w \in Worker : On(w, "idle") BY DEF BookingInit, On, Resting
<1>2. \A c \in Conversation : Owned(link[c]) BY DEF BookingInit, Owned, NoLink
<1>3. crmJobs = << >> /\ switches = 0 /\ failures = 0 BY DEF BookingInit
<1>4. \A e \in Events : status[e] # "done" BY DEF BookingInit
<1>5. Cardinality(Jobbed) \in Nat
  <2>1. IsFiniteSet(Jobbed) BY BookingsAssumption, FS_Subset DEF Jobbed
  <2> QED BY <2>1, FS_CardinalityType
<1>6. DOMAIN crmJobs = {} /\ Len(crmJobs) = 0 BY <1>3
<1>7. Len(crmJobs) <= Cardinality(Jobbed) + switches + failures BY <1>3, <1>5, <1>6
<1> QED BY <1>1, <1>2, <1>4, <1>6, <1>7 DEF OneInv

LEMMA OneAlways == ASSUME Alone PROVE BookingSpec => [](BookShape /\ HeldInv /\ OneInv)
<1>1. BookingInit => BookShape /\ HeldInv /\ OneInv BY ShapeAtFirst, HeldAtFirst, OneAtFirst
<1>2. BookShape /\ HeldInv /\ OneInv /\ [BookingNext]_bookingVars => (BookShape /\ HeldInv /\ OneInv)'
  <2>1. ASSUME BookShape, HeldInv, OneInv, BookingNext PROVE (BookShape /\ HeldInv /\ OneInv)'
    BY <2>1, ShapeStays, HeldStays, OneStays
  <2>2. ASSUME BookShape, HeldInv, OneInv, UNCHANGED bookingVars PROVE (BookShape /\ HeldInv /\ OneInv)'
    BY <2>2, ShapeStutters, HeldStutters, OneStutters
  <2> QED BY <2>1, <2>2
<1> QED BY <1>1, <1>2, PTL DEF BookingSpec

\* With one worker a conversation has one job, one more whenever it is turned over to
\* another booking, and one more for each command that dies between the job and the link.
THEOREM JobsCorrect == ASSUME NEW o, Worker = {o} PROVE BookingSpec => []JobsBounded
<1>0. Alone BY DEF Alone
<1>1. BookShape /\ OneInv => JobsBounded
  <2> SUFFICES ASSUME BookShape, OneInv PROVE JobsBounded OBVIOUS
  <2>1. IsFiniteSet(Conversation) /\ Jobbed \subseteq Conversation BY BookingsAssumption DEF Jobbed
  <2>2. /\ Cardinality(Jobbed) <= Cardinality(Conversation) /\ Cardinality(Jobbed) \in Nat /\ Cardinality(Conversation) \in Nat
    BY <2>1, FS_Subset, FS_CardinalityType
  <2>3. PICK j, m, n, s, f : j = Len(crmJobs) /\ m = Cardinality(Jobbed) /\ n = Cardinality(Conversation) /\ s = switches /\ f = failures
    OBVIOUS
  <2>4. j \in Nat /\ s \in Nat /\ f \in Nat BY <2>3, RowsAre DEF BookShape, BookTypes
  <2>5. m \in Nat /\ n \in Nat /\ m <= n BY <2>2, <2>3
  <2>6. j <= m + s + f BY <2>3 DEF OneInv
  <2>7. j <= n + s + f BY ONLY <2>4, <2>5, <2>6
  <2> QED BY <2>3, <2>7 DEF JobsBounded
<1>2. BookingSpec => [](BookShape /\ HeldInv /\ OneInv) BY <1>0, OneAlways
<1> QED BY <1>1, <1>2, PTL

\* With one worker a booking that was confirmed and handled is in the diary with its
\* customer and its job, or before the office.
THEOREM DiaryCorrect == ASSUME NEW o, Worker = {o} PROVE BookingSpec => []InDiary
<1>0. Alone BY DEF Alone
<1>1. HeldInv /\ OneInv => InDiary BY DEF HeldInv, OneInv, Held, JobHeld, InDiary
<1>2. BookingSpec => [](BookShape /\ HeldInv /\ OneInv) BY <1>0, OneAlways
<1> QED BY <1>1, <1>2, PTL

-----------------------------------------------------------------------------
(* One worker: what the last writer of a conversation left behind.         *)

LEMMA OthersAgree ==
  ASSUME OneConversation, BookShape, PartInv, NEW k \in Conversation, Aside(k), NEW d \in Conversation \ {k}, d \in settled,
         link'[d] = link[d]
  PROVE  Agrees(link[d])'
<1>1. PICK r : r = link[d] OBVIOUS
<1>2. r \in Row /\ link[k] \in Row BY <1>1 DEF BookShape, BookTypes, RowTypes
<1>3. r.appt \in ApptIds /\ r.lead \in LeadIds BY <1>2 DEF Row
<1>4. Apart(d, r) /\ Agrees(r) BY <1>1 DEF PartInv
<1>5. ASSUME r.appt # Nothing PROVE r.appt \in DOMAIN appts /\ appts'[r.appt] = appts[r.appt]
  <2>1. r.appt \in DOMAIN appts BY <1>3, <1>5 DEF ApptIds
  <2>2. PICK e \in Events : e.booking = r.appt /\ e.conv = d BY <1>4, <1>5 DEF Apart, Owns
  <2>3. ~Owns(k, r.appt) BY <1>5, <2>2 DEF Owns, OneConversation
  <2> QED BY <2>1, <2>3 DEF Aside
<1>6. ASSUME r.appt # Nothing PROVE leads'[r.lead] = leads[r.lead]
  <2>1. r.lead # 0 BY <1>4, <1>6 DEF Apart
  <2>2. r.lead \in DOMAIN leads BY <1>3, <2>1, RowsAre DEF LeadIds, BookShape, BookTypes
  <2>3. r.lead # link[k].lead BY <1>4, <2>1 DEF Apart
  <2> QED BY <2>2, <2>3 DEF Aside
<1>7. Agrees(r)' BY <1>4, <1>5, <1>6 DEF Agrees, Half
<1> QED BY <1>1, <1>7 DEF Agrees, Half

\* A worker that goes on within its command.
LEMMA PartMove ==
  ASSUME Alone, OneConversation, BookShape, PartInv, NEW w \in Worker, ~On(w, "idle"),
         NEW pc, NEW next, NEW mine, NEW seen, NEW patch, NEW ext, NEW got,
         To(w, pc, next, mine, seen, patch, ext, got),
         NEW cmd, cmd = Cmd(w), NEW k, k = Conv(w), NEW row, row = link[k], link' = link,
         Aside(k), settled' \ {k} \subseteq settled, k \in settled' => Agrees(row)',
         PartFor(cmd, pc, next, RowAt(pc, patch, row), k)'
  PROVE  PartInv'
<1>1. /\ Cmd(w)' = cmd /\ Conv(w)' = k
      /\ work'[w].pc = pc /\ work'[w].next = next /\ work'[w].patch = patch
  BY SameCommand DEF To
<1>2. k \in Conversation BY AtStep
<1>3. \A v \in Worker : ~On(v, "idle")' => PartBy(v)'
  <2>1. PartBy(w)' BY <1>1 DEF PartBy
  <2> QED BY <2>1 DEF Alone
<1>4. \A c \in Conversation : Apart(c, link[c])' BY DEF PartInv, Apart
<1>5. ASSUME NEW c \in settled' PROVE Agrees(link[c])'
  <2>1. CASE c = k BY <1>5, <2>1 DEF Agrees, Half
  <2>2. CASE c # k
    <3>1. c \in settled /\ c \in Conversation BY <1>5, <2>2 DEF BookShape, BookTypes
    <3> QED BY <1>2, <2>2, <3>1, OthersAgree
  <2> QED BY <2>1, <2>2
<1> QED BY <1>3, <1>4, <1>5 DEF PartInv

\* That is all, for most of them: nothing is written.
LEMMA PartGoes ==
  ASSUME Alone, OneConversation, BookShape, PartInv, NEW w \in Worker, ~On(w, "idle"),
         NEW pc, NEW next, NEW mine, NEW seen, NEW patch, NEW ext, NEW got,
         To(w, pc, next, mine, seen, patch, ext, got), UNCHANGED << leads, appts, link, settled >>,
         NEW l, l = RowAt(pc, patch, link[Conv(w)]), PartFor(Cmd(w), pc, next, l, Conv(w))
  PROVE  PartInv'
<1>1. PICK cmd, k, row : cmd = Cmd(w) /\ k = Conv(w) /\ row = link[k] OBVIOUS
<1>2. PartFor(cmd, pc, next, l, k)' BY <1>1 DEF PartFor, Apart, Half
<1>3. PartFor(cmd, pc, next, RowAt(pc, patch, row), k)' BY <1>1, <1>2
<1>4. Aside(k) BY DEF Aside
<1>5. k \in settled' => Agrees(row)' BY <1>1 DEF PartInv, Agrees, Half
<1> QED BY <1>1, <1>3, <1>4, <1>5, PartMove

\* A worker that takes up a command or gives one up.
LEMMA PartBetween ==
  ASSUME Alone, BookShape, BookShape', PartInv, UNCHANGED << crm, link >>, settled' \subseteq settled,
         NEW w \in Worker, Starting(work'[w].pc, work'[w].next),
         ~On(w, "idle")' => Cmd(w)' \in { "Upsert", "Cancel" } \/ Conv(w)' \notin settled'
  PROVE  PartInv'
<1>1. UNCHANGED << leads, appts, link >> BY DEF crm
<1>2. \A c \in Conversation : Apart(c, link[c])' BY <1>1 DEF PartInv, Apart
<1>3. \A c \in settled' : Agrees(link[c])' BY <1>1 DEF PartInv, Agrees, Half
<1>4. \A v \in Worker : ~On(v, "idle")' => PartBy(v)'
  <2> SUFFICES ASSUME ~On(w, "idle")' PROVE PartBy(w)' BY DEF Alone
  <2>1. PlacedIn(Cmd(w)', work'[w].pc, work'[w].next) /\ Conv(w)' \in Conversation /\ Cmd(w)' \in Cmds
    <3>1. Busy(w)' BY DEF BookShape, BusyInv, Vacant
    <3>2. Event(w)' \in Events BY <3>1 DEF Busy
    <3> QED BY <3>1, <3>2, CommandsAre DEF Busy, PlacedIn, Conv, Cmd
  <2>2. PICK cmd, pc, next, p, k, row : /\ cmd = Cmd(w)' /\ pc = work'[w].pc /\ next = work'[w].next /\ p = work'[w].patch
                                        /\ k = Conv(w)' /\ row = link'[k]
    OBVIOUS
  <2>3. Starting(pc, next) /\ PlacedIn(cmd, pc, next) /\ cmd \in Cmds /\ pc # "idle"
    BY <2>1, <2>2 DEF On, PlacedIn, Starting
  <2>4. RowAt(pc, p, row) = row
    <3>1. pc \notin Writing BY <2>3 DEF Starting, Writing
    <3> QED BY <3>1, RowNow
  <2>5. ~Led(cmd, pc, next) /\ ~Settling(cmd, pc, next)
    BY ONLY <2>3 DEF Starting, PlacedIn, Cmds, Steps, LookupsOf, WritesOf, Looking, Writing, Led, Settling
  <2>6. Apart(k, row)' BY <1>2, <2>1, <2>2
  <2>7. PartFor(cmd, pc, next, row, k)' BY <2>2, <2>5, <2>6 DEF PartFor
  <2> QED BY <2>2, <2>4, <2>7 DEF PartBy
<1> QED BY <1>2, <1>3, <1>4 DEF PartInv

LEMMA LeadWritten ==
  ASSUME BookShape, NEW w \in Worker, ~On(w, "idle"), NEW q
  PROVE  RowAt("linkRead", q, link[Conv(w)]).lead = IF "lead" \in DOMAIN q THEN q.lead ELSE link[Conv(w)].lead
<1>1. PICK r \in Row : r = link[Conv(w)] BY AtStep
<1>2. DOMAIN r = { "row", "lead", "customer", "job", "appt", "booking", "review" } BY DEF Row
<1>3. \A f \in DOMAIN r : Laid(q, r)[f] = IF f = "row" THEN TRUE ELSE IF f \in DOMAIN q THEN q[f] ELSE r[f] BY DEF Laid
<1>4. Laid(q, r).lead = IF "lead" \in DOMAIN q THEN q.lead ELSE r.lead BY <1>2, <1>3
<1> QED BY <1>1, <1>4 DEF RowAt, Writing

\* What the lead of a row is given.
LEMMA LeadGiven ==
  ASSUME BookShape, NEW l \in Row, leads' = WithCustomer(l)
  PROVE  /\ \A j \in DOMAIN leads : j # l.lead => leads'[j] = leads[j]
         /\ l.lead # 0 /\ l.customer # 0 => leads'[l.lead] = l.customer
<1>1. RowTypes BY DEF BookShape, BookTypes
<1>2. l.lead \in LeadIds BY DEF Row
<1>3. CASE l.lead = 0 \/ l.customer = 0 BY <1>3 DEF WithCustomer
<1>4. CASE ~(l.lead = 0 \/ l.customer = 0)
  <2>1. l.lead \in DOMAIN leads BY <1>1, <1>2, <1>4, RowsAre DEF LeadIds
  <2>2. leads' = [leads EXCEPT ![l.lead] = l.customer] BY <1>4 DEF WithCustomer
  <2> QED BY <2>1, <2>2
<1> QED BY <1>3, <1>4

LEMMA LeadAdded ==
  ASSUME BookShape, NEW x, leads' = Append(leads, x)
  PROVE  \A j \in DOMAIN leads : leads'[j] = leads[j]
  BY DEF BookShape, BookTypes, RowTypes

LEMMA PartFindNone == ASSUME Alone, OneConversation, BookShape, PartInv, NEW w \in Worker, FindNone(w) PROVE PartInv'
<1>1. work[w].pc = "find" /\ ~On(w, "idle") BY DEF FindNone, On
<1>2. UNCHANGED << leads, appts, link, settled >> BY DEF FindNone, crm, memory
<1>3. PICK n, m, s, p, g, row, b, k : /\ n = work[w].next /\ m = work[w].mine /\ s = work[w].seen /\ p = work[w].patch
                                     /\ g = work[w].got /\ row = link[Conv(w)] /\ b = Wanted(w) /\ k = Conv(w)
  OBVIOUS
<1>4. PICK cmd \in Cmds : cmd = Cmd(w) /\ n \in LookupsOf(cmd) BY <1>1, <1>3, LookingFor DEF Looking
<1>5. \A q : RowAt("find", q, row) = row BY RowNow DEF Writing
<1>6. PartFor(cmd, "find", n, row, k) BY <1>1, <1>3, <1>4, <1>5 DEF PartInv, PartBy
<1>8. Went(w, "insert") BY FindNoneMoves
<1>9. RowAt("insert", p, row) = row BY <1>4, RowNow DEF Writing, LookupsOf, Cmds
<1>10. PartFor(cmd, "insert", n, row, k) BY ONLY <1>4, <1>6 DEF PartFor, Led, Settling, Looking, Writing, LookupsOf, Cmds
<1> QED BY <1>1, <1>2, <1>3, <1>4, <1>8, <1>9, <1>10, PartGoes DEF Went

LEMMA PartInsertCustomer == ASSUME Alone, OneConversation, BookShape, PartInv, NEW w \in Worker, InsertCustomer(w) PROVE PartInv'
<1>1. work[w].pc = "insert" /\ ~On(w, "idle") BY DEF InsertCustomer, On
<1>2. UNCHANGED << leads, appts, link, settled >> BY DEF InsertCustomer, crm, memory
<1>3. PICK n, m, s, p, g, row, b, k : /\ n = work[w].next /\ m = work[w].mine /\ s = work[w].seen /\ p = work[w].patch
                                     /\ g = work[w].got /\ row = link[Conv(w)] /\ b = Wanted(w) /\ k = Conv(w)
  OBVIOUS
<1>4. PICK cmd \in Cmds : cmd = Cmd(w) /\ n \in LookupsOf(cmd) BY <1>1, <1>3, LookingFor DEF Looking
<1>5. \A q : RowAt("insert", q, row) = row BY RowNow DEF Writing
<1>6. PartFor(cmd, "insert", n, row, k) BY <1>1, <1>3, <1>4, <1>5 DEF PartInv, PartBy
<1>8. Got(w, work[w].next, Len(customers) + 1) BY InsertCustomerMoves
<1>9. RowAt(n, p, row) = row BY <1>4, RowNow DEF Writing, LookupsOf, Cmds
<1>10. PartFor(cmd, n, n, row, k) BY ONLY <1>4, <1>6 DEF PartFor, Led, Settling, Looking, Writing, LookupsOf, Cmds
<1> QED BY <1>1, <1>2, <1>3, <1>4, <1>8, <1>9, <1>10, PartGoes DEF Got

LEMMA PartUpdateCustomer == ASSUME Alone, OneConversation, BookShape, PartInv, NEW w \in Worker, UpdateCustomer(w) PROVE PartInv'
<1>1. work[w].pc = "update" /\ ~On(w, "idle") BY DEF UpdateCustomer, On
<1>2. UNCHANGED << leads, appts, link, settled >> BY DEF UpdateCustomer, crm, memory
<1>3. PICK n, m, s, p, g, row, b, k : /\ n = work[w].next /\ m = work[w].mine /\ s = work[w].seen /\ p = work[w].patch
                                     /\ g = work[w].got /\ row = link[Conv(w)] /\ b = Wanted(w) /\ k = Conv(w)
  OBVIOUS
<1>4. PICK cmd \in Cmds : cmd = Cmd(w) /\ n \in LookupsOf(cmd) BY <1>1, <1>3, LookingFor DEF Looking
<1>5. \A q : RowAt("update", q, row) = row BY RowNow DEF Writing
<1>6. PartFor(cmd, "update", n, row, k) BY <1>1, <1>3, <1>4, <1>5 DEF PartInv, PartBy
<1>8. Went(w, work[w].next) BY UpdateCustomerMoves
<1>9. RowAt(n, p, row) = row BY <1>4, RowNow DEF Writing, LookupsOf, Cmds
<1>10. PartFor(cmd, n, n, row, k) BY ONLY <1>4, <1>6 DEF PartFor, Led, Settling, Looking, Writing, LookupsOf, Cmds
<1> QED BY <1>1, <1>2, <1>3, <1>4, <1>8, <1>9, <1>10, PartGoes DEF Went

LEMMA PartMatched == ASSUME Alone, OneConversation, BookShape, PartInv, NEW w \in Worker, Matched(w) PROVE PartInv'
<1>1. work[w].pc = "matched" /\ ~On(w, "idle") BY DEF Matched, On
<1>2. UNCHANGED << leads, appts, link, settled >> BY DEF Matched, crm, memory
<1>3. PICK n, m, s, p, g, row, b, k : /\ n = work[w].next /\ m = work[w].mine /\ s = work[w].seen /\ p = work[w].patch
                                     /\ g = work[w].got /\ row = link[Conv(w)] /\ b = Wanted(w) /\ k = Conv(w)
  OBVIOUS
<1>4. Cmd(w) = "Match" BY <1>1, CmdAt
<1>5. \A q : RowAt("matched", q, row) = row BY RowNow DEF Writing
<1>6. PartFor("Match", "matched", n, row, k) BY <1>1, <1>3, <1>4, <1>5 DEF PartInv, PartBy
<1>8. Wrote(w, [customer |-> work[w].got], "ack") BY MatchedMoves
<1>9. PICK q : q = [customer |-> g] OBVIOUS
<1>10. DOMAIN q = { "customer" } BY <1>9
<1>11. PICK l : l = RowAt("linkRead", q, row) OBVIOUS
<1>12. l.lead = row.lead /\ l.appt = row.appt BY <1>1, <1>3, <1>10, <1>11, RowWritten, LeadWritten
<1>13. PartFor("Match", "linkRead", "ack", l, k) BY ONLY <1>6, <1>12 DEF PartFor, Led, Settling, Looking, Writing, Apart
<1> QED BY <1>1, <1>2, <1>3, <1>4, <1>8, <1>9, <1>11, <1>13, PartGoes DEF Wrote

LEMMA PartLinked == ASSUME Alone, OneConversation, BookShape, PartInv, NEW w \in Worker, Linked(w) PROVE PartInv'
<1>1. work[w].pc = "linked" /\ ~On(w, "idle") BY DEF Linked, On
<1>2. UNCHANGED << leads, appts, link, settled >> BY DEF Linked, crm, memory
<1>3. PICK n, m, s, p, g, row, b, k : /\ n = work[w].next /\ m = work[w].mine /\ s = work[w].seen /\ p = work[w].patch
                                     /\ g = work[w].got /\ row = link[Conv(w)] /\ b = Wanted(w) /\ k = Conv(w)
  OBVIOUS
<1>4. Cmd(w) = "Link" BY <1>1, CmdAt
<1>5. \A q : RowAt("linked", q, row) = row BY RowNow DEF Writing
<1>6. PartFor("Link", "linked", n, row, k) BY <1>1, <1>3, <1>4, <1>5 DEF PartInv, PartBy
<1>8. Wrote(w, [customer |-> work[w].got], "findJob") BY LinkedMoves
<1>9. PICK q : q = [customer |-> g] OBVIOUS
<1>10. DOMAIN q = { "customer" } BY <1>9
<1>11. PICK l : l = RowAt("linkRead", q, row) OBVIOUS
<1>12. l.lead = row.lead /\ l.appt = row.appt BY <1>1, <1>3, <1>10, <1>11, RowWritten, LeadWritten
<1>13. PartFor("Link", "linkRead", "findJob", l, k) BY ONLY <1>6, <1>12 DEF PartFor, Led, Settling, Looking, Writing, Apart
<1> QED BY <1>1, <1>2, <1>3, <1>4, <1>8, <1>9, <1>11, <1>13, PartGoes DEF Wrote

LEMMA PartLeadStart == ASSUME Alone, OneConversation, BookShape, PartInv, NEW w \in Worker, LeadStart(w) PROVE PartInv'
<1>1. work[w].pc = "leadStart" /\ ~On(w, "idle") BY DEF LeadStart, On
<1>2. UNCHANGED << leads, appts, link, settled >> BY DEF LeadStart, crm, memory
<1>3. PICK n, m, s, p, g, row, b, k : /\ n = work[w].next /\ m = work[w].mine /\ s = work[w].seen /\ p = work[w].patch
                                     /\ g = work[w].got /\ row = link[Conv(w)] /\ b = Wanted(w) /\ k = Conv(w)
  OBVIOUS
<1>4. Cmd(w) = "Lead" BY <1>1, CmdAt
<1>5. \A q : RowAt("leadStart", q, row) = row BY RowNow DEF Writing
<1>6. PartFor("Lead", "leadStart", n, row, k) BY <1>1, <1>3, <1>4, <1>5 DEF PartInv, PartBy
<1>8. \/ Took(w, "leadInsert", link[Conv(w)])
      \/ Took(w, "leadAttach", link[Conv(w)])
  BY <1>3, LeadStartMoves
<1>9. CASE Took(w, "leadInsert", link[Conv(w)])
  <2>1. RowAt("leadInsert", p, row) = row BY <1>4, RowNow DEF Writing, LookupsOf, Cmds
  <2>2. PartFor("Lead", "leadInsert", n, row, k) BY ONLY <1>4, <1>6 DEF PartFor, Led, Settling, Looking, Writing
  <2> QED BY <1>1, <1>2, <1>3, <1>4, <1>9, <2>1, <2>2, PartGoes DEF Took
<1>10. CASE Took(w, "leadAttach", link[Conv(w)])
  <2>1. RowAt("leadAttach", p, row) = row BY <1>4, RowNow DEF Writing, LookupsOf, Cmds
  <2>2. PartFor("Lead", "leadAttach", n, row, k) BY ONLY <1>4, <1>6 DEF PartFor, Led, Settling, Looking, Writing
  <2> QED BY <1>1, <1>2, <1>3, <1>4, <1>10, <2>1, <2>2, PartGoes DEF Took
<1> QED BY <1>8, <1>9, <1>10

LEMMA PartResolved == ASSUME Alone, OneConversation, BookShape, PartInv, NEW w \in Worker, Resolved(w) PROVE PartInv'
<1>1. work[w].pc = "resolved" /\ ~On(w, "idle") BY DEF Resolved, On
<1>2. UNCHANGED << leads, appts, link, settled >> BY DEF Resolved, crm, memory
<1>3. PICK n, m, s, p, g, row, b, k : /\ n = work[w].next /\ m = work[w].mine /\ s = work[w].seen /\ p = work[w].patch
                                     /\ g = work[w].got /\ row = link[Conv(w)] /\ b = Wanted(w) /\ k = Conv(w)
  OBVIOUS
<1>4. Cmd(w) = "CreateOrUpdate" BY <1>1, CmdAt
<1>5. \A q : RowAt("resolved", q, row) = row BY RowNow DEF Writing
<1>6. PartFor("CreateOrUpdate", "resolved", n, row, k) BY <1>1, <1>3, <1>4, <1>5 DEF PartInv, PartBy
<1>8. Wrote(w, [customer |-> work[w].got, review |-> FALSE], "attachLead") BY ResolvedMoves
<1>9. PICK q : q = [customer |-> g, review |-> FALSE] OBVIOUS
<1>10. DOMAIN q = { "customer", "review" } BY <1>9
<1>11. PICK l : l = RowAt("linkRead", q, row) OBVIOUS
<1>12. l.lead = row.lead /\ l.appt = row.appt BY <1>1, <1>3, <1>10, <1>11, RowWritten, LeadWritten
<1>13. PartFor("CreateOrUpdate", "linkRead", "attachLead", l, k) BY ONLY <1>6, <1>12 DEF PartFor, Led, Settling, Looking, Writing, Apart
<1> QED BY <1>1, <1>2, <1>3, <1>4, <1>8, <1>9, <1>11, <1>13, PartGoes DEF Wrote

LEMMA PartReview2 == ASSUME Alone, OneConversation, BookShape, PartInv, NEW w \in Worker, Review2(w) PROVE PartInv'
<1>1. work[w].pc = "review2" /\ ~On(w, "idle") BY DEF Review2, On
<1>2. UNCHANGED << leads, appts, link, settled >> BY DEF Review2, crm, memory
<1>3. PICK n, m, s, p, g, row, b, k : /\ n = work[w].next /\ m = work[w].mine /\ s = work[w].seen /\ p = work[w].patch
                                     /\ g = work[w].got /\ row = link[Conv(w)] /\ b = Wanted(w) /\ k = Conv(w)
  OBVIOUS
<1>4. Cmd(w) = "CreateOrUpdate" BY <1>1, CmdAt
<1>5. \A q : RowAt("review2", q, row) = row BY RowNow DEF Writing
<1>6. PartFor("CreateOrUpdate", "review2", n, row, k) BY <1>1, <1>3, <1>4, <1>5 DEF PartInv, PartBy
<1>7. Owns(k, b) BY <1>1, <1>3, AtStep DEF Busy, Owns, Conv, Wanted
<1>8. Wrote(w, [appt |-> Wanted(w), customer |-> 0, job |-> 0, booking |-> Wanted(w), review |-> TRUE], "ack") BY Review2Moves
<1>9. PICK q : q = [appt |-> b, customer |-> 0, job |-> 0, booking |-> b, review |-> TRUE] OBVIOUS
<1>10. DOMAIN q = { "appt", "customer", "job", "booking", "review" } /\ q.appt = b BY <1>9
<1>11. PICK l : l = RowAt("linkRead", q, row) OBVIOUS
<1>12. l.lead = row.lead /\ l.appt = b BY <1>1, <1>3, <1>10, <1>11, RowWritten, LeadWritten
<1>13. PartFor("CreateOrUpdate", "linkRead", "ack", l, k) BY ONLY <1>6, <1>7, <1>12 DEF PartFor, Led, Settling, Looking, Writing, Apart
<1> QED BY <1>1, <1>2, <1>3, <1>4, <1>8, <1>9, <1>11, <1>13, PartGoes DEF Wrote

LEMMA PartHealed == ASSUME Alone, OneConversation, BookShape, PartInv, NEW w \in Worker, Healed(w) PROVE PartInv'
<1>1. work[w].pc = "healed" /\ ~On(w, "idle") BY DEF Healed, On
<1>2. UNCHANGED << leads, appts, link, settled >> BY DEF Healed, crm, memory
<1>3. PICK n, m, s, p, g, row, b, k : /\ n = work[w].next /\ m = work[w].mine /\ s = work[w].seen /\ p = work[w].patch
                                     /\ g = work[w].got /\ row = link[Conv(w)] /\ b = Wanted(w) /\ k = Conv(w)
  OBVIOUS
<1>4. Cmd(w) = "CreateOrUpdate" BY <1>1, CmdAt
<1>5. \A q : RowAt("healed", q, row) = row BY RowNow DEF Writing
<1>6. PartFor("CreateOrUpdate", "healed", n, row, k) BY <1>1, <1>3, <1>4, <1>5 DEF PartInv, PartBy
<1>8. Wrote(w, [customer |-> work[w].got], "reread") BY HealedMoves
<1>9. PICK q : q = [customer |-> g] OBVIOUS
<1>10. DOMAIN q = { "customer" } BY <1>9
<1>11. PICK l : l = RowAt("linkRead", q, row) OBVIOUS
<1>12. l.lead = row.lead /\ l.appt = row.appt BY <1>1, <1>3, <1>10, <1>11, RowWritten, LeadWritten
<1>13. PartFor("CreateOrUpdate", "linkRead", "reread", l, k) BY ONLY <1>6, <1>12 DEF PartFor, Led, Settling, Looking, Writing, Apart
<1> QED BY <1>1, <1>2, <1>3, <1>4, <1>8, <1>9, <1>11, <1>13, PartGoes DEF Wrote

LEMMA PartReread == ASSUME Alone, OneConversation, BookShape, PartInv, NEW w \in Worker, Reread(w) PROVE PartInv'
<1>1. work[w].pc = "reread" /\ ~On(w, "idle") BY DEF Reread, On
<1>2. UNCHANGED << leads, appts, link, settled >> BY DEF Reread, crm, memory
<1>3. PICK n, m, s, p, g, row, b, k : /\ n = work[w].next /\ m = work[w].mine /\ s = work[w].seen /\ p = work[w].patch
                                     /\ g = work[w].got /\ row = link[Conv(w)] /\ b = Wanted(w) /\ k = Conv(w)
  OBVIOUS
<1>4. Cmd(w) = "CreateOrUpdate" BY <1>1, CmdAt
<1>5. \A q : RowAt("reread", q, row) = row BY RowNow DEF Writing
<1>6. PartFor("CreateOrUpdate", "reread", n, row, k) BY <1>1, <1>3, <1>4, <1>5 DEF PartInv, PartBy
<1>8. Took(w, "attach", link[Conv(w)]) BY RereadMoves
<1>9. RowAt("attach", p, row) = row BY <1>4, RowNow DEF Writing, LookupsOf, Cmds
<1>10. PartFor("CreateOrUpdate", "attach", n, row, k) BY ONLY <1>4, <1>6 DEF PartFor, Led, Settling, Looking, Writing
<1> QED BY <1>1, <1>2, <1>3, <1>4, <1>8, <1>9, <1>10, PartGoes DEF Took

LEMMA PartFindOne == ASSUME Alone, OneConversation, BookShape, PartInv, NEW w \in Worker, FindOne(w) PROVE PartInv'
<1>1. work[w].pc = "find" /\ ~On(w, "idle") BY DEF FindOne, On
<1>2. UNCHANGED << leads, appts, link, settled >> BY DEF FindOne, crm, memory
<1>3. PICK n, m, s, p, g, row, b, k : /\ n = work[w].next /\ m = work[w].mine /\ s = work[w].seen /\ p = work[w].patch
                                     /\ g = work[w].got /\ row = link[Conv(w)] /\ b = Wanted(w) /\ k = Conv(w)
  OBVIOUS
<1>4. PICK cmd \in Cmds : cmd = Cmd(w) /\ n \in LookupsOf(cmd) BY <1>1, <1>3, LookingFor DEF Looking
<1>5. \A q : RowAt("find", q, row) = row BY RowNow DEF Writing
<1>6. PartFor(cmd, "find", n, row, k) BY <1>1, <1>3, <1>4, <1>5 DEF PartInv, PartBy
<1>8. PICK i \in DOMAIN customers : Got(w, "update", i) BY FindOneMoves
<1>9. RowAt("update", p, row) = row BY <1>4, RowNow DEF Writing, LookupsOf, Cmds
<1>10. PartFor(cmd, "update", n, row, k) BY ONLY <1>4, <1>6 DEF PartFor, Led, Settling, Looking, Writing, LookupsOf, Cmds
<1> QED BY <1>1, <1>2, <1>3, <1>4, <1>8, <1>9, <1>10, PartGoes DEF Got

LEMMA PartLinkStart == ASSUME Alone, OneConversation, BookShape, PartInv, NEW w \in Worker, LinkStart(w) PROVE PartInv'
<1>1. work[w].pc = "linkStart" /\ ~On(w, "idle") BY DEF LinkStart, On
<1>2. UNCHANGED << leads, appts, link, settled >> BY DEF LinkStart, crm, memory
<1>3. PICK n, m, s, p, g, row, b, k : /\ n = work[w].next /\ m = work[w].mine /\ s = work[w].seen /\ p = work[w].patch
                                     /\ g = work[w].got /\ row = link[Conv(w)] /\ b = Wanted(w) /\ k = Conv(w)
  OBVIOUS
<1>4. Cmd(w) = "Link" BY <1>1, CmdAt
<1>5. \A q : RowAt("linkStart", q, row) = row BY RowNow DEF Writing
<1>6. PartFor("Link", "linkStart", n, row, k) BY <1>1, <1>3, <1>4, <1>5 DEF PartInv, PartBy
<1>8. \/ Wrote(w, NoPatch, "ack")
      \/ Looked(w, "linked", link[Conv(w)])
      \/ Took(w, "findJob", link[Conv(w)])
  BY <1>3, LinkStartMoves
<1>9. CASE Wrote(w, NoPatch, "ack")
  <2>1. PICK q : q = NoPatch OBVIOUS
  <2>2. DOMAIN q = { "row" } BY <2>1 DEF NoPatch
  <2>3. PICK l : l = RowAt("linkRead", q, row) OBVIOUS
  <2>4. l.lead = row.lead /\ l.appt = row.appt BY <1>1, <1>3, <2>2, <2>3, RowWritten, LeadWritten
  <2>5. PartFor("Link", "linkRead", "ack", l, k) BY ONLY <1>6, <2>4 DEF PartFor, Led, Settling, Looking, Writing, Apart
  <2> QED BY <1>1, <1>2, <1>3, <1>4, <1>9, <2>1, <2>3, <2>5, PartGoes DEF Wrote
<1>10. CASE Looked(w, "linked", link[Conv(w)])
  <2>1. RowAt("find", p, row) = row BY <1>4, RowNow DEF Writing, LookupsOf, Cmds
  <2>2. PartFor("Link", "find", "linked", row, k) BY ONLY <1>4, <1>6 DEF PartFor, Led, Settling, Looking, Writing
  <2> QED BY <1>1, <1>2, <1>3, <1>4, <1>10, <2>1, <2>2, PartGoes DEF Looked
<1>11. CASE Took(w, "findJob", link[Conv(w)])
  <2>1. RowAt("findJob", p, row) = row BY <1>4, RowNow DEF Writing, LookupsOf, Cmds
  <2>2. PartFor("Link", "findJob", n, row, k) BY ONLY <1>4, <1>6 DEF PartFor, Led, Settling, Looking, Writing
  <2> QED BY <1>1, <1>2, <1>3, <1>4, <1>11, <2>1, <2>2, PartGoes DEF Took
<1> QED BY <1>8, <1>9, <1>10, <1>11

LEMMA PartResolve == ASSUME Alone, OneConversation, BookShape, PartInv, NEW w \in Worker, Resolve(w) PROVE PartInv'
<1>1. work[w].pc = "resolve" /\ ~On(w, "idle") BY DEF Resolve, On
<1>2. UNCHANGED << leads, appts, link, settled >> BY DEF Resolve, crm, memory
<1>3. PICK n, m, s, p, g, row, b, k : /\ n = work[w].next /\ m = work[w].mine /\ s = work[w].seen /\ p = work[w].patch
                                     /\ g = work[w].got /\ row = link[Conv(w)] /\ b = Wanted(w) /\ k = Conv(w)
  OBVIOUS
<1>4. Cmd(w) = "CreateOrUpdate" BY <1>1, CmdAt
<1>5. \A q : RowAt("resolve", q, row) = row BY RowNow DEF Writing
<1>6. PartFor("CreateOrUpdate", "resolve", n, row, k) BY <1>1, <1>3, <1>4, <1>5 DEF PartInv, PartBy
<1>8. \/ Went(w, "book")
      \/ Looked(w, "resolved", work[w].mine)
  BY <1>3, ResolveMoves
<1>9. CASE Went(w, "book")
  <2>1. RowAt("book", p, row) = row BY <1>4, RowNow DEF Writing, LookupsOf, Cmds
  <2>2. PartFor("CreateOrUpdate", "book", n, row, k) BY ONLY <1>4, <1>6 DEF PartFor, Led, Settling, Looking, Writing
  <2> QED BY <1>1, <1>2, <1>3, <1>4, <1>9, <2>1, <2>2, PartGoes DEF Went
<1>10. CASE Looked(w, "resolved", work[w].mine)
  <2>1. RowAt("find", p, row) = row BY <1>4, RowNow DEF Writing, LookupsOf, Cmds
  <2>2. PartFor("CreateOrUpdate", "find", "resolved", row, k) BY ONLY <1>4, <1>6 DEF PartFor, Led, Settling, Looking, Writing
  <2> QED BY <1>1, <1>2, <1>3, <1>4, <1>10, <2>1, <2>2, PartGoes DEF Looked
<1> QED BY <1>8, <1>9, <1>10

LEMMA PartRefresh == ASSUME Alone, OneConversation, BookShape, PartInv, NEW w \in Worker, Refresh(w) PROVE PartInv'
<1>1. work[w].pc = "refresh" /\ ~On(w, "idle") BY DEF Refresh, On
<1>2. UNCHANGED << leads, appts, link, settled >> BY DEF Refresh, crm, memory
<1>3. PICK n, m, s, p, g, row, b, k : /\ n = work[w].next /\ m = work[w].mine /\ s = work[w].seen /\ p = work[w].patch
                                     /\ g = work[w].got /\ row = link[Conv(w)] /\ b = Wanted(w) /\ k = Conv(w)
  OBVIOUS
<1>4. Cmd(w) = "CreateOrUpdate" BY <1>1, CmdAt
<1>5. \A q : RowAt("refresh", q, row) = row BY RowNow DEF Writing
<1>6. PartFor("CreateOrUpdate", "refresh", n, row, k) BY <1>1, <1>3, <1>4, <1>5 DEF PartInv, PartBy
<1>8. \/ Took(w, "attach", link[Conv(w)])
      \/ Looked(w, "healed", link[Conv(w)])
  BY <1>3, RefreshMoves
<1>9. CASE Took(w, "attach", link[Conv(w)])
  <2>1. RowAt("attach", p, row) = row BY <1>4, RowNow DEF Writing, LookupsOf, Cmds
  <2>2. PartFor("CreateOrUpdate", "attach", n, row, k) BY ONLY <1>4, <1>6 DEF PartFor, Led, Settling, Looking, Writing
  <2> QED BY <1>1, <1>2, <1>3, <1>4, <1>9, <2>1, <2>2, PartGoes DEF Took
<1>10. CASE Looked(w, "healed", link[Conv(w)])
  <2>1. RowAt("find", p, row) = row BY <1>4, RowNow DEF Writing, LookupsOf, Cmds
  <2>2. PartFor("CreateOrUpdate", "find", "healed", row, k) BY ONLY <1>4, <1>6 DEF PartFor, Led, Settling, Looking, Writing
  <2> QED BY <1>1, <1>2, <1>3, <1>4, <1>10, <2>1, <2>2, PartGoes DEF Looked
<1> QED BY <1>8, <1>9, <1>10

LEMMA PartEnsure == ASSUME Alone, OneConversation, BookShape, PartInv, NEW w \in Worker, Ensure(w) PROVE PartInv'
<1>1. work[w].pc = "ensure" /\ ~On(w, "idle") BY DEF Ensure, On
<1>2. UNCHANGED << leads, appts, link, settled >> BY DEF Ensure, crm, memory
<1>3. PICK n, p, row, k : n = work[w].next /\ p = work[w].patch /\ row = link[Conv(w)] /\ k = Conv(w) OBVIOUS
<1>4. Cmd(w) = "CreateOrUpdate" BY <1>1, CmdAt
<1>5. \A q : RowAt("ensure", q, row) = row /\ RowAt("status", q, row) = row /\ RowAt("newLead", q, row) = row BY RowNow DEF Writing
<1>6. PartFor("CreateOrUpdate", "ensure", n, row, k) BY <1>1, <1>3, <1>4, <1>5 DEF PartInv, PartBy
<1>7. CASE row.lead # 0 /\ ~Different(w, row)
  <2>1. Took(w, "status", link[Conv(w)]) BY <1>3, <1>7, EnsureMoves
  <2>2. PartFor("CreateOrUpdate", "status", n, row, k) BY ONLY <1>6, <1>7 DEF PartFor, Led, Settling, Writing
  <2> QED BY <1>1, <1>2, <1>3, <1>4, <1>5, <2>1, <2>2, PartGoes DEF Took
<1>8. CASE ~(row.lead # 0 /\ ~Different(w, row))
  <2>1. Took(w, "newLead", link[Conv(w)]) BY <1>3, <1>8, EnsureMoves
  <2>2. PartFor("CreateOrUpdate", "newLead", n, row, k) BY ONLY <1>6 DEF PartFor, Led, Settling, Writing
  <2> QED BY <1>1, <1>2, <1>3, <1>4, <1>5, <2>1, <2>2, PartGoes DEF Took
<1> QED BY <1>7, <1>8

LEMMA PartLookup == ASSUME Alone, OneConversation, BookShape, PartInv, NEW w \in Worker, Lookup(w) PROVE PartInv'
<1>1. work[w].pc = "lookup" /\ ~On(w, "idle") BY DEF Lookup, On
<1>2. UNCHANGED << leads, appts, link, settled >> BY DEF Lookup, crm
<1>3. PICK n, m, s, p, g, row, k, b : /\ n = work[w].next /\ m = work[w].mine /\ s = work[w].seen /\ p = work[w].patch
                                      /\ g = work[w].got /\ row = link[Conv(w)] /\ k = Conv(w) /\ b = Wanted(w)
  OBVIOUS
<1>4. Cmd(w) = "CreateOrUpdate" BY <1>1, CmdAt
<1>5. \A q : RowAt("lookup", q, row) = row /\ RowAt("ensure", q, row) = row BY RowNow DEF Writing
<1>6. PartFor("CreateOrUpdate", "lookup", n, row, k) BY <1>1, <1>3, <1>4, <1>5 DEF PartInv, PartBy
<1>7. CASE Wrote(w, [appt |-> row.appt, booking |-> row.booking, review |-> TRUE], "ack")
  <2>1. PICK q : q = [appt |-> row.appt, booking |-> row.booking, review |-> TRUE] OBVIOUS
  <2>2. DOMAIN q = { "appt", "booking", "review" } /\ q.appt = row.appt BY <2>1
  <2>3. PICK l : l = RowAt("linkRead", q, row) OBVIOUS
  <2>4. l.lead = row.lead /\ l.appt = row.appt BY <1>1, <1>3, <2>2, <2>3, RowWritten, LeadWritten
  <2>5. PartFor("CreateOrUpdate", "linkRead", "ack", l, k) BY ONLY <1>6, <2>4 DEF PartFor, Led, Settling, Writing, Apart
  <2>6. Wrote(w, q, "ack") BY <1>7, <2>1
  <2> QED BY <1>1, <1>2, <1>3, <1>4, <2>3, <2>5, <2>6, PartGoes DEF Wrote
<1>8. CASE To(w, "ensure", n, m, s, p, b \in DOMAIN appts, g)
  <2>1. PartFor("CreateOrUpdate", "ensure", n, row, k) BY ONLY <1>6 DEF PartFor, Led, Settling, Writing
  <2> QED BY <1>1, <1>2, <1>3, <1>4, <1>5, <1>8, <2>1, PartGoes
<1> QED BY <1>3, <1>7, <1>8, LookupMoves

LEMMA PartFindJob == ASSUME Alone, OneConversation, BookShape, PartInv, NEW w \in Worker, FindJob(w) PROVE PartInv'
<1>1. work[w].pc = "findJob" /\ ~On(w, "idle") BY DEF FindJob, On
<1>2. UNCHANGED << leads, appts, link, settled >> BY DEF FindJob, crm, memory
<1>3. PICK n, p, row, k : n = work[w].next /\ p = work[w].patch /\ row = link[Conv(w)] /\ k = Conv(w) OBVIOUS
<1>4. Cmd(w) = "Link" BY <1>1, CmdAt
<1>5. \A q : RowAt("findJob", q, row) = row /\ RowAt("attachAll", q, row) = row BY RowNow DEF Writing
<1>6. PartFor("Link", "findJob", n, row, k) BY <1>1, <1>3, <1>4, <1>5 DEF PartInv, PartBy
<1>7. CASE Went(w, "attachAll")
  <2>1. PartFor("Link", "attachAll", n, row, k) BY ONLY <1>6 DEF PartFor, Led, Settling, Writing
  <2> QED BY <1>1, <1>2, <1>3, <1>4, <1>5, <1>7, <2>1, PartGoes DEF Went
<1>8. ASSUME NEW j \in DOMAIN crmJobs, Wrote(w, [job |-> j], "attachAll") PROVE PartInv'
  <2>1. PICK q : q = [job |-> j] OBVIOUS
  <2>2. DOMAIN q = { "job" } BY <2>1
  <2>3. PICK l : l = RowAt("linkRead", q, row) OBVIOUS
  <2>4. l.lead = row.lead /\ l.appt = row.appt BY <1>1, <1>3, <2>2, <2>3, RowWritten, LeadWritten
  <2>5. PartFor("Link", "linkRead", "attachAll", l, k) BY ONLY <1>6, <2>4 DEF PartFor, Led, Settling, Writing, Apart
  <2> QED BY <1>1, <1>2, <1>3, <1>4, <1>8, <2>1, <2>3, <2>5, PartGoes DEF Wrote
<1> QED BY <1>7, <1>8, FindJobMoves

LEMMA PartFindConflict == ASSUME Alone, OneConversation, BookShape, PartInv, NEW w \in Worker, FindConflict(w) PROVE PartInv'
<1>1. work[w].pc = "find" /\ ~On(w, "idle") BY DEF FindConflict, On
<1>2. UNCHANGED << leads, appts, link, settled >> BY DEF FindConflict, crm
<1>3. PICK n, p, row, k, b : n = work[w].next /\ p = work[w].patch /\ row = link[Conv(w)] /\ k = Conv(w) /\ b = Wanted(w) OBVIOUS
<1>4. PICK cmd \in Cmds : cmd = Cmd(w) /\ n \in LookupsOf(cmd) BY <1>1, <1>3, LookingFor DEF Looking
<1>5. \A q : /\ RowAt("find", q, row) = row /\ RowAt("review", q, row) = row
             /\ RowAt("attach", q, row) = row /\ RowAt("upsert", q, row) = row
  BY RowNow DEF Writing
<1>6. PartFor(cmd, "find", n, row, k) BY <1>1, <1>3, <1>4, <1>5 DEF PartInv, PartBy
<1>7. CASE n = "linked" /\ Wrote(w, [customer |-> 0, job |-> 0, booking |-> Wanted(w), review |-> TRUE], "ack")
  <2>1. PICK q : q = [customer |-> 0, job |-> 0, booking |-> b, review |-> TRUE] OBVIOUS
  <2>2. DOMAIN q = { "customer", "job", "booking", "review" } BY <2>1
  <2>3. PICK l : l = RowAt("linkRead", q, row) OBVIOUS
  <2>4. l.lead = row.lead /\ l.appt = row.appt BY <1>1, <1>3, <2>2, <2>3, RowWritten, LeadWritten
  <2>5. PartFor(cmd, "linkRead", "ack", l, k) BY ONLY <1>6, <2>4 DEF PartFor, Led, Settling, Writing, Apart
  <2>6. Wrote(w, q, "ack") BY <1>3, <1>7, <2>1
  <2> QED BY <1>1, <1>2, <1>3, <1>4, <2>3, <2>5, <2>6, PartGoes DEF Wrote
<1>8. CASE n = "resolved" /\ Went(w, "review")
  <2>1. PartFor(cmd, "review", n, row, k) BY ONLY <1>6 DEF PartFor, Led, Settling, Writing
  <2> QED BY <1>1, <1>2, <1>3, <1>4, <1>5, <1>8, <2>1, PartGoes DEF Went
<1>9. CASE n = "healed" /\ Went(w, "attach")
  <2>1. PartFor(cmd, "attach", n, row, k) BY ONLY <1>6 DEF PartFor, Led, Settling, Writing
  <2> QED BY <1>1, <1>2, <1>3, <1>4, <1>5, <1>9, <2>1, PartGoes DEF Went
<1>10. CASE n = "upsert" /\ Went(w, "upsert")
  <2>1. PartFor(cmd, "upsert", n, row, k) BY ONLY <1>6 DEF PartFor, Led, Settling, Writing
  <2> QED BY <1>1, <1>2, <1>3, <1>4, <1>5, <1>10, <2>1, PartGoes DEF Went
<1> QED BY <1>3, <1>7, <1>8, <1>9, <1>10, FindConflictMoves

LEMMA PartLinkRead == ASSUME Alone, OneConversation, BookShape, PartInv, NEW w \in Worker, LinkRead(w) PROVE PartInv'
<1>1. work[w].pc = "linkRead" /\ ~On(w, "idle") BY DEF LinkRead, On
<1>2. UNCHANGED << leads, appts, link, settled >> BY DEF LinkRead, crm, memory
<1>3. PICK cmd, n, p, row, k : /\ cmd = Cmd(w) /\ n = work[w].next /\ p = work[w].patch /\ row = link[Conv(w)] /\ k = Conv(w)
  OBVIOUS
<1>4. PICK l : l = RowAt("linkRead", p, row) /\ l = RowAt("linkWrite", p, row) BY DEF RowAt, Writing
<1>5. PartFor(cmd, "linkRead", n, l, k) BY <1>1, <1>3, <1>4 DEF PartInv, PartBy
<1>6. PartFor(cmd, "linkWrite", n, l, k) BY ONLY <1>5 DEF PartFor, Led, Settling, Writing
<1>7. To(w, "linkWrite", n, work[w].mine, row, p, work[w].ext, work[w].got) BY <1>3, LinkReadMoves
<1> QED BY <1>1, <1>2, <1>3, <1>4, <1>6, <1>7, PartGoes

\* The row that is written is apart from the others, as the one before it was.
LEMMA PartLinkWrite == ASSUME Alone, BookShape, OneInv, PartInv, NEW w \in Worker, LinkWrite(w) PROVE PartInv'
<1>1. work[w].pc = "linkWrite" /\ ~On(w, "idle") BY DEF LinkWrite, On
<1>2. UNCHANGED << leads, appts, settled >> BY DEF LinkWrite, crm, memory
<1>3. PICK cmd, n, m, s, p, old, b, k : /\ cmd = Cmd(w) /\ n = work[w].next /\ m = work[w].mine /\ s = work[w].seen
                                        /\ p = work[w].patch /\ old = link[Conv(w)] /\ b = Wanted(w) /\ k = Conv(w)
  OBVIOUS
<1>4. s = old
  <2>1. OneFor(cmd, "linkWrite", n, m, s, p, old, b) BY <1>1, <1>3 DEF OneInv, OneBy
  <2> QED BY <2>1 DEF OneFor, TrueFor
<1>5. PICK row : row = Laid(p, old) OBVIOUS
<1>6. k \in Conversation /\ link' = [link EXCEPT ![k] = row] BY <1>1, <1>3, <1>4, <1>5, AtStep DEF LinkWrite
<1>7. link'[k] = row /\ \A c \in Conversation \ {k} : link'[c] = link[c] BY <1>6 DEF BookShape, BookTypes, RowTypes
<1>8. cmd \in Cmds /\ n \in WritesOf(cmd)
  <2>1. cmd \in Cmds /\ PlacedIn(cmd, "linkWrite", n) BY <1>1, <1>3, AtStep
  <2> QED BY ONLY <2>1 DEF PlacedIn, Steps, Cmds, Looking, Writing
<1>9. RowAt("linkWrite", p, old) = row /\ \A q : RowAt(n, q, row) = row
  <2>1. n \notin Writing BY ONLY <1>8 DEF Cmds, WritesOf, Writing
  <2>2. \A q : RowAt(n, q, row) = row BY <2>1, RowNow
  <2> QED BY <1>5, <2>2 DEF RowAt, Writing
<1>10. PartFor(cmd, "linkWrite", n, row, k) BY <1>1, <1>3, <1>9 DEF PartInv, PartBy
<1>11. k \notin settled
  <2>1. cmd \notin { "Upsert", "Cancel" } BY ONLY <1>8 DEF WritesOf, Cmds
  <2> QED BY <1>10, <2>1 DEF PartFor
<1>12. Apart(k, row)' BY <1>7, <1>10 DEF PartFor, Apart
<1>13. ASSUME NEW c \in Conversation \ {k} PROVE Apart(c, link[c])'
  <2>1. Apart(c, link[c]) /\ Apart(k, row) BY <1>10 DEF PartInv, PartFor
  <2>2. \A d \in Conversation \ {c} : link[c].lead = link'[d].lead => link[c].lead = 0
    BY <1>6, <1>7, <2>1 DEF Apart
  <2> QED BY <1>7, <2>1, <2>2 DEF Apart
<1>14. PartFor(cmd, n, "idle", row, k)'
  <2>1. (Led(cmd, n, "idle") => row.lead # 0) /\ (Settling(cmd, n, "idle") => Half(row))
    BY ONLY <1>8, <1>10 DEF PartFor, Led, Settling, Writing, Cmds, WritesOf
  <2>2. Settling(cmd, n, "idle") => Half(row)' BY <1>2, <2>1 DEF Half
  <2> QED BY <1>2, <1>11, <1>12, <2>1, <2>2 DEF PartFor
<1>15. \A c \in settled' : Agrees(link[c])'
  <2>1. \A c \in settled : c \in Conversation \ {k} BY <1>11 DEF BookShape, BookTypes
  <2> QED BY <1>2, <1>7, <2>1 DEF PartInv, Agrees, Half
<1>16. To(w, n, "idle", Mine(w), NoLink, NoPatch, work[w].ext, work[w].got) BY <1>3, LinkWriteMoves
<1>17. \A v \in Worker : ~On(v, "idle")' => PartBy(v)'
  <2>1. Cmd(w)' = cmd /\ Conv(w)' = k /\ work'[w].pc = n /\ work'[w].next = "idle" /\ work'[w].patch = NoPatch
    BY <1>3, <1>16, SameCommand DEF To
  <2>2. PartBy(w)' BY <1>7, <1>9, <1>14, <2>1 DEF PartBy
  <2> QED BY <2>2 DEF Alone
<1> QED BY <1>7, <1>12, <1>13, <1>15, <1>17 DEF PartInv

-----------------------------------------------------------------------------
(* Steps that write leads or appointments.                                 *)

LEMMA MineIsRow ==
  ASSUME BookShape, OneInv, NEW w \in Worker, ~On(w, "idle"), Follows(Cmd(w), work[w].pc, work[w].next)
  PROVE  work[w].mine = link[Conv(w)] /\ work[w].mine \in Row
<1>1. OneBy(w) BY DEF OneInv
<1> QED BY <1>1, AtStep DEF OneBy, OneFor, TrueFor

LEMMA NotSettling ==
  ASSUME NEW cmd, NEW pc, NEW next, NEW l, NEW k, PartFor(cmd, pc, next, l, k), ~Settling(cmd, pc, next),
         link' = link, settled' = settled \/ pc = "ack"
  PROVE  PartFor(cmd, pc, next, l, k)'
  BY DEF PartFor, Apart

LEMMA NewLeadApart ==
  ASSUME BookShape, NEW k \in Conversation, NEW l, l.lead = Len(leads) + 1, l.appt # Nothing => Owns(k, l.appt)
  PROVE  l.lead # 0 /\ Apart(k, l)
<1>1. RowTypes /\ Len(leads) \in Nat BY RowsAre DEF BookShape, BookTypes
<1>2. \A d \in Conversation : link[d].lead \in 0 .. Len(leads) BY <1>1 DEF RowTypes, Row, LeadIds
<1>3. PICK i : i = Len(leads) OBVIOUS
<1>4. ASSUME NEW d \in Conversation PROVE l.lead # link[d].lead
  <2>1. PICK j : j = link[d].lead OBVIOUS
  <2>2. j \in 0 .. i /\ i \in Nat BY <1>1, <1>2, <1>3, <2>1
  <2>3. j # i + 1 BY ONLY <2>2
  <2> QED BY <1>3, <2>1, <2>3
<1>5. l.lead # 0 BY <1>1
<1> QED BY <1>4, <1>5 DEF Apart

LEMMA PartLeadInsert == ASSUME Alone, OneConversation, BookShape, PartInv, NEW w \in Worker, LeadInsert(w) PROVE PartInv'
<1>1. work[w].pc = "leadInsert" /\ ~On(w, "idle") BY DEF LeadInsert, On
<1>2. UNCHANGED << appts, link, settled >> /\ leads' = Append(leads, 0) BY DEF LeadInsert, memory
<1>3. PICK n, row, k : n = work[w].next /\ row = link[Conv(w)] /\ k = Conv(w) OBVIOUS
<1>4. Cmd(w) = "Lead" /\ k \in Conversation BY <1>1, <1>3, CmdAt, AtStep
<1>5. \A q : RowAt("leadInsert", q, row) = row BY RowNow DEF Writing
<1>6. PartFor("Lead", "leadInsert", n, row, k) BY <1>1, <1>3, <1>4, <1>5 DEF PartInv, PartBy
<1>7. PICK q : q = [lead |-> Len(leads) + 1] OBVIOUS
<1>8. DOMAIN q = { "lead" } /\ q.lead = Len(leads) + 1 BY <1>7
<1>9. PICK l : l = RowAt("linkRead", q, row) OBVIOUS
<1>10. l.lead = Len(leads) + 1 /\ l.appt = row.appt BY <1>1, <1>3, <1>8, <1>9, RowWritten, LeadWritten
<1>11. l.lead # 0 /\ Apart(k, l) BY <1>4, <1>6, <1>10, NewLeadApart DEF PartFor, Apart
<1>12. PartFor("Lead", "linkRead", "leadAttach", l, k) /\ ~Settling("Lead", "linkRead", "leadAttach")
  BY ONLY <1>6, <1>11 DEF PartFor, Led, Settling
<1>13. PartFor("Lead", "linkRead", "leadAttach", l, k)' BY <1>2, <1>12, NotSettling
<1>14. Aside(k) BY <1>2, LeadAdded DEF Aside
<1>15. k \notin settled' BY <1>2, <1>6 DEF PartFor
<1>16. Wrote(w, q, "leadAttach") BY <1>7, LeadInsertMoves
<1>17. PartFor("Lead", "linkRead", "leadAttach", RowAt("linkRead", q, row), k)' BY <1>9, <1>13
<1> QED BY <1>1, <1>2, <1>3, <1>4, <1>14, <1>15, <1>16, <1>17, PartMove DEF Wrote

LEMMA PartLeadAttach == ASSUME Alone, OneConversation, BookShape, OneInv, PartInv, NEW w \in Worker, LeadAttach(w) PROVE PartInv'
<1>1. work[w].pc = "leadAttach" /\ ~On(w, "idle") BY DEF LeadAttach, On
<1>2. UNCHANGED << appts, link, settled >> BY DEF LeadAttach, memory
<1>3. PICK n, p, row, k : n = work[w].next /\ p = work[w].patch /\ row = link[Conv(w)] /\ k = Conv(w) OBVIOUS
<1>4. Cmd(w) = "Lead" BY <1>1, CmdAt
<1>5. \A q : RowAt("leadAttach", q, row) = row /\ RowAt("ack", q, row) = row BY RowNow DEF Writing
<1>6. PartFor("Lead", "leadAttach", n, row, k) BY <1>1, <1>3, <1>4, <1>5 DEF PartInv, PartBy
<1>7. row \in Row /\ leads' = WithCustomer(row) BY <1>1, <1>3, <1>4, MineIsRow DEF LeadAttach, Follows
<1>8. PartFor("Lead", "ack", n, row, k) /\ ~Settling("Lead", "ack", n) BY ONLY <1>6 DEF PartFor, Led, Settling
<1>9. PartFor("Lead", "ack", n, RowAt("ack", p, row), k)'
  <2>1. PartFor("Lead", "ack", n, row, k)' BY <1>2, <1>8, NotSettling
  <2>2. RowAt("ack", p, row) = row BY <1>5
  <2> QED BY <2>1, <2>2
<1>10. Aside(k) BY <1>2, <1>3, <1>7, LeadGiven DEF Aside
<1>11. k \notin settled' BY <1>2, <1>6 DEF PartFor
<1>12. Went(w, "ack") BY LeadAttachMoves
<1> QED BY <1>1, <1>2, <1>3, <1>4, <1>9, <1>10, <1>11, <1>12, PartMove DEF Went

LEMMA PartNewLead == ASSUME Alone, OneConversation, BookShape, PartInv, NEW w \in Worker, NewLead(w) PROVE PartInv'
<1>1. work[w].pc = "newLead" /\ ~On(w, "idle") BY DEF NewLead, On
<1>2. UNCHANGED << appts, link, settled >> /\ leads' = Append(leads, 0) BY DEF NewLead
<1>3. PICK n, row, k, b : n = work[w].next /\ row = link[Conv(w)] /\ k = Conv(w) /\ b = Wanted(w) OBVIOUS
<1>4. Cmd(w) = "CreateOrUpdate" /\ k \in Conversation BY <1>1, <1>3, CmdAt, AtStep
<1>5. \A q : RowAt("newLead", q, row) = row BY RowNow DEF Writing
<1>6. PartFor("CreateOrUpdate", "newLead", n, row, k) BY <1>1, <1>3, <1>4, <1>5 DEF PartInv, PartBy
<1>7. PICK q : Wrote(w, q, "status") /\ (q = Turned(w) \/ q = NewRow(w)) BY NewLeadMoves
<1>8. PICK l : l = RowAt("linkRead", q, row) OBVIOUS
<1>9. l.lead = Len(leads) + 1 /\ (l.appt = row.appt \/ l.appt = Nothing)
  <2>1. CASE q = Turned(w)
    <3>1. DOMAIN q = { "lead", "booking", "review", "customer", "job", "appt" } /\ q.appt = Nothing /\ q.lead = Len(leads) + 1
      BY <2>1 DEF Turned
    <3> QED BY <1>1, <1>3, <1>8, <3>1, RowWritten, LeadWritten
  <2>2. CASE q = NewRow(w)
    <3>1. DOMAIN q = { "lead", "booking", "review" } /\ q.lead = Len(leads) + 1 BY <2>2 DEF NewRow
    <3> QED BY <1>1, <1>3, <1>8, <3>1, RowWritten, LeadWritten
  <2> QED BY <1>7, <2>1, <2>2
<1>10. l.lead # 0 /\ Apart(k, l) BY <1>4, <1>6, <1>9, NewLeadApart DEF PartFor, Apart
<1>11. PartFor("CreateOrUpdate", "linkRead", "status", l, k) /\ ~Settling("CreateOrUpdate", "linkRead", "status")
  BY ONLY <1>6, <1>10 DEF PartFor, Settling, Writing
<1>12. PartFor("CreateOrUpdate", "linkRead", "status", l, k)' BY <1>2, <1>11, NotSettling
<1>13. Aside(k) BY <1>2, LeadAdded DEF Aside
<1>14. k \notin settled' BY <1>2, <1>6 DEF PartFor
<1>15. PartFor("CreateOrUpdate", "linkRead", "status", RowAt("linkRead", q, row), k)' BY <1>8, <1>12
<1> QED BY <1>1, <1>2, <1>3, <1>4, <1>7, <1>13, <1>14, <1>15, PartMove DEF Wrote

LEMMA PartStatus == ASSUME Alone, OneConversation, BookShape, OneInv, PartInv, NEW w \in Worker, Status(w) PROVE PartInv'
<1>1. work[w].pc = "status" /\ ~On(w, "idle") BY DEF Status, On
<1>2. UNCHANGED << appts, link, settled >> BY DEF Status, memory
<1>3. PICK n, p, g, row, k : n = work[w].next /\ p = work[w].patch /\ g = work[w].got /\ row = link[Conv(w)] /\ k = Conv(w) OBVIOUS
<1>4. Cmd(w) = "CreateOrUpdate" BY <1>1, CmdAt
<1>5. \A q : RowAt("status", q, row) = row /\ RowAt("resolve", q, row) = row BY RowNow DEF Writing
<1>6. PartFor("CreateOrUpdate", "status", n, row, k) BY <1>1, <1>3, <1>4, <1>5 DEF PartInv, PartBy
<1>7. row \in Row /\ leads' = WithCustomer(row) BY <1>1, <1>3, <1>4, MineIsRow DEF Status, Follows, Writing
<1>8. Aside(k) BY <1>2, <1>3, <1>7, LeadGiven DEF Aside
<1>9. k \notin settled' BY <1>2, <1>6 DEF PartFor
<1>10. CASE Wrote(w, [job |-> g, customer |-> crmJobs[g].customer, review |-> FALSE], "resolve")
  <2>1. PICK q : q = [job |-> g, customer |-> crmJobs[g].customer, review |-> FALSE] OBVIOUS
  <2>2. DOMAIN q = { "job", "customer", "review" } BY <2>1
  <2>3. PICK l : l = RowAt("linkRead", q, row) OBVIOUS
  <2>4. l.lead = row.lead /\ l.appt = row.appt BY <1>1, <1>3, <2>2, <2>3, RowWritten, LeadWritten
  <2>5. PartFor("CreateOrUpdate", "linkRead", "resolve", l, k) /\ ~Settling("CreateOrUpdate", "linkRead", "resolve")
    BY ONLY <1>6, <2>4 DEF PartFor, Led, Settling, Writing, Apart
  <2>6. PartFor("CreateOrUpdate", "linkRead", "resolve", RowAt("linkRead", q, row), k)' BY <1>2, <2>3, <2>5, NotSettling
  <2>7. Wrote(w, q, "resolve") BY <1>10, <2>1
  <2> QED BY <1>1, <1>2, <1>3, <1>4, <1>8, <1>9, <2>6, <2>7, PartMove DEF Wrote
<1>11. CASE Went(w, "resolve")
  <2>1. PartFor("CreateOrUpdate", "resolve", n, row, k) /\ ~Settling("CreateOrUpdate", "resolve", n)
    BY ONLY <1>6 DEF PartFor, Led, Settling, Writing
  <2>2. RowAt("resolve", p, row) = row BY <1>5
  <2>3. PartFor("CreateOrUpdate", "resolve", n, RowAt("resolve", p, row), k)' BY <1>2, <2>1, <2>2, NotSettling
  <2> QED BY <1>1, <1>2, <1>3, <1>4, <1>8, <1>9, <1>11, <2>3, PartMove DEF Went
<1> QED BY <1>3, <1>10, <1>11, StatusMoves

LEMMA PartAttachLead == ASSUME Alone, OneConversation, BookShape, OneInv, PartInv, NEW w \in Worker, AttachLead(w) PROVE PartInv'
<1>1. work[w].pc = "attachLead" /\ ~On(w, "idle") BY DEF AttachLead, On
<1>2. UNCHANGED << appts, link, settled >> BY DEF AttachLead, memory
<1>3. PICK n, p, g, row, k : n = work[w].next /\ p = work[w].patch /\ g = work[w].got /\ row = link[Conv(w)] /\ k = Conv(w) OBVIOUS
<1>4. Cmd(w) = "CreateOrUpdate" BY <1>1, CmdAt
<1>5. \A q : RowAt("attachLead", q, row) = row /\ RowAt("book", q, row) = row BY RowNow DEF Writing
<1>6. PartFor("CreateOrUpdate", "attachLead", n, row, k) BY <1>1, <1>3, <1>4, <1>5 DEF PartInv, PartBy
<1>7. row \in Row /\ leads' = WithCustomer([row EXCEPT !.customer = g])
  BY <1>1, <1>3, <1>4, MineIsRow DEF AttachLead, Follows, Writing
<1>8. Aside(k)
  <2>1. PICK l : l = [row EXCEPT !.customer = g] OBVIOUS
  <2>2. g \in CustomerIds BY <1>1, <1>3, AtStep, RowsAre DEF GotBy, GotFor, HasOne, CustomerIds, BookShape, BookTypes
  <2>3. l \in Row /\ l.lead = row.lead BY <1>7, <2>1, <2>2 DEF Row
  <2> QED BY <1>2, <1>3, <1>7, <2>1, <2>3, LeadGiven DEF Aside
<1>9. k \notin settled' BY <1>2, <1>6 DEF PartFor
<1>10. PartFor("CreateOrUpdate", "book", n, row, k) /\ ~Settling("CreateOrUpdate", "book", n)
  BY ONLY <1>6 DEF PartFor, Led, Settling, Writing
<1>11. PartFor("CreateOrUpdate", "book", n, RowAt("book", p, row), k)'
  <2>1. RowAt("book", p, row) = row BY <1>5
  <2> QED BY <1>2, <1>10, <2>1, NotSettling
<1>12. Went(w, "book") BY AttachLeadMoves
<1> QED BY <1>1, <1>2, <1>3, <1>4, <1>8, <1>9, <1>11, <1>12, PartMove DEF Went

\* What a command writes for its booking is its conversation's.
LEMMA OwnBooking ==
  ASSUME BookShape, NEW w \in Worker, ~On(w, "idle")
  PROVE  /\ Owns(Conv(w), Wanted(w))
         /\ Cmd(w) = "CreateOrUpdate" => Wanted(w) # Nothing
<1>1. Event(w) \in Events /\ Busy(w) BY AtStep DEF Busy
<1>2. Owns(Conv(w), Wanted(w)) BY <1>1 DEF Owns, Conv, Wanted
<1>3. ASSUME Cmd(w) = "CreateOrUpdate" PROVE Wanted(w) # Nothing
  <2>1. Event(w).kind \in { "confirmed", "completed", "recovered" } BY <1>1, <1>3, RecoveryIs
  <2> QED BY <1>1, <2>1, BookingsAssumption DEF Wanted
<1> QED BY <1>2, <1>3

LEMMA OnlyOwn ==
  ASSUME BookShape, NEW k \in Conversation, NEW b, Owns(k, b), \A a \in DOMAIN appts : a # b => appts'[a] = appts[a],
         \A j \in DOMAIN leads : j # link[k].lead => leads'[j] = leads[j]
  PROVE  Aside(k)
  BY DEF Aside

LEMMA PartAttach == ASSUME Alone, OneConversation, BookShape, OneInv, PartInv, NEW w \in Worker, Attach(w) PROVE PartInv'
<1>1. work[w].pc = "attach" /\ ~On(w, "idle") BY DEF Attach, On
<1>2. UNCHANGED << link, settled >> BY DEF Attach, memory
<1>3. PICK n, m, s, p, row, b, k : /\ n = work[w].next /\ m = work[w].mine /\ s = work[w].seen /\ k = Conv(w)
                                   /\ p = work[w].patch /\ row = link[Conv(w)] /\ b = Wanted(w)
  OBVIOUS
<1>4. Cmd(w) = "CreateOrUpdate" /\ k \in Conversation BY <1>1, <1>3, CmdAt, AtStep
<1>5. \A q : RowAt("attach", q, row) = row /\ RowAt("job", q, row) = row BY RowNow DEF Writing
<1>6. PartFor("CreateOrUpdate", "attach", n, row, k) BY <1>1, <1>3, <1>4, <1>5 DEF PartInv, PartBy
<1>7. OneFor("CreateOrUpdate", "attach", n, m, s, p, row, b) BY <1>1, <1>3, <1>4 DEF OneInv, OneBy
<1>8. m = row /\ row.customer # 0 /\ row.appt = b
  BY ONLY <1>7, RowNow DEF OneFor, TrueFor, Follows, DiaryFor, Shown2, Writing
<1>9. row.lead # 0 /\ k \notin settled /\ Apart(k, row) BY ONLY <1>6 DEF PartFor, Led, Writing
<1>10. b # Nothing /\ Owns(k, b) BY <1>1, <1>3, <1>4, OwnBooking
<1>11. row \in Row /\ leads' = WithCustomer(row) BY <1>1, <1>3, <1>8, AtStep DEF Attach
<1>12. b \in DOMAIN appts /\ appts[b] \in Appt
  <2>1. row.appt \in ApptIds BY <1>11 DEF Row
  <2> QED BY <1>8, <1>10, <2>1 DEF ApptIds, BookShape, BookTypes, RowTypes
<1>13. appts'[b].customer = row.customer /\ \A a \in DOMAIN appts : a # b => appts'[a] = appts[a]
  <2>1. PICK d : d = [appts[b] EXCEPT !.customer = row.customer] OBVIOUS
  <2>2. appts' = [appts EXCEPT ![b] = d] BY <1>3, <1>8, <1>10, <2>1 DEF Attach
  <2>3. d.customer = row.customer BY <1>12, <2>1 DEF Appt
  <2> QED BY <1>12, <2>2, <2>3
<1>14. leads'[row.lead] = row.customer BY <1>8, <1>9, <1>11, LeadGiven
<1>15. Aside(k) BY <1>3, <1>4, <1>10, <1>11, <1>13, LeadGiven, OnlyOwn
<1>16. Half(row)' BY <1>8, <1>13, <1>14 DEF Half
<1>17. PartFor("CreateOrUpdate", "job", n, row, k)' BY <1>2, <1>9, <1>16 DEF PartFor, Apart
<1>18. PartFor("CreateOrUpdate", "job", n, RowAt("job", p, row), k)'
  <2>1. RowAt("job", p, row) = row BY <1>5
  <2> QED BY <1>17, <2>1
<1>19. Went(w, "job") BY AttachMoves
<1>20. k \notin settled' BY <1>2, <1>9
<1> QED BY <1>1, <1>2, <1>3, <1>4, <1>15, <1>18, <1>19, <1>20, PartMove DEF Went

LEMMA PartAttachAll == ASSUME Alone, OneConversation, BookShape, OneInv, PartInv, NEW w \in Worker, AttachAll(w) PROVE PartInv'
<1>1. work[w].pc = "attachAll" /\ ~On(w, "idle") BY DEF AttachAll, On
<1>2. link' = link BY DEF AttachAll
<1>3. PICK n, m, p, row, k : n = work[w].next /\ m = work[w].mine /\ p = work[w].patch /\ row = link[Conv(w)] /\ k = Conv(w) OBVIOUS
<1>4. Cmd(w) = "Link" /\ k \in Conversation BY <1>1, <1>3, CmdAt, AtStep
<1>5. \A q : RowAt("attachAll", q, row) = row /\ RowAt("ack", q, row) = row BY RowNow DEF Writing
<1>6. PartFor("Link", "attachAll", n, row, k) BY <1>1, <1>3, <1>4, <1>5 DEF PartInv, PartBy
<1>7. m = row /\ row \in Row
  <2>1. Follows(Cmd(w), work[w].pc, work[w].next) BY <1>1, <1>4 DEF Follows
  <2> QED BY <1>1, <1>3, <2>1, MineIsRow
<1>8. leads' = WithCustomer(row) /\ settled' = settled \cup {k} BY <1>3, <1>7 DEF AttachAll
<1>9. Apart(k, row) BY <1>6 DEF PartFor
<1>10. CASE row.appt = Nothing
  <2>1. appts' = appts BY <1>3, <1>7, <1>10 DEF AttachAll
  <2>2. Aside(k) BY <1>3, <1>7, <1>8, <2>1, LeadGiven DEF Aside
  <2>3. Agrees(row)' BY <1>10 DEF Agrees, Half
  <2>4. PartFor("Link", "ack", n, RowAt("ack", p, row), k)'
    <3>1. RowAt("ack", p, row) = row BY <1>5
    <3> QED BY <1>2, <1>9, <3>1 DEF PartFor, Led, Settling, Apart
  <2>5. Went(w, "ack") BY AttachAllMoves
  <2>6. settled' \ {k} \subseteq settled BY <1>8
  <2> QED BY <1>1, <1>2, <1>3, <1>4, <2>2, <2>3, <2>4, <2>5, <2>6, PartMove DEF Went
<1>11. CASE row.appt # Nothing
  <2>1. row.lead # 0 /\ Owns(k, row.appt) BY <1>9, <1>11 DEF Apart
  <2>2. PICK b : b = row.appt OBVIOUS
  <2>3. b \in DOMAIN appts /\ appts[b] \in Appt
    <3>1. row.appt \in ApptIds BY <1>7 DEF Row
    <3> QED BY <1>11, <2>2, <3>1 DEF ApptIds, BookShape, BookTypes, RowTypes
  <2>4. PICK d : d = Attached(appts[b], row) OBVIOUS
  <2>5. appts' = [appts EXCEPT ![b] = d] BY <1>3, <1>7, <1>11, <2>2, <2>4 DEF AttachAll
  <2>6. appts'[b] = d /\ \A a \in DOMAIN appts : a # b => appts'[a] = appts[a] BY <2>3, <2>5
  <2>7. (row.customer # 0 => d.customer = row.customer) /\ (row.job # 0 => d.job = row.job) BY <1>7, <2>3, <2>4, AttachedIs
  <2>8. row.customer # 0 => leads'[row.lead] = row.customer BY <1>7, <1>8, <2>1, LeadGiven
  <2>9. Aside(k) BY <1>3, <1>4, <1>7, <1>8, <2>1, <2>2, <2>6, LeadGiven, OnlyOwn
  <2>10. Agrees(row)' BY <2>2, <2>6, <2>7, <2>8 DEF Agrees, Half
  <2>11. PartFor("Link", "ack", n, RowAt("ack", p, row), k)'
    <3>1. RowAt("ack", p, row) = row BY <1>5
    <3> QED BY <1>2, <1>9, <3>1 DEF PartFor, Led, Settling, Apart
  <2>12. Went(w, "ack") BY AttachAllMoves
  <2>13. settled' \ {k} \subseteq settled BY <1>8
  <2> QED BY <1>1, <1>2, <1>3, <1>4, <2>9, <2>10, <2>11, <2>12, <2>13, PartMove DEF Went
<1> QED BY <1>10, <1>11

LEMMA PartReview == ASSUME Alone, OneConversation, BookShape, PartInv, NEW w \in Worker, Review(w) PROVE PartInv'
<1>1. work[w].pc = "review" /\ ~On(w, "idle") BY DEF Review, On
<1>2. UNCHANGED << leads, link, settled >> BY DEF Review
<1>3. PICK n, p, row, b, k : n = work[w].next /\ p = work[w].patch /\ row = link[Conv(w)] /\ b = Wanted(w) /\ k = Conv(w) OBVIOUS
<1>4. Cmd(w) = "CreateOrUpdate" /\ k \in Conversation BY <1>1, <1>3, CmdAt, AtStep
<1>5. \A q : RowAt("review", q, row) = row /\ RowAt("review2", q, row) = row BY RowNow DEF Writing
<1>6. PartFor("CreateOrUpdate", "review", n, row, k) BY <1>1, <1>3, <1>4, <1>5 DEF PartInv, PartBy
<1>7. Owns(k, b) BY <1>1, <1>3, OwnBooking
<1>8. Aside(k)
  <2>1. \A a \in DOMAIN appts : a # b => appts'[a] = appts[a]
    <3>1. CASE work[w].ext
      <4>1. RowTypes BY DEF BookShape, BookTypes
      <4>2. \E d : appts' = [appts EXCEPT ![b] = d] BY <1>3, <3>1, <4>1 DEF Review, RowTypes
      <4> QED BY <4>1, <4>2 DEF RowTypes
    <3>2. CASE ~work[w].ext
      <4>1. \E d : appts' = Put(b, d) BY <1>3, <3>2 DEF Review, InsertAppointment
      <4> QED BY <4>1 DEF Put
    <3> QED BY <3>1, <3>2
  <2> QED BY <1>2, <1>4, <1>7, <2>1, OnlyOwn
<1>9. k \notin settled' BY <1>2, <1>6 DEF PartFor
<1>10. CASE Went(w, "review2")
  <2>1. PartFor("CreateOrUpdate", "review2", n, row, k) /\ ~Settling("CreateOrUpdate", "review2", n)
    BY ONLY <1>6 DEF PartFor, Led, Settling, Writing
  <2>2. RowAt("review2", p, row) = row BY <1>5
  <2>3. PartFor("CreateOrUpdate", "review2", n, RowAt("review2", p, row), k)' BY <1>2, <2>1, <2>2, NotSettling
  <2> QED BY <1>1, <1>2, <1>3, <1>4, <1>8, <1>9, <1>10, <2>3, PartMove DEF Went
<1>11. CASE Wrote(w, [appt |-> Wanted(w)], "review2")
  <2>1. PICK q : q = [appt |-> b] OBVIOUS
  <2>2. DOMAIN q = { "appt" } /\ q.appt = b BY <2>1
  <2>3. PICK l : l = RowAt("linkRead", q, row) OBVIOUS
  <2>4. l.lead = row.lead /\ l.appt = b BY <1>1, <1>3, <2>2, <2>3, RowWritten, LeadWritten
  <2>5. PartFor("CreateOrUpdate", "linkRead", "review2", l, k) /\ ~Settling("CreateOrUpdate", "linkRead", "review2")
    BY ONLY <1>6, <1>7, <2>4 DEF PartFor, Led, Settling, Writing, Apart
  <2>6. PartFor("CreateOrUpdate", "linkRead", "review2", RowAt("linkRead", q, row), k)' BY <1>2, <2>3, <2>5, NotSettling
  <2>7. Wrote(w, q, "review2") BY <1>3, <1>11, <2>1
  <2> QED BY <1>1, <1>2, <1>3, <1>4, <1>8, <1>9, <2>6, <2>7, PartMove DEF Wrote
<1> QED BY <1>10, <1>11, ReviewMoves

LEMMA PartBook == ASSUME Alone, OneConversation, BookShape, OneInv, PartInv, NEW w \in Worker, Book(w) PROVE PartInv'
<1>1. work[w].pc = "book" /\ ~On(w, "idle") BY DEF Book, On
<1>2. UNCHANGED << leads, link, settled >> BY DEF Book
<1>3. PICK n, m, p, row, b, k : /\ n = work[w].next /\ m = work[w].mine /\ p = work[w].patch /\ row = link[Conv(w)]
                                /\ b = Wanted(w) /\ k = Conv(w)
  OBVIOUS
<1>4. Cmd(w) = "CreateOrUpdate" /\ k \in Conversation BY <1>1, <1>3, CmdAt, AtStep
<1>5. \A q : RowAt("book", q, row) = row BY RowNow DEF Writing
<1>6. PartFor("CreateOrUpdate", "book", n, row, k) BY <1>1, <1>3, <1>4, <1>5 DEF PartInv, PartBy
<1>7. m = row
  <2>1. Follows(Cmd(w), work[w].pc, work[w].next) BY <1>1, <1>4 DEF Follows, Writing
  <2> QED BY <1>1, <1>3, <2>1, MineIsRow
<1>8. Owns(k, b) BY <1>1, <1>3, OwnBooking
<1>9. k \notin settled' BY <1>2, <1>6 DEF PartFor
<1>10. CASE appts' = appts /\ Wrote(w, [appt |-> work[w].mine.appt, booking |-> work[w].mine.booking, review |-> TRUE], "ack")
  <2>1. PICK q : q = [appt |-> m.appt, booking |-> m.booking, review |-> TRUE] OBVIOUS
  <2>2. DOMAIN q = { "appt", "booking", "review" } /\ q.appt = row.appt BY <1>7, <2>1
  <2>3. PICK l : l = RowAt("linkRead", q, row) OBVIOUS
  <2>4. l.lead = row.lead /\ l.appt = row.appt BY <1>1, <1>3, <2>2, <2>3, RowWritten, LeadWritten
  <2>5. PartFor("CreateOrUpdate", "linkRead", "ack", l, k) BY ONLY <1>6, <2>4 DEF PartFor, Led, Settling, Writing, Apart
  <2>6. Wrote(w, q, "ack") BY <1>3, <1>10, <2>1
  <2> QED BY <1>1, <1>2, <1>3, <1>4, <1>10, <2>3, <2>5, <2>6, PartGoes DEF Wrote
<1>11. CASE /\ \A a \in DOMAIN appts \ {Wanted(w)} : appts'[a] = appts[a]
            /\ Wrote(w, [appt |-> Wanted(w), booking |-> Wanted(w), review |-> FALSE], "refresh")
  <2>1. PICK q : q = [appt |-> b, booking |-> b, review |-> FALSE] OBVIOUS
  <2>2. DOMAIN q = { "appt", "booking", "review" } /\ q.appt = b BY <2>1
  <2>3. PICK l : l = RowAt("linkRead", q, row) OBVIOUS
  <2>4. l.lead = row.lead /\ l.appt = b BY <1>1, <1>3, <2>2, <2>3, RowWritten, LeadWritten
  <2>5. PartFor("CreateOrUpdate", "linkRead", "refresh", l, k) /\ ~Settling("CreateOrUpdate", "linkRead", "refresh")
    BY ONLY <1>6, <1>8, <2>4 DEF PartFor, Led, Settling, Writing, Apart
  <2>6. PartFor("CreateOrUpdate", "linkRead", "refresh", RowAt("linkRead", q, row), k)' BY <1>2, <2>3, <2>5, NotSettling
  <2>7. Wrote(w, q, "refresh") BY <1>3, <1>11, <2>1
  <2>8. \A a \in DOMAIN appts : a # b => appts'[a] = appts[a] BY <1>3, <1>11
  <2>9. Aside(k) BY <1>2, <1>4, <1>8, <2>8, OnlyOwn
  <2> QED BY <1>1, <1>2, <1>3, <1>4, <1>9, <2>6, <2>7, <2>9, PartMove DEF Wrote
<1> QED BY <1>10, <1>11, BookMoves

LEMMA PartMakeJob == ASSUME Alone, OneConversation, BookShape, OneInv, PartInv, NEW w \in Worker, MakeJob(w) PROVE PartInv'
<1>1. work[w].pc = "job" /\ ~On(w, "idle") BY DEF MakeJob, On
<1>2. UNCHANGED << leads, appts, link, settled >> BY DEF MakeJob, memory
<1>3. PICK n, p, row, k : n = work[w].next /\ p = work[w].patch /\ row = link[Conv(w)] /\ k = Conv(w) OBVIOUS
<1>4. Cmd(w) = "CreateOrUpdate" BY <1>1, CmdAt
<1>5. \A q : RowAt("job", q, row) = row /\ RowAt("ack", q, row) = row BY RowNow DEF Writing
<1>6. PartFor("CreateOrUpdate", "job", n, row, k) BY <1>1, <1>3, <1>4, <1>5 DEF PartInv, PartBy
<1>7. ASSUME NEW q, Wrote(w, q, "attachJob"), "customer" \notin DOMAIN q, "lead" \notin DOMAIN q, "appt" \notin DOMAIN q
      PROVE  PartInv'
  <2>1. PICK l : l = RowAt("linkRead", q, row) OBVIOUS
  <2>2. l.lead = row.lead /\ l.appt = row.appt /\ l.customer = row.customer BY <1>1, <1>3, <1>7, <2>1, RowWritten, LeadWritten
  <2>3. PartFor("CreateOrUpdate", "linkRead", "attachJob", l, k)
    BY ONLY <1>6, <2>2 DEF PartFor, Led, Settling, Half, Writing, Apart
  <2> QED BY <1>1, <1>2, <1>3, <1>4, <1>7, <2>1, <2>3, PartGoes DEF Wrote
<1>8. CASE Wrote(w, [review |-> FALSE], "attachJob")
  <2>1. PICK q : q = [review |-> FALSE] OBVIOUS
  <2>2. DOMAIN q = { "review" } BY <2>1
  <2> QED BY <1>7, <1>8, <2>1, <2>2
<1>9. CASE Wrote(w, [job |-> Len(crmJobs) + 1, review |-> FALSE], "attachJob")
  <2>1. PICK q : q = [job |-> Len(crmJobs) + 1, review |-> FALSE] OBVIOUS
  <2>2. DOMAIN q = { "job", "review" } BY <2>1
  <2> QED BY <1>7, <1>9, <2>1, <2>2
<1>10. CASE Went(w, "ack")
  <2>1. PartFor("CreateOrUpdate", "ack", n, row, k) BY ONLY <1>6 DEF PartFor, Led, Settling, Writing
  <2> QED BY <1>1, <1>2, <1>3, <1>4, <1>5, <1>10, <2>1, PartGoes DEF Went
<1> QED BY <1>8, <1>9, <1>10, MakeJobMoves

LEMMA PartAttachJob == ASSUME Alone, OneConversation, BookShape, OneInv, PartInv, NEW w \in Worker, AttachJob(w) PROVE PartInv'
<1>1. work[w].pc = "attachJob" /\ ~On(w, "idle") BY DEF AttachJob, On
<1>2. UNCHANGED << leads, link >> BY DEF AttachJob
<1>3. PICK n, m, s, p, row, b, k : /\ n = work[w].next /\ m = work[w].mine /\ s = work[w].seen /\ k = Conv(w)
                                   /\ p = work[w].patch /\ row = link[Conv(w)] /\ b = Wanted(w)
  OBVIOUS
<1>4. Cmd(w) = "CreateOrUpdate" /\ k \in Conversation BY <1>1, <1>3, CmdAt, AtStep
<1>5. \A q : RowAt("attachJob", q, row) = row /\ RowAt("ack", q, row) = row BY RowNow DEF Writing
<1>6. PartFor("CreateOrUpdate", "attachJob", n, row, k) BY <1>1, <1>3, <1>4, <1>5 DEF PartInv, PartBy
<1>7. OneFor("CreateOrUpdate", "attachJob", n, m, s, p, row, b) BY <1>1, <1>3, <1>4 DEF OneInv, OneBy
<1>8. m = row /\ row.appt = b
  BY ONLY <1>7, RowNow DEF OneFor, TrueFor, Follows, DiaryFor, Shown2, Writing
<1>9. Half(row) /\ Apart(k, row) BY ONLY <1>6 DEF PartFor, Settling
<1>10. b # Nothing /\ Owns(k, b) BY <1>1, <1>3, <1>4, OwnBooking
<1>11. row \in Row /\ settled' = settled \cup {k} BY <1>1, <1>3, AtStep DEF AttachJob
<1>12. b \in DOMAIN appts /\ appts[b] \in Appt
  <2>1. row.appt \in ApptIds BY <1>11 DEF Row
  <2> QED BY <1>8, <1>10, <2>1 DEF ApptIds, BookShape, BookTypes, RowTypes
<1>13. /\ appts'[b].job = row.job /\ appts'[b].customer = appts[b].customer
       /\ \A a \in DOMAIN appts : a # b => appts'[a] = appts[a]
  <2>1. PICK d : d = [appts[b] EXCEPT !.job = row.job] OBVIOUS
  <2>2. appts' = [appts EXCEPT ![b] = d] BY <1>3, <1>8, <1>10, <2>1 DEF AttachJob
  <2>3. d.job = row.job /\ d.customer = appts[b].customer BY <1>12, <2>1 DEF Appt
  <2> QED BY <1>12, <2>2, <2>3
<1>14. Aside(k) BY <1>2, <1>4, <1>10, <1>13, OnlyOwn
<1>15. Agrees(row)' BY <1>2, <1>8, <1>9, <1>13 DEF Agrees, Half
<1>16. PartFor("CreateOrUpdate", "ack", n, RowAt("ack", p, row), k)'
  <2>1. RowAt("ack", p, row) = row BY <1>5
  <2> QED BY <1>2, <1>9, <2>1 DEF PartFor, Led, Settling, Apart, Writing
<1>17. Went(w, "ack") BY AttachJobMoves
<1>18. settled' \ {k} \subseteq settled BY <1>11
<1> QED BY <1>1, <1>2, <1>3, <1>4, <1>14, <1>15, <1>16, <1>17, <1>18, PartMove DEF Went

-----------------------------------------------------------------------------
(* The platform's calendar: what a row agrees with it leaves.              *)

LEMMA PartCalendar ==
  ASSUME Alone, OneConversation, BookShape, PartInv, NEW w \in Worker, ~On(w, "idle"), Cmd(w) \in { "Upsert", "Cancel" },
         Went(w, "ack"), work[w].pc \notin Writing, UNCHANGED << leads, link, settled >>,
         \A a \in DOMAIN appts : a # Wanted(w) => appts'[a] = appts[a],
         \A a \in DOMAIN appts : /\ appts'[a].job = appts[a].job
                                 /\ appts[a].customer # 0 => appts'[a].customer = appts[a].customer
  PROVE  PartInv'
<1>1. PICK cmd, n, p, row, b, k : /\ cmd = Cmd(w) /\ n = work[w].next /\ p = work[w].patch /\ row = link[Conv(w)]
                                  /\ b = Wanted(w) /\ k = Conv(w)
  OBVIOUS
<1>2. k \in Conversation /\ row \in Row BY <1>1, AtStep
<1>3. Aside(k) BY <1>1, <1>2, OwnBooking, OnlyOwn
<1>4. ASSUME Agrees(row) PROVE Agrees(row)'
  <2>1. ASSUME row.appt # Nothing, row.customer # 0
        PROVE  /\ appts'[row.appt].customer = row.customer /\ leads'[row.lead] = row.customer
               /\ row.job # 0 => appts'[row.appt].job = row.job
    <3>1. row.appt \in ApptIds BY <1>2 DEF Row
    <3>2. row.appt \in DOMAIN appts BY <2>1, <3>1 DEF ApptIds
    <3> QED BY <1>4, <2>1, <3>2 DEF Agrees, Half
  <2> QED BY <2>1 DEF Agrees, Half
<1>5. k \in settled' => Agrees(row)' BY <1>1, <1>4 DEF PartInv
<1>6. PartFor(cmd, "ack", n, RowAt("ack", p, row), k)'
  <2>1. RowAt("ack", p, row) = row BY RowNow DEF Writing
  <2>2. Apart(k, row) BY <1>1, <1>2 DEF PartInv
  <2>3. ~Led(cmd, "ack", n) /\ ~Settling(cmd, "ack", n) BY <1>1 DEF Led, Settling, Writing
  <2> QED BY <2>1, <2>2, <2>3 DEF PartFor, Apart
<1> QED BY <1>1, <1>3, <1>5, <1>6, PartMove DEF Went

LEMMA PartUpsert == ASSUME Alone, OneConversation, BookShape, PartInv, NEW w \in Worker, Upsert(w) PROVE PartInv'
<1>1. work[w].pc = "upsert" /\ ~On(w, "idle") /\ work[w].pc \notin Writing BY DEF Upsert, On, Writing
<1>2. UNCHANGED << leads, link, settled >> BY DEF Upsert, memory
<1>3. PICK b : b = Wanted(w) OBVIOUS
<1>4. RowTypes BY DEF BookShape, BookTypes
<1>5. /\ \A a \in DOMAIN appts : a # b => appts'[a] = appts[a]
      /\ \A a \in DOMAIN appts : /\ appts'[a].job = appts[a].job
                                 /\ appts[a].customer # 0 => appts'[a].customer = appts[a].customer
  <2>1. CASE b \in DOMAIN appts
    <3>1. appts[b] \in Appt BY <1>4, <2>1 DEF RowTypes
    <3>2. PICK d : d = [appts[b] EXCEPT !.state = "scheduled", !.customer = IF @ = 0 THEN work[w].got ELSE @] OBVIOUS
    <3>3. appts' = [appts EXCEPT ![b] = d]
      <4>1. appts' = [appts EXCEPT ![b].state = "scheduled", ![b].customer = IF @ = 0 THEN work[w].got ELSE @]
        BY <1>3, <2>1 DEF Upsert
      <4> QED BY <1>4, <2>1, <3>1, <3>2, <4>1 DEF RowTypes, Appt
    <3>4. d.job = appts[b].job /\ (appts[b].customer # 0 => d.customer = appts[b].customer) BY <3>1, <3>2 DEF Appt
    <3> QED BY <1>4, <3>3, <3>4 DEF RowTypes
  <2>2. CASE b \notin DOMAIN appts
    <3>1. \E d : appts' = Put(b, d) BY <1>3, <2>2 DEF Upsert
    <3>2. \A a \in DOMAIN appts : appts'[a] = appts[a] BY <2>2, <3>1 DEF Put
    <3> QED BY <3>2
  <2> QED BY <2>1, <2>2
<1> QED BY <1>1, <1>2, <1>3, <1>5, UpsertMoves, CmdAt, PartCalendar

LEMMA PartCancel == ASSUME Alone, OneConversation, BookShape, PartInv, NEW w \in Worker, Cancel(w) PROVE PartInv'
<1>1. work[w].pc = "cancel" /\ ~On(w, "idle") /\ work[w].pc \notin Writing BY DEF Cancel, On, Writing
<1>2. UNCHANGED << leads, link, settled >> BY DEF Cancel, memory
<1>3. PICK b : b = Wanted(w) OBVIOUS
<1>4. RowTypes BY DEF BookShape, BookTypes
<1>5. /\ \A a \in DOMAIN appts : a # b => appts'[a] = appts[a]
      /\ \A a \in DOMAIN appts : /\ appts'[a].job = appts[a].job
                                 /\ appts[a].customer # 0 => appts'[a].customer = appts[a].customer
  <2>1. CASE b \in DOMAIN appts
    <3>1. appts[b] \in Appt BY <1>4, <2>1 DEF RowTypes
    <3>2. PICK d : d = [appts[b] EXCEPT !.state = "cancelled"] OBVIOUS
    <3>3. appts' = [appts EXCEPT ![b] = d] BY <1>3, <2>1, <3>2 DEF Cancel
    <3>4. d.job = appts[b].job /\ d.customer = appts[b].customer BY <3>1, <3>2 DEF Appt
    <3> QED BY <1>4, <3>3, <3>4 DEF RowTypes
  <2>2. CASE b \notin DOMAIN appts BY <1>3, <2>2 DEF Cancel
  <2> QED BY <2>1, <2>2
<1> QED BY <1>1, <1>2, <1>3, <1>5, CancelMoves, CmdAt, PartCalendar

-----------------------------------------------------------------------------
(* Between commands, and every step.                                       *)

LEMMA PartFailed == ASSUME Alone, BookShape, PartInv, NEW w \in Worker, FailCommand(w) \/ Refused(w) PROVE PartInv'
<1>1. work' = [work EXCEPT ![w] = Resting] /\ UNCHANGED << crm, link, settled >> BY DEF FailCommand, Refused, memory
<1>2. BookShape' BY FailedMoves
<1>3. Starting(work'[w].pc, work'[w].next) /\ On(w, "idle")' BY <1>1, IdleIs DEF On
<1> QED BY <1>1, <1>2, <1>3, PartBetween

LEMMA PartProceeds == ASSUME Alone, BookShape, PartInv, NEW w \in Worker, Acknowledge(w) \/ Defer(w) PROVE PartInv'
<1>1. ~On(w, "idle") /\ Proceed(w) /\ UNCHANGED << crm, link >> BY DEF Acknowledge, Defer, On
<1>2. BookShape' BY AckMoves, DeferMoves
<1>3. Starting(work'[w].pc, work'[w].next) BY <1>1, ProceedIs
<1>4. settled' \subseteq settled BY <1>1 DEF Proceed
<1>5. ~On(w, "idle")' => Conv(w)' \notin settled'
  <2> SUFFICES ASSUME ~On(w, "idle")' PROVE Conv(w)' \notin settled' OBVIOUS
  <2>1. work'[w].event = {Event(w)} /\ work[w].step < Len(Commands(Event(w))) BY <1>1, ProceedIs DEF On
  <2>2. Conv(w)' = Event(w).conv BY <2>1 DEF Conv, Event
  <2>3. settled' = settled \ { Event(w).conv } BY <1>1, <2>1 DEF Proceed
  <2> QED BY <2>2, <2>3
<1> QED BY <1>1, <1>2, <1>3, <1>4, <1>5, PartBetween

LEMMA PartTakenUp == ASSUME Alone, BookShape, PartInv, NEW w \in Worker, NEW e \in Events, BeginEvent(w, e) \/ Recover(w, e) PROVE PartInv'
<1>1. /\ UNCHANGED << crm, link >>
      /\ settled' = IF e.kind \in { "upserted", "cancelled" } THEN settled ELSE settled \ { e.conv }
  BY DEF BeginEvent, Recover
<1>2. BookShape' BY BeginMoves
<1>3. Starting(work'[w].pc, work'[w].next) /\ work'[w].event = {e} BY TakenUp
<1>4. Event(w)' = e /\ Conv(w)' = e.conv BY <1>3 DEF Event, Conv
<1>5. ~On(w, "idle")' => Cmd(w)' \in { "Upsert", "Cancel" } \/ Conv(w)' \notin settled'
  <2> SUFFICES ASSUME ~On(w, "idle")', e.kind \in { "upserted", "cancelled" } PROVE Cmd(w)' \in { "Upsert", "Cancel" }
    BY <1>1, <1>4
  <2>1. PICK i : i = work'[w].step OBVIOUS
  <2>2. i \in 1 .. Len(Commands(e))
    <3>1. Busy(w)' BY <1>2 DEF BookShape, BusyInv, Vacant
    <3> QED BY <1>4, <2>1, <3>1 DEF Busy
  <2>3. Commands(e)[i] \in { "Upsert", "Cancel" } BY ONLY <2>2, e.kind \in { "upserted", "cancelled" } DEF Commands
  <2>4. Cmd(w)' = Commands(e)[i] BY <1>4, <2>1 DEF Cmd
  <2> QED BY <2>3, <2>4
<1>6. settled' \subseteq settled BY <1>1
<1> QED BY <1>1, <1>2, <1>3, <1>5, <1>6, PartBetween

LEMMA PartStays == ASSUME Alone, OneConversation, BookShape, OneInv, PartInv, BookingNext PROVE PartInv'
<1>1. PICK w \in Worker : CommandStep(w) \/ FailCommand(w) \/ Defer(w) \/ \E e \in Events : BeginEvent(w, e) \/ Recover(w, e)
  BY DEF BookingNext
<1>2. CASE Customers(w)
  BY <1>2, PartFindNone, PartFindOne, PartFindConflict, PartInsertCustomer, PartUpdateCustomer, PartMatched DEF Customers
<1>3. CASE Linking(w)
  BY <1>3, PartLinkRead, PartLinkWrite, PartLinkStart, PartLinked, PartFindJob, PartAttachAll DEF Linking
<1>4. CASE Qualifying(w) BY <1>4, PartLeadStart, PartLeadInsert, PartLeadAttach DEF Qualifying
<1>5. CASE Ensuring(w)
  BY <1>5, PartLookup, PartEnsure, PartNewLead, PartStatus, PartResolve, PartResolved, PartAttachLead DEF Ensuring
<1>6. CASE Booked(w)
  BY <1>6, PartReview, PartReview2, PartBook, PartFailed, PartRefresh, PartHealed, PartReread, PartAttach, PartMakeJob, PartAttachJob
  DEF Booked
<1>7. CASE Calendar(w) BY <1>7, PartUpsert, PartCancel DEF Calendar
<1>8. CASE Acknowledge(w) \/ Defer(w) BY <1>8, PartProceeds
<1>9. CASE FailCommand(w) BY <1>9, PartFailed
<1>10. CASE \E e \in Events : BeginEvent(w, e) \/ Recover(w, e) BY <1>10, PartTakenUp
<1> QED BY <1>1, <1>2, <1>3, <1>4, <1>5, <1>6, <1>7, <1>8, <1>9, <1>10 DEF CommandStep

LEMMA PartStutters == ASSUME PartInv, UNCHANGED bookingVars PROVE PartInv'
<1>1. UNCHANGED << leads, appts, link, work, settled >> BY DEF bookingVars
<1>2. ASSUME NEW w \in Worker, ~On(w, "idle")' PROVE PartBy(w)'
  <2>1. PartBy(w) BY <1>1, <1>2 DEF PartInv, On
  <2>2. PICK cmd, pc, next, l, k : /\ cmd = Cmd(w) /\ pc = work[w].pc /\ next = work[w].next
                                   /\ k = Conv(w) /\ l = RowAt(work[w].pc, work[w].patch, link[k])
    OBVIOUS
  <2>3. PartFor(cmd, pc, next, l, k)' BY <1>1, <2>1, <2>2 DEF PartBy, PartFor, Apart, Half
  <2>4. /\ Cmd(w)' = cmd /\ Conv(w)' = k /\ work'[w].pc = pc /\ work'[w].next = next
        /\ RowAt(work'[w].pc, work'[w].patch, link'[k]) = l
    BY <1>1, <2>2 DEF Cmd, Conv, Event
  <2> QED BY <2>3, <2>4 DEF PartBy
<1>3. \A c \in Conversation : Apart(c, link[c])' BY <1>1 DEF PartInv, Apart
<1>4. \A c \in settled' : Agrees(link[c])' BY <1>1 DEF PartInv, Agrees, Half
<1> QED BY <1>2, <1>3, <1>4 DEF PartInv

LEMMA PartAtFirst == ASSUME BookingInit PROVE PartInv
<1>1. \A w \in Worker : On(w, "idle") BY DEF BookingInit, On, Resting
<1>2. \A c \in Conversation : link[c].appt = Nothing /\ link[c].lead = 0 BY DEF BookingInit, NoLink
<1>3. \A c \in Conversation : Apart(c, link[c]) BY <1>2 DEF Apart
<1>4. settled = {} BY DEF BookingInit
<1> QED BY <1>1, <1>3, <1>4 DEF PartInv

\* With one worker, and bookings that each belong to one conversation: where the last
\* command that attaches rows ran to its end, the appointment, the lead and the link
\* row name the same customer, and the appointment the job of the link.
THEOREM AgreesCorrect == ASSUME NEW o, Worker = {o}, OneConversation PROVE BookingSpec => []SettledAgrees
<1>0. Alone BY DEF Alone
<1>1. BookingInit => BookShape /\ HeldInv /\ OneInv /\ PartInv BY ShapeAtFirst, HeldAtFirst, OneAtFirst, PartAtFirst
<1>2. BookShape /\ HeldInv /\ OneInv /\ PartInv /\ [BookingNext]_bookingVars => (BookShape /\ HeldInv /\ OneInv /\ PartInv)'
  <2>1. ASSUME BookShape, HeldInv, OneInv, PartInv, BookingNext PROVE (BookShape /\ HeldInv /\ OneInv /\ PartInv)'
    BY <1>0, <2>1, ShapeStays, HeldStays, OneStays, PartStays
  <2>2. ASSUME BookShape, HeldInv, OneInv, PartInv, UNCHANGED bookingVars PROVE (BookShape /\ HeldInv /\ OneInv /\ PartInv)'
    BY <2>2, ShapeStutters, HeldStutters, OneStutters, PartStutters
  <2> QED BY <2>1, <2>2
<1>3. PartInv => SettledAgrees BY DEF PartInv, SettledAgrees, Agrees, Half
<1> QED BY <1>1, <1>2, <1>3, PTL DEF BookingSpec
==============================================================================
