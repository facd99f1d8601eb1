---------------------------- MODULE Intake_proofs ----------------------------
(***************************************************************************)
(* Proofs about Intake, for any numbers of requests, forms, messages,      *)
(* moments, edits and faults: what is made double, passed by, told to      *)
(* nobody or overwritten is paid for by requests that overlapped and calls *)
(* that failed.                                                            *)
(***************************************************************************)
EXTENDS Intake, FiniteSetTheorems, WellFoundedInduction, TLAPS

FormPC == { "match", "create", "fill", "recent", "open", "join", "alert", "sms" }
MessagePC == { "byPhone", "byEmail", "introduce", "capture", "thread", "upsert" }
WithLead == { "join", "alert", "sms" }

Names == { f.name : f \in Forms } \cup { m.name : m \in Messages }
Phones == { Stored[typed] : typed \in DOMAIN Stored } \cup { m.phone : m \in Messages }
Prints == { Fingerprint(f) : f \in Forms }
Contacts == { Contact(m) : m \in Messages }

Customer == [name : Names, phone : Phones, email : Emails, archived : BOOLEAN, source : { "form", "message" }]
Thread == [id : Nat, contact : Contacts, lead : Nat]
Lead == [fingerprint : Prints \cup { None }, customer : Nat, count : Nat, last : Nat, open : BOOLEAN]
Row == [pc : { "idle" } \cup FormPC \cup MessagePC, input : Forms \cup Messages \cup { None },
        at : Nat, customer : Nat, email : Emails \cup { None },
        lead : Nat, count : Nat, thread : Nat, repeated : SUBSET Nat]

Bounds == [forms : SUBSET Forms, messages : SUBSET Messages,
           requests : Nat, edits : Nat, ticks : Nat, faults : Nat]

TypeOK ==
  /\ customers \in Seq(Customer) /\ leads \in Seq(Lead) /\ alerts \subseteq Nat \X Nat
  /\ threads \in Seq(Thread)
  /\ req \in [Request -> Row] /\ now \in Nat
  /\ accepted \subseteq [lead : Nat, at : Nat] /\ bypassed \subseteq Nat
  /\ untold \in Nat /\ clobbers \in Nat /\ overlaps \in Nat /\ faults \in Nat
  /\ budget \in Bounds

\* What a request works on, and what it refers to.
Equipped(r) ==
  /\ req[r].pc \in FormPC => Input(r) \in Forms
  /\ req[r].pc \in MessagePC => Input(r) \in Messages
  /\ At(r, "fill") => req[r].customer \in DOMAIN customers
  /\ req[r].pc \in WithLead => req[r].lead \in DOMAIN leads
                               /\ leads[req[r].lead].fingerprint = Fingerprint(Input(r))
  /\ req[r].at <= now
  /\ \A l \in req[r].repeated : l \in DOMAIN leads
Refers ==
  /\ \A r \in Request : Equipped(r)
  /\ \A key \in alerts : key[1] \in DOMAIN leads
  /\ \A a \in accepted : a.lead \in DOMAIN leads /\ a.at <= now
  /\ bypassed \subseteq DOMAIN leads
  /\ \A l \in DOMAIN leads : leads[l].last <= now
TypeInv == TypeOK /\ Refers

-----------------------------------------------------------------------------
LEMMA IdleIsRow == Idle \in Row /\ Idle.pc = "idle"
BY DEF Idle, Row

\* A request is replaced by one of its type.
LEMMA Moves ==
  ASSUME TypeOK, NEW r \in Request, NEW q \in Row, req' = [req EXCEPT ![r] = q]
  PROVE  req' \in [Request -> Row] /\ req'[r] = q /\ \A p \in Request \ {r} : req'[p] = req[p]
BY DEF TypeOK

LEMMA GotoMoves ==
  ASSUME TypeOK, NEW r \in Request, NEW pc \in { "idle" } \cup FormPC \cup MessagePC, Goto(r, pc)
  PROVE  /\ req' \in [Request -> Row] /\ req'[r] = [req[r] EXCEPT !.pc = pc]
         /\ \A p \in Request \ {r} : req'[p] = req[p]
<1>1. req \in [Request -> Row] /\ req[r] \in Row BY DEF TypeOK
<1>2. [req[r] EXCEPT !.pc = pc] \in Row BY <1>1 DEF Row
<1>3. req' = [req EXCEPT ![r] = [req[r] EXCEPT !.pc = pc]] BY <1>1 DEF Goto
<1> QED BY <1>1, <1>2, <1>3

LEMMA SpendType ==
  ASSUME budget \in Bounds, NEW bound \in { "requests", "edits", "ticks", "faults" }, Spend(bound)
  PROVE  budget' \in Bounds
BY DEF Bounds, Spend

LEMMA FaultType ==
  ASSUME TypeOK, Fault
  PROVE  faults' = faults + 1 /\ faults' \in Nat /\ budget' \in Bounds
BY SpendType DEF TypeOK, Fault

LEMMA BoundsType ==
  ASSUME TypeOK, UNCHANGED bounds \/ Fault
  PROVE  faults' \in Nat /\ faults <= faults' /\ budget' \in Bounds
BY FaultType DEF TypeOK, bounds

LEMMA OverlapType ==
  ASSUME TypeOK, Overlap
  PROVE  overlaps' \in Nat /\ overlaps <= overlaps'
         /\ (Running = {} => overlaps' = overlaps) /\ (Running # {} => overlaps' = overlaps + 1)
BY DEF TypeOK, Overlap

\* What the requests that do not move refer to is still there.
LEMMA OthersEquipped ==
  ASSUME TypeInv, NEW r, \A p \in Request \ {r} : req'[p] = req[p],
         DOMAIN customers \subseteq DOMAIN customers', DOMAIN leads \subseteq DOMAIN leads',
         \A l \in DOMAIN leads : leads'[l].fingerprint = leads[l].fingerprint,
         now' \in Nat, now <= now'
  PROVE  \A p \in Request \ {r} : Equipped(p)'
<1> SUFFICES ASSUME NEW p \in Request \ {r} PROVE Equipped(p)' OBVIOUS
<1>1. Equipped(p) /\ req[p] \in Row /\ now \in Nat /\ req'[p] = req[p] BY DEF TypeInv, TypeOK, Refers
<1>2. req[p].at \in Nat BY <1>1 DEF Row
<1> QED BY <1>1, <1>2 DEF Equipped, At, Input, WithLead

-----------------------------------------------------------------------------
\* A set of natural numbers has a least element.
LEMMA LeastNat ==
  ASSUME NEW S, S \subseteq Nat, S # {}
  PROVE  \E n \in S : \A m \in S : n <= m
<1>1. PICK R : IsWellFoundedOn(R, Nat) /\ R = { ss \in Nat \X Nat : ss[1] < ss[2] }
  BY NatLessThanWellFounded, Zenon DEF OpToRel
<1>2. PICK n \in S : \A m \in S : ~ (<< m, n >> \in R) BY <1>1, WFMin
<1>3. \A m \in S : m < n => << m, n >> \in R BY <1>1
<1>4. n \in Nat /\ \A m \in S : m \in Nat OBVIOUS
<1>5. \A m \in S : ~ (m < n) BY <1>2, <1>3
<1> QED BY <1>4, <1>5

\* A bounded one has a greatest.
LEMMA MaxIs ==
  ASSUME NEW S, S \subseteq Nat, S # {}, NEW n \in Nat, \A x \in S : x <= n
  PROVE  Max(S) \in S /\ \A x \in S : x <= Max(S)
<1> DEFINE T == { m \in Nat : \A x \in S : x <= m }
<1>1. T \subseteq Nat /\ n \in T OBVIOUS
<1>2. PICK m \in T : \A k \in T : m <= k BY <1>1, LeastNat
<1>3. m \in Nat /\ \A x \in S : x \in Nat /\ x <= m BY <1>2
<1>4. m \in S
  <2>1. SUFFICES ASSUME m \notin S PROVE FALSE OBVIOUS
  <2>2. \A x \in S : x <= m - 1 BY <1>3, <2>1
  <2>3. PICK x : x \in S OBVIOUS
  <2>4. m - 1 \in Nat BY <1>3, <2>1, <2>3
  <2>5. m - 1 \in T BY <2>2, <2>4
  <2>6. m <= m - 1 BY <1>2, <2>5
  <2> QED BY <2>6, <1>3
<1>5. \A y \in S : m >= y BY <1>3
<1>6. \E x \in S : \A y \in S : x >= y BY <1>4, <1>5
<1>7. Max(S) \in S /\ \A y \in S : Max(S) >= y BY <1>6, Zenon DEF Max
<1> QED BY <1>7

LEMMA MaxOfPositions ==
  ASSUME NEW T, NEW s \in Seq(T), NEW S, S \subseteq DOMAIN s, S # {}
  PROVE  Max(S) \in S /\ Max(S) \in Nat /\ \A x \in S : x <= Max(S)
<1>1. Len(s) \in Nat /\ S \subseteq Nat /\ \A x \in S : x <= Len(s) OBVIOUS
<1> QED BY <1>1, MaxIs

-----------------------------------------------------------------------------
(* The type invariant.                                                     *)

LEMMA TypeInit == ASSUME IntakeAssumption, Init PROVE TypeInv
<1>1. req \in [Request -> Row] /\ \A r \in Request : req[r] = Idle BY IdleIsRow DEF Init
<1>2. customers \in Seq(Customer) /\ leads \in Seq(Lead) /\ threads \in Seq(Thread)
      /\ DOMAIN leads = {}
  BY DEF Init
<1>3. budget \in Bounds BY DEF Init, IntakeAssumption, Bounds
<1>4. TypeOK BY <1>1, <1>2, <1>3 DEF Init, TypeOK
<1>5. \A r \in Request : Equipped(r) BY <1>1 DEF Init, Equipped, Idle, At, Input, FormPC, MessagePC, WithLead
<1>6. Refers BY <1>2, <1>5 DEF Init, Refers
<1> QED BY <1>4, <1>6 DEF TypeInv

\* A request goes on, and what is recorded of the past is kept.
LEMMA OnlyMoves ==
  ASSUME TypeInv, NEW r \in Request, NEW q \in Row, req' = [req EXCEPT ![r] = q],
         UNCHANGED << rows, now, accepted, bypassed, untold, clobbers >>,
         overlaps' \in Nat, faults' \in Nat, budget' \in Bounds, Equipped(r)'
  PROVE  TypeInv'
<1>1. req' \in [Request -> Row] /\ \A p \in Request \ {r} : req'[p] = req[p] BY Moves DEF TypeInv
<1>2. now \in Nat /\ UNCHANGED << customers, leads, alerts, threads >> BY DEF TypeInv, TypeOK, rows
<1>3. \A p \in Request \ {r} : Equipped(p)' BY <1>1, <1>2, OthersEquipped
<1>4. \A p \in Request : Equipped(p)' BY <1>3
<1>5. Refers' BY <1>2, <1>4 DEF TypeInv, Refers
<1>6. TypeOK' BY <1>1, <1>2 DEF TypeInv, TypeOK
<1> QED BY <1>5, <1>6 DEF TypeInv

LEMMA SubmitType ==
  ASSUME IntakeAssumption, TypeInv, NEW r \in Request, NEW f \in Forms, Submit(r, f)
  PROVE  TypeInv'
<1> DEFINE rep == { a.lead : a \in { b \in accepted : leads[b.lead].fingerprint = Fingerprint(f) /\ now - b.at <= Window } }
           q == [Idle EXCEPT !.pc = "match", !.input = f, !.at = now, !.repeated = rep]
<1>1. req' = [req EXCEPT ![r] = q] BY DEF Submit
<1>2. rep \subseteq DOMAIN leads /\ rep \in SUBSET Nat BY DEF TypeInv, TypeOK, Refers
<1>3. now \in Nat BY DEF TypeInv, TypeOK
<1>4. q \in Row /\ q.pc = "match" /\ q.input = f /\ q.at = now /\ q.repeated = rep
  BY <1>2, <1>3 DEF Idle, Row, FormPC
<1> HIDE DEF rep, q
<1>5. req'[r] = q BY <1>1, <1>4, Moves DEF TypeInv
<1>6. budget' \in Bounds BY SpendType DEF Submit, TypeInv, TypeOK
<1>7. overlaps' \in Nat BY OverlapType DEF Submit, TypeInv
<1>8. faults' \in Nat /\ UNCHANGED << rows, now, accepted, bypassed, untold, clobbers >> BY DEF Submit, TypeInv, TypeOK
<1>9. leads' = leads /\ now' = now BY <1>8 DEF rows
<1>10. Equipped(r)'
  BY <1>2, <1>3, <1>4, <1>5, <1>9 DEF Equipped, At, Input, FormPC, MessagePC, WithLead
<1> QED BY <1>1, <1>4, <1>6, <1>7, <1>8, <1>10, OnlyMoves

LEMMA ReceiveType ==
  ASSUME IntakeAssumption, TypeInv, NEW r \in Request, NEW m \in Messages, Receive(r, m)
  PROVE  TypeInv'
<1> DEFINE q == [Idle EXCEPT !.pc = IF m.phone # None THEN "byPhone" ELSE "byEmail", !.input = m, !.at = now]
<1>1. req' = [req EXCEPT ![r] = q] BY DEF Receive
<1>2. now \in Nat BY DEF TypeInv, TypeOK
<1>3. q \in Row /\ q.pc \in { "byPhone", "byEmail" } /\ q.input = m /\ q.at = now /\ q.repeated = {}
  BY <1>2 DEF Idle, Row, MessagePC
<1> HIDE DEF q
<1>4. req'[r] = q BY <1>1, <1>3, Moves DEF TypeInv
<1>5. budget' \in Bounds BY SpendType DEF Receive, TypeInv, TypeOK
<1>6. overlaps' \in Nat BY OverlapType DEF Receive, TypeInv
<1>7. faults' \in Nat /\ UNCHANGED << rows, now, accepted, bypassed, untold, clobbers >> BY DEF Receive, TypeInv, TypeOK
<1>8. leads' = leads /\ now' = now BY <1>7 DEF rows
<1>9. Equipped(r)'
  BY <1>2, <1>3, <1>4, <1>8 DEF Equipped, At, Input, FormPC, MessagePC, WithLead
<1> QED BY <1>1, <1>3, <1>5, <1>6, <1>7, <1>9, OnlyMoves

\* A request that goes to another await.
LEMMA GotoIs ==
  ASSUME TypeInv, NEW r \in Request, NEW pc \in { "idle" } \cup FormPC \cup MessagePC, Goto(r, pc)
  PROVE  LET q == [req[r] EXCEPT !.pc = pc] IN
         /\ req' = [req EXCEPT ![r] = q] /\ q \in Row /\ q.pc = pc
         /\ q.input = Input(r) /\ q.at = req[r].at /\ q.customer = req[r].customer
         /\ q.lead = req[r].lead /\ q.repeated = req[r].repeated
BY DEF TypeInv, TypeOK, Goto, Row, Input

\* To an await that asks for no more than the one it comes from.
LEMMA GotoType ==
  ASSUME TypeInv, NEW r \in Request, NEW pc, Goto(r, pc),
         \/ req[r].pc \in FormPC /\ pc \in FormPC \ (WithLead \cup { "fill" })
         \/ req[r].pc \in MessagePC /\ pc \in MessagePC,
         UNCHANGED bounds \/ Fault,
         UNCHANGED << rows, now, history >>
  PROVE  TypeInv'
<1>1. Equipped(r) /\ pc \in { "idle" } \cup FormPC \cup MessagePC BY DEF TypeInv, Refers
<1> DEFINE q == [req[r] EXCEPT !.pc = pc]
<1>2. /\ req' = [req EXCEPT ![r] = q] /\ q \in Row /\ q.pc = pc
      /\ q.input = Input(r) /\ q.at = req[r].at /\ q.repeated = req[r].repeated
  BY <1>1, GotoIs
<1> HIDE DEF q
<1>3. req'[r] = q BY <1>2, Moves DEF TypeInv
<1>4. UNCHANGED << customers, leads, now >> BY DEF rows
<1>5. Equipped(r)' BY <1>1, <1>2, <1>3, <1>4 DEF Equipped, At, Input, FormPC, MessagePC, WithLead
<1>6. faults' \in Nat /\ budget' \in Bounds BY BoundsType DEF TypeInv
<1>7. overlaps' \in Nat /\ UNCHANGED << rows, now, accepted, bypassed, untold, clobbers >> BY DEF history, TypeInv, TypeOK
<1> QED BY <1>2, <1>5, <1>6, <1>7, OnlyMoves

LEMMA DropType ==
  ASSUME TypeInv, NEW r \in Request, Drop(r)
  PROVE  TypeInv'
<1>1. req' = [req EXCEPT ![r] = Idle] /\ Fault /\ UNCHANGED << rows, now, history >> BY DEF Drop
<1>2. req'[r] = Idle BY <1>1, IdleIsRow, Moves DEF TypeInv
<1>3. now' \in Nat BY <1>1 DEF TypeInv, TypeOK
<1>4. Equipped(r)' BY <1>2, <1>3 DEF Equipped, Idle, At, Input, FormPC, MessagePC, WithLead
<1>5. faults' \in Nat /\ budget' \in Bounds BY <1>1, BoundsType DEF TypeInv
<1>6. overlaps' \in Nat /\ UNCHANGED << rows, now, accepted, bypassed, untold, clobbers >> BY <1>1 DEF history, TypeInv, TypeOK
<1> QED BY <1>1, <1>4, <1>5, <1>6, IdleIsRow, OnlyMoves

\* The customers found for a form.
LEMMA StrictIs ==
  ASSUME TypeInv, NEW f, NEW S, S = { k \in Candidates(f) : SamePerson(customers[k], f) }, S # {}
  PROVE  Max(S) \in S /\ Max(S) \in DOMAIN customers
<1>1. S \subseteq DOMAIN customers BY DEF Candidates
<1>2. customers \in Seq(Customer) BY DEF TypeInv, TypeOK
<1> QED BY <1>1, <1>2, MaxOfPositions

LEMMA MatchType ==
  ASSUME TypeInv, NEW r \in Request, Match(r)
  PROVE  TypeInv'
<1> DEFINE strict == { k \in Candidates(Input(r)) : SamePerson(customers[k], Input(r)) }
<1>1. At(r, "match") /\ UNCHANGED << rows, now, history >> BY DEF Match
<1>2. CASE Goto(r, "create") /\ (UNCHANGED bounds \/ Fault)
  BY <1>1, <1>2, GotoType DEF At, FormPC, WithLead
<1>3. CASE /\ strict # {}
           /\ req' = [req EXCEPT ![r].pc = "fill", ![r].customer = Max(strict), ![r].email = customers[Max(strict)].email]
           /\ UNCHANGED bounds
  <2>1. PICK k : k = Max(strict) OBVIOUS
  <2>2. k \in DOMAIN customers BY <1>3, <2>1, StrictIs
  <2>3. customers[k] \in Customer BY <2>2 DEF TypeInv, TypeOK
  <2>4. customers[k].email \in Emails BY <2>3 DEF Customer
  <2>5. k \in Nat BY <2>2 DEF TypeInv, TypeOK
  <2> DEFINE q == [req[r] EXCEPT !.pc = "fill", !.customer = k, !.email = customers[k].email]
  <2>6. req' = [req EXCEPT ![r] = q] /\ req[r] \in Row BY <1>3, <2>1 DEF TypeInv, TypeOK
  <2>7. q \in Row /\ q.pc = "fill" /\ q.input = Input(r) /\ q.at = req[r].at /\ q.customer = k /\ q.repeated = req[r].repeated
    BY <2>4, <2>5, <2>6 DEF Row, Input, FormPC
  <2> HIDE DEF q
  <2>8. req'[r] = q BY <2>6, <2>7, Moves DEF TypeInv
  <2>9. UNCHANGED << customers, leads, now >> BY <1>1 DEF rows
  <2>10. Equipped(r) BY DEF TypeInv, Refers
  <2>11. Equipped(r)'
    BY <1>1, <2>2, <2>7, <2>8, <2>9, <2>10 DEF Equipped, At, Input, FormPC, MessagePC, WithLead
  <2>12. faults' \in Nat /\ budget' \in Bounds BY <1>3, BoundsType DEF TypeInv
  <2>13. overlaps' \in Nat /\ UNCHANGED << rows, now, accepted, bypassed, untold, clobbers >> BY <1>1 DEF history, TypeInv, TypeOK
  <2> QED BY <2>6, <2>7, <2>11, <2>12, <2>13, OnlyMoves
<1> QED BY <1>2, <1>3 DEF Match

\* The lead that a form is taken to repeat: an open one of its fingerprint, submitted
\* no earlier than any such lead.
OpenOf(p) == { l \in DOMAIN leads : leads[l].fingerprint = p /\ leads[l].open }
LatestOf(p) == { l \in OpenOf(p) : \A k \in OpenOf(p) : leads[k].last <= leads[l].last }
NewestOf(p) == Max(LatestOf(p))

LEMMA NewestIs ==
  ASSUME TypeInv, NEW p, OpenOf(p) # {}
  PROVE  /\ NewestOf(p) \in OpenOf(p) /\ NewestOf(p) \in DOMAIN leads /\ leads[NewestOf(p)] \in Lead
         /\ \A k \in OpenOf(p) : leads[k].last <= leads[NewestOf(p)].last
<1>1. leads \in Seq(Lead) /\ \A l \in DOMAIN leads : leads[l] \in Lead BY DEF TypeInv, TypeOK
<1> DEFINE S == { leads[l].last : l \in OpenOf(p) }
<1>2. S \subseteq Nat /\ S # {} BY <1>1 DEF Lead, OpenOf
<1>3. now \in Nat /\ \A x \in S : x <= now BY DEF TypeInv, TypeOK, Refers, OpenOf
<1>4. Max(S) \in S /\ \A x \in S : x <= Max(S) BY <1>2, <1>3, MaxIs
<1>5. LatestOf(p) # {} /\ LatestOf(p) \subseteq DOMAIN leads BY <1>4 DEF LatestOf, OpenOf
<1>6. NewestOf(p) \in LatestOf(p) BY <1>1, <1>5, MaxOfPositions DEF NewestOf
<1> QED BY <1>1, <1>6 DEF LatestOf, OpenOf

\* Whether a form repeats it.
Repeats(r) == OpenOf(Fingerprint(Input(r))) # {}
              /\ isWithinLeadDedupeWindow(req[r].at, leads[NewestOf(Fingerprint(Input(r)))].last)
Joins(r) == req' = [req EXCEPT ![r].pc = "join", ![r].lead = NewestOf(Fingerprint(Input(r))),
                               ![r].count = leads[NewestOf(Fingerprint(Input(r)))].count + 1]
LEMMA RecentIs ==
  ASSUME NEW r, Recent(r)
  PROVE  /\ At(r, "recent") /\ UNCHANGED << rows, now, history >>
         /\ \/ Repeats(r) /\ Joins(r) /\ UNCHANGED bounds
            \/ ~Repeats(r) /\ Goto(r, "open") /\ UNCHANGED bounds
            \/ Goto(r, "open") /\ Fault
BY DEF Recent, Repeats, Joins, OpenOf, LatestOf, NewestOf

LEMMA RecentType ==
  ASSUME TypeInv, NEW r \in Request, Recent(r)
  PROVE  TypeInv'
<1>1. At(r, "recent") /\ UNCHANGED << rows, now, history >> BY RecentIs
<1>2. CASE Goto(r, "open") /\ (UNCHANGED bounds \/ Fault)
  BY <1>1, <1>2, GotoType DEF At, FormPC, WithLead
<1>3. CASE Repeats(r) /\ Joins(r) /\ UNCHANGED bounds
  <2>1. PICK l : l = NewestOf(Fingerprint(Input(r))) OBVIOUS
  <2>2. l \in OpenOf(Fingerprint(Input(r))) /\ l \in DOMAIN leads /\ leads[l] \in Lead
    BY <1>3, <2>1, NewestIs DEF Repeats
  <2>3. PICK n \in Nat : n = leads[l].count + 1 BY <2>2 DEF Lead
  <2>4. l \in Nat BY <2>2 DEF TypeInv, TypeOK
  <2> DEFINE q == [req[r] EXCEPT !.pc = "join", !.lead = l, !.count = n]
  <2>5. req' = [req EXCEPT ![r] = q] /\ req[r] \in Row BY <1>3, <2>1, <2>3 DEF Joins, TypeInv, TypeOK
  <2>6. q \in Row /\ q.pc = "join" /\ q.input = Input(r) /\ q.at = req[r].at /\ q.lead = l /\ q.repeated = req[r].repeated
    BY <2>4, <2>5 DEF Row, Input, FormPC
  <2> HIDE DEF q
  <2>7. req'[r] = q BY <2>5, <2>6, Moves DEF TypeInv
  <2>8. UNCHANGED << customers, leads, now >> BY <1>1 DEF rows
  <2>9. Equipped(r) /\ leads[l].fingerprint = Fingerprint(Input(r)) BY <2>2 DEF TypeInv, Refers, OpenOf
  <2>10. Equipped(r)'
    BY <1>1, <2>2, <2>6, <2>7, <2>8, <2>9 DEF Equipped, At, Input, FormPC, MessagePC, WithLead
  <2>11. faults' \in Nat /\ budget' \in Bounds BY <1>3, BoundsType DEF TypeInv
  <2>12. overlaps' \in Nat /\ UNCHANGED << rows, now, accepted, bypassed, untold, clobbers >> BY <1>1 DEF history, TypeInv, TypeOK
  <2> QED BY <2>5, <2>6, <2>10, <2>11, <2>12, OnlyMoves
<1> QED BY <1>2, <1>3, RecentIs

\* The customer of a contact, or the next look.
LEMMA FoundType ==
  ASSUME TypeInv, NEW r \in Request, req[r].pc \in MessagePC, NEW S, S \subseteq DOMAIN customers,
         NEW otherwise \in MessagePC, Found(r, S, otherwise)
  PROVE  TypeInv'
<1>1. UNCHANGED << rows, now, history, bounds >> BY DEF Found
<1>2. CASE Goto(r, otherwise) BY <1>1, <1>2, GotoType
<1>3. UNCHANGED << customers, leads, now >> /\ now \in Nat BY <1>1 DEF rows, TypeInv, TypeOK
<1>4. faults' \in Nat /\ budget' \in Bounds BY <1>1, BoundsType DEF TypeInv
<1>5. overlaps' \in Nat /\ UNCHANGED << rows, now, accepted, bypassed, untold, clobbers >> BY <1>1 DEF history, TypeInv, TypeOK
<1>6. CASE req' = [req EXCEPT ![r] = Idle]
  <2>1. req'[r] = Idle BY <1>6, IdleIsRow, Moves DEF TypeInv
  <2>2. Equipped(r)' BY <1>3, <2>1 DEF Equipped, Idle, At, Input, FormPC, MessagePC, WithLead
  <2> QED BY <1>4, <1>5, <1>6, <2>2, IdleIsRow, OnlyMoves
<1>7. CASE Cardinality(S) = 1 /\ req' = [req EXCEPT ![r].pc = "capture", ![r].customer = Max(S)]
  <2>1. customers \in Seq(Customer) BY DEF TypeInv, TypeOK
  <2>2. S # {} BY <1>7, FS_EmptySet
  <2>3. Max(S) \in Nat BY <2>1, <2>2, MaxOfPositions
  <2> DEFINE q == [req[r] EXCEPT !.pc = "capture", !.customer = Max(S)]
  <2>4. req' = [req EXCEPT ![r] = q] /\ req[r] \in Row BY <1>7 DEF TypeInv, TypeOK
  <2>5. q \in Row /\ q.pc = "capture" /\ q.input = Input(r) /\ q.at = req[r].at /\ q.repeated = req[r].repeated
    BY <2>3, <2>4 DEF Row, Input, MessagePC
  <2> HIDE DEF q
  <2>6. req'[r] = q BY <2>4, <2>5, Moves DEF TypeInv
  <2>7. Equipped(r) BY DEF TypeInv, Refers
  <2>8. Equipped(r)'
    BY <1>3, <2>5, <2>6, <2>7 DEF Equipped, At, Input, FormPC, MessagePC, WithLead
  <2> QED BY <1>4, <1>5, <2>4, <2>5, <2>8, OnlyMoves
<1> QED BY <1>2, <1>6, <1>7 DEF Found

LEMMA FindType ==
  ASSUME TypeInv, NEW r \in Request, FindByPhone(r) \/ FindByEmail(r)
  PROVE  TypeInv'
<1>1. \E S : \E otherwise \in MessagePC :
        req[r].pc \in MessagePC /\ S \subseteq DOMAIN customers /\ Found(r, S, otherwise)
  <2>1. CASE FindByPhone(r)
    <3>1. { k \in Standing : customers[k].phone = Input(r).phone } \subseteq DOMAIN customers BY DEF Standing
    <3> QED BY <2>1, <3>1 DEF FindByPhone, At, MessagePC
  <2>2. CASE FindByEmail(r)
    <3>1. { k \in Standing : customers[k].email = Input(r).email } \subseteq DOMAIN customers BY DEF Standing
    <3> QED BY <2>2, <3>1 DEF FindByEmail, At, MessagePC
  <2> QED BY <2>1, <2>2
<1> QED BY <1>1, FoundType

LEMMA FindThreadType ==
  ASSUME TypeInv, NEW r \in Request, FindThread(r)
  PROVE  TypeInv'
<1> DEFINE t == IF ThreadsOf(r) = {} THEN 0 ELSE threads[Max(ThreadsOf(r))].id
           q == [req[r] EXCEPT !.pc = "upsert", !.thread = t]
<1>1. At(r, "thread") /\ UNCHANGED << rows, now, history, bounds >> BY DEF FindThread
<1>2. t \in Nat
  <2>1. CASE ThreadsOf(r) = {} BY <2>1
  <2>2. CASE ThreadsOf(r) # {}
    <3>1. threads \in Seq(Thread) /\ ThreadsOf(r) \subseteq DOMAIN threads
      BY DEF TypeInv, TypeOK, ThreadsOf
    <3>2. Max(ThreadsOf(r)) \in DOMAIN threads BY <2>2, <3>1, MaxOfPositions
    <3>3. threads[Max(ThreadsOf(r))] \in Thread BY <3>1, <3>2
    <3>4. threads[Max(ThreadsOf(r))].id \in Nat BY <3>3 DEF Thread
    <3> QED BY <2>2, <3>4
  <2> QED BY <2>1, <2>2
<1>3. req' = [req EXCEPT ![r] = q] /\ req[r] \in Row BY DEF FindThread, TypeInv, TypeOK
<1>4. q \in Row /\ q.pc = "upsert" /\ q.input = Input(r) /\ q.at = req[r].at /\ q.repeated = req[r].repeated
  BY <1>2, <1>3 DEF Row, Input, MessagePC
<1> HIDE DEF q
<1>5. req'[r] = q BY <1>3, <1>4, Moves DEF TypeInv
<1>6. UNCHANGED << customers, leads, now >> BY <1>1 DEF rows
<1>7. Equipped(r) BY DEF TypeInv, Refers
<1>8. Equipped(r)'
  BY <1>1, <1>4, <1>5, <1>6, <1>7 DEF Equipped, At, Input, FormPC, MessagePC, WithLead
<1>9. faults' \in Nat /\ budget' \in Bounds BY <1>1, BoundsType DEF TypeInv
<1>10. overlaps' \in Nat /\ UNCHANGED << rows, now, accepted, bypassed, untold, clobbers >> BY <1>1 DEF history, TypeInv, TypeOK
<1> QED BY <1>3, <1>4, <1>8, <1>9, <1>10, OnlyMoves

\* A row is added to the customers.
LEMMA NewCustomerIs ==
  ASSUME TypeInv, NEW r \in Request, NEW name \in Names, NEW phone \in Phones, NEW email \in Emails,
         NEW source \in { "form", "message" }, NEW next \in { "recent", "capture" },
         NewCustomer(r, name, phone, email, source, next)
  PROVE  /\ customers' \in Seq(Customer) /\ Len(customers') = Len(customers) + 1
         /\ DOMAIN customers' = DOMAIN customers \cup { Len(customers) + 1 }
         /\ Len(customers) + 1 \notin DOMAIN customers
         /\ \A k \in DOMAIN customers : customers'[k] = customers[k]
         /\ customers'[Len(customers) + 1].name = name /\ customers'[Len(customers) + 1].phone = phone
         /\ customers'[Len(customers) + 1].email = email /\ customers'[Len(customers) + 1].source = source
         /\ req' \in [Request -> Row] /\ \A p \in Request \ {r} : req'[p] = req[p]
         /\ req'[r].pc = next /\ req'[r].input = Input(r) /\ req'[r].at = req[r].at
         /\ req'[r].repeated = req[r].repeated
<1> DEFINE c == [name |-> name, phone |-> phone, email |-> email, archived |-> FALSE, source |-> source]
<1>1. c \in Customer BY DEF Customer
<1> HIDE DEF c
<1>2. customers \in Seq(Customer) /\ customers' = Append(customers, c) BY DEF NewCustomer, c, TypeInv, TypeOK
<1>3. /\ customers' \in Seq(Customer) /\ Len(customers') = Len(customers) + 1
      /\ DOMAIN customers' = DOMAIN customers \cup { Len(customers) + 1 }
      /\ Len(customers) + 1 \notin DOMAIN customers
      /\ \A k \in DOMAIN customers : customers'[k] = customers[k]
      /\ customers'[Len(customers) + 1] = c
  BY <1>1, <1>2
<1>4. PICK n \in Nat : n = Len(customers) + 1 BY <1>2
<1> DEFINE q == [req[r] EXCEPT !.pc = next, !.customer = n]
<1>5. req' = [req EXCEPT ![r] = q] /\ req[r] \in Row BY <1>4 DEF NewCustomer, TypeInv, TypeOK
<1>6. q \in Row BY <1>5 DEF Row, FormPC, MessagePC
<1>7. req' \in [Request -> Row] /\ (\A p \in Request \ {r} : req'[p] = req[p]) /\ req'[r] = q
  BY <1>5, <1>6, Moves DEF TypeInv
<1>8. q.pc = next /\ q.input = Input(r) /\ q.at = req[r].at /\ q.repeated = req[r].repeated
  BY <1>5 DEF Row, Input
<1>9. c.name = name /\ c.phone = phone /\ c.email = email /\ c.source = source BY DEF c
<1> HIDE DEF q
<1> QED BY <1>3, <1>7, <1>8, <1>9

LEMMA NewCustomerType ==
  ASSUME TypeInv, NEW r \in Request, NEW name \in Names, NEW phone \in Phones, NEW email \in Emails,
         NEW source \in { "form", "message" }, NEW next \in { "recent", "capture" },
         \/ next = "recent" /\ req[r].pc \in FormPC
         \/ next = "capture" /\ req[r].pc \in MessagePC,
         NewCustomer(r, name, phone, email, source, next)
  PROVE  TypeInv'
<1>1. NewCustomer(r, name, phone, email, source, next) OBVIOUS
<1>2. customers' \in Seq(Customer) BY <1>1, NewCustomerIs
<1>3. DOMAIN customers' = DOMAIN customers \cup { Len(customers) + 1 } BY <1>1, NewCustomerIs
<1>4. req' \in [Request -> Row] BY <1>1, NewCustomerIs
<1>5. \A p \in Request \ {r} : req'[p] = req[p]
  BY <1>1, NewCustomerIs
<1>6. /\ req'[r].pc = next /\ req'[r].input = Input(r) /\ req'[r].at = req[r].at
      /\ req'[r].repeated = req[r].repeated
  BY <1>1, NewCustomerIs
<1>7. UNCHANGED << leads, alerts, threads, now, history, bounds >> /\ now \in Nat BY DEF NewCustomer, TypeInv, TypeOK
<1>8. UNCHANGED << accepted, bypassed, untold, clobbers, overlaps, faults, budget >> BY <1>7 DEF history, bounds
<1>9. \A p \in Request \ {r} : Equipped(p)'
  <2>1. DOMAIN customers \subseteq DOMAIN customers' /\ leads' = leads /\ now' \in Nat /\ now <= now' BY <1>3, <1>7
  <2> QED BY <1>5, <2>1, OthersEquipped
<1>10. Equipped(r) /\ req[r] \in Row BY DEF TypeInv, TypeOK, Refers
<1>11. Equipped(r)' BY <1>7, <1>10, <1>6 DEF Equipped, At, Input, FormPC, MessagePC, WithLead
<1>12. \A p \in Request : Equipped(p)' BY <1>9, <1>11
<1>13. Refers' BY <1>7, <1>8, <1>12 DEF TypeInv, Refers
<1>14. TypeOK' BY <1>2, <1>4, <1>7, <1>8 DEF TypeInv, TypeOK
<1> QED BY <1>13, <1>14 DEF TypeInv

LEMMA CreateType ==
  ASSUME IntakeAssumption, TypeInv, NEW r \in Request, CreateCustomer(r)
  PROVE  /\ TypeInv' /\ Input(r) \in Forms
         /\ Input(r).name \in Names /\ Input(r).email \in Emails /\ normalizePhone(Input(r).phone) \in Phones
<1>1. At(r, "create") /\ NewCustomer(r, Input(r).name, normalizePhone(Input(r).phone), Input(r).email, "form", "recent")
  BY DEF CreateCustomer
<1>2. Input(r) \in Forms BY <1>1 DEF TypeInv, Refers, Equipped, At, FormPC
<1>3. Input(r).name \in Names /\ Input(r).email \in Emails BY <1>2 DEF Names, Emails
<1>4. normalizePhone(Input(r).phone) \in Phones BY <1>2 DEF IntakeAssumption, normalizePhone, Phones
<1>5. req[r].pc \in FormPC BY <1>1 DEF At, FormPC
<1> QED BY <1>1, <1>2, <1>3, <1>4, <1>5, NewCustomerType

LEMMA IntroduceType ==
  ASSUME TypeInv, NEW r \in Request, IntroduceCustomer(r)
  PROVE  /\ TypeInv' /\ Input(r) \in Messages
         /\ Input(r).name \in Names /\ Input(r).email \in Emails /\ Input(r).phone \in Phones
<1>1. At(r, "introduce") /\ NewCustomer(r, Input(r).name, Input(r).phone, Input(r).email, "message", "capture")
  BY DEF IntroduceCustomer
<1>2. Input(r) \in Messages BY <1>1 DEF TypeInv, Refers, Equipped, At, MessagePC
<1>3. Input(r).name \in Names /\ Input(r).email \in Emails /\ Input(r).phone \in Phones BY <1>2 DEF Names, Emails, Phones
<1>4. req[r].pc \in MessagePC BY <1>1 DEF At, MessagePC
<1> QED BY <1>1, <1>2, <1>3, <1>4, NewCustomerType

LEMMA FilledType ==
  ASSUME NEW seen \in Emails \cup { None }, NEW given \in Emails
  PROVE  Filled(seen, given) \in Emails
BY DEF Filled

\* A customer is overwritten with one of its type.
LEMMA CustomerStays ==
  ASSUME customers \in Seq(Customer), NEW k \in DOMAIN customers,
         \/ \E e \in Emails : customers' = [customers EXCEPT ![k].email = e]
         \/ customers' = [customers EXCEPT ![k].archived = TRUE]
  PROVE  /\ customers' \in Seq(Customer) /\ DOMAIN customers' = DOMAIN customers
         /\ \A j \in DOMAIN customers \ {k} : customers'[j] = customers[j]
         /\ \A j \in DOMAIN customers : customers'[j].name = customers[j].name /\ customers'[j].phone = customers[j].phone
                                         /\ customers'[j].source = customers[j].source
<1>1. customers[k] \in Customer OBVIOUS
<1>2. PICK c \in Customer : customers' = [customers EXCEPT ![k] = c] /\ c.name = customers[k].name
                            /\ c.phone = customers[k].phone /\ c.source = customers[k].source
  <2>1. CASE \E e \in Emails : customers' = [customers EXCEPT ![k].email = e]
    <3>1. PICK e \in Emails : customers' = [customers EXCEPT ![k].email = e] BY <2>1
    <3>2. [customers[k] EXCEPT !.email = e] \in Customer BY <1>1 DEF Customer
    <3>3. /\ [customers[k] EXCEPT !.email = e].name = customers[k].name
          /\ [customers[k] EXCEPT !.email = e].phone = customers[k].phone
          /\ [customers[k] EXCEPT !.email = e].source = customers[k].source
      BY <1>1 DEF Customer
    <3> QED BY <3>1, <3>2, <3>3
  <2>2. CASE customers' = [customers EXCEPT ![k].archived = TRUE]
    <3>1. [customers[k] EXCEPT !.archived = TRUE] \in Customer BY <1>1 DEF Customer
    <3>2. /\ [customers[k] EXCEPT !.archived = TRUE].name = customers[k].name
          /\ [customers[k] EXCEPT !.archived = TRUE].phone = customers[k].phone
          /\ [customers[k] EXCEPT !.archived = TRUE].source = customers[k].source
      BY <1>1 DEF Customer
    <3> QED BY <2>2, <3>1, <3>2
  <2> QED BY <2>1, <2>2
<1>3. customers' \in Seq(Customer) /\ DOMAIN customers' = DOMAIN customers BY <1>2
<1>4. customers'[k] = c /\ \A j \in DOMAIN customers \ {k} : customers'[j] = customers[j] BY <1>2
<1> QED BY <1>2, <1>3, <1>4

\* A request that is past its customer.
Past(p) == At(p, "fill") /\ req'[p].pc = "recent" /\ req'[p].input = req[p].input
           /\ req'[p].at = req[p].at /\ req'[p].repeated = req[p].repeated

\* A customer is overwritten; the requests go on as they may.
LEMMA CustomersStayType ==
  ASSUME TypeInv, customers' \in Seq(Customer), DOMAIN customers' = DOMAIN customers,
         req' \in [Request -> Row],
         \A p \in Request : req'[p] = req[p] \/ Past(p),
         UNCHANGED << leads, alerts, threads, now, accepted, bypassed, untold >>,
         clobbers' \in Nat, overlaps' \in Nat, faults' \in Nat, budget' \in Bounds
  PROVE  TypeInv'
<1>1. \A p \in Request : Equipped(p)'
  <2> SUFFICES ASSUME NEW p \in Request PROVE Equipped(p)' OBVIOUS
  <2>1. Equipped(p) /\ req[p] \in Row BY DEF TypeInv, TypeOK, Refers
  <2>2. CASE req'[p] = req[p] BY <2>1, <2>2 DEF Equipped, At, Input, WithLead
  <2>3. CASE Past(p) BY <2>1, <2>3 DEF Past, Equipped, At, Input, FormPC, MessagePC, WithLead
  <2> QED BY <2>2, <2>3
<1>2. Refers' BY <1>1 DEF TypeInv, Refers
<1>3. TypeOK' BY DEF TypeInv, TypeOK
<1> QED BY <1>2, <1>3 DEF TypeInv

LEMMA FillType ==
  ASSUME IntakeAssumption, TypeInv, NEW r \in Request, FillCustomer(r)
  PROVE  /\ TypeInv' /\ At(r, "fill") /\ req[r].customer \in DOMAIN customers
         /\ Filled(req[r].email, Input(r).email) \in Emails
<1>1. At(r, "fill") /\ Goto(r, "recent") BY DEF FillCustomer
<1>2. Input(r) \in Forms /\ req[r].customer \in DOMAIN customers
  BY <1>1 DEF TypeInv, Refers, Equipped, At, FormPC
<1>3. req[r].email \in Emails \cup { None } BY DEF TypeInv, TypeOK, Row
<1>4. Filled(req[r].email, Input(r).email) \in Emails BY <1>2, <1>3, FilledType DEF Emails
<1>5. req' \in [Request -> Row] /\ req'[r] = [req[r] EXCEPT !.pc = "recent"] /\ \A p \in Request \ {r} : req'[p] = req[p]
  BY <1>1, GotoMoves DEF TypeInv, FormPC
<1>6. customers \in Seq(Customer) /\ clobbers \in Nat BY DEF TypeInv, TypeOK
<1>7. customers' \in Seq(Customer) /\ DOMAIN customers' = DOMAIN customers
  BY <1>2, <1>4, <1>6, CustomerStays DEF FillCustomer
<1>8. clobbers' \in Nat BY <1>6 DEF FillCustomer, Count
<1>9. faults' \in Nat /\ budget' \in Bounds BY BoundsType DEF FillCustomer, TypeInv
<1>10. overlaps' \in Nat /\ UNCHANGED << leads, alerts, threads, now, accepted, bypassed, untold >>
  BY DEF FillCustomer, TypeInv, TypeOK
<1>11. req[r] \in Row BY DEF TypeInv, TypeOK
<1>12. Past(r) BY <1>1, <1>5, <1>11 DEF Past, Row
<1>13. \A p \in Request : req'[p] = req[p] \/ Past(p) BY <1>5, <1>12
<1>14. TypeInv' BY <1>5, <1>7, <1>8, <1>9, <1>10, <1>13, CustomersStayType
<1> QED BY <1>1, <1>2, <1>4, <1>14

LEMMA EditType ==
  ASSUME TypeInv, NEW k \in DOMAIN customers,
         ArchiveCustomer(k) \/ \E e \in Emails : EditCustomer(k, e)
  PROVE  TypeInv'
<1>1. CASE ArchiveCustomer(k)
  <2>1. customers' \in Seq(Customer) /\ DOMAIN customers' = DOMAIN customers
    BY <1>1, CustomerStays DEF ArchiveCustomer, TypeInv, TypeOK
  <2>2. budget' \in Bounds BY <1>1, SpendType DEF ArchiveCustomer, TypeInv, TypeOK
  <2>3. UNCHANGED << req, leads, alerts, threads, now, accepted, bypassed, untold, clobbers, overlaps, faults >>
    BY <1>1 DEF ArchiveCustomer, history
  <2>4. /\ req' \in [Request -> Row] /\ (\A p \in Request : req'[p] = req[p] \/ Past(p))
        /\ clobbers' \in Nat /\ overlaps' \in Nat /\ faults' \in Nat
    BY <2>3 DEF TypeInv, TypeOK
  <2> QED BY <2>1, <2>2, <2>3, <2>4, CustomersStayType
<1>2. CASE \E e \in Emails : EditCustomer(k, e)
  <2>1. PICK e \in Emails : EditCustomer(k, e) BY <1>2
  <2>2. customers' \in Seq(Customer) /\ DOMAIN customers' = DOMAIN customers
    BY <2>1, CustomerStays DEF EditCustomer, TypeInv, TypeOK
  <2>3. budget' \in Bounds BY <2>1, SpendType DEF EditCustomer, TypeInv, TypeOK
  <2>4. UNCHANGED << req, leads, alerts, threads, now, accepted, bypassed, untold, clobbers, faults >>
    BY <2>1 DEF EditCustomer
  <2>5. overlaps' \in Nat BY <2>1, OverlapType DEF EditCustomer, TypeInv
  <2>6. /\ req' \in [Request -> Row] /\ (\A p \in Request : req'[p] = req[p] \/ Past(p))
        /\ clobbers' \in Nat /\ faults' \in Nat
    BY <2>4 DEF TypeInv, TypeOK
  <2> QED BY <2>2, <2>3, <2>4, <2>5, <2>6, CustomersStayType
<1> QED BY <1>1, <1>2

\* A lead is added.
LEMMA NewLeadIs ==
  ASSUME TypeInv, NEW r \in Request, NEW p \in Prints \cup { None }, NEW next \in { "alert", "thread", "idle" },
         NewLead(r, p, next)
  PROVE  LET n == Len(leads) + 1 IN
         /\ leads' \in Seq(Lead) /\ n \in Nat /\ n \notin DOMAIN leads /\ DOMAIN leads' = DOMAIN leads \cup { n }
         /\ \A l \in DOMAIN leads : leads'[l] = leads[l]
         /\ leads'[n].fingerprint = p /\ leads'[n].count = 1 /\ leads'[n].last = req[r].at /\ leads'[n].open
         /\ req' \in [Request -> Row] /\ \A q \in Request \ {r} : req'[q] = req[q]
         /\ req'[r].pc = next
         /\ next = "idle" => req'[r] = Idle
         /\ next # "idle" => /\ req'[r].input = Input(r) /\ req'[r].at = req[r].at /\ req'[r].lead = n
                             /\ req'[r].count = 1 /\ req'[r].repeated = req[r].repeated
<1> DEFINE l == [fingerprint |-> p, customer |-> req[r].customer, count |-> 1, last |-> req[r].at, open |-> TRUE]
<1>1. req[r] \in Row BY DEF TypeInv, TypeOK
<1>2. req[r].customer \in Nat /\ req[r].at \in Nat BY <1>1 DEF Row
<1>3. l \in Lead /\ l.fingerprint = p /\ l.count = 1 /\ l.last = req[r].at /\ l.open BY <1>2 DEF Lead
<1>4. leads \in Seq(Lead) /\ leads' = Append(leads, l) BY DEF NewLead, TypeInv, TypeOK
<1> HIDE DEF l
<1>5. PICK n \in Nat : n = Len(leads) + 1 BY <1>4
<1>6. /\ leads' \in Seq(Lead) /\ n \notin DOMAIN leads /\ DOMAIN leads' = DOMAIN leads \cup { n }
      /\ \A k \in DOMAIN leads : leads'[k] = leads[k]
      /\ leads'[n] = l
  BY <1>3, <1>4, <1>5
<1> DEFINE w == [req[r] EXCEPT !.pc = next, !.lead = n, !.count = 1]
           q == IF next = "idle" THEN Idle ELSE w
<1>7. w \in Row /\ w.pc = next /\ w.input = Input(r) /\ w.at = req[r].at /\ w.lead = n /\ w.count = 1
      /\ w.repeated = req[r].repeated
  BY <1>1 DEF Row, Input, FormPC, MessagePC
<1>8. req' = [req EXCEPT ![r] = q] BY <1>5 DEF NewLead
<1> HIDE DEF w
<1>9. q \in Row BY <1>7, IdleIsRow
<1>10. req' \in [Request -> Row] /\ (\A x \in Request \ {r} : req'[x] = req[x]) /\ req'[r] = q
  BY <1>8, <1>9, Moves DEF TypeInv
<1>11. /\ req'[r].pc = next
       /\ next = "idle" => req'[r] = Idle
       /\ next # "idle" => /\ req'[r].input = Input(r) /\ req'[r].at = req[r].at /\ req'[r].lead = n
                           /\ req'[r].count = 1 /\ req'[r].repeated = req[r].repeated
  BY <1>7, <1>10, IdleIsRow
<1> QED BY <1>3, <1>5, <1>6, <1>10, <1>11

LEMMA NewLeadType ==
  ASSUME TypeInv, NEW r \in Request, NEW p \in Prints \cup { None }, NEW next \in { "alert", "thread", "idle" },
         NewLead(r, p, next), bypassed' \subseteq DOMAIN leads,
         next = "alert" => req[r].pc \in FormPC /\ p = Fingerprint(Input(r)),
         next = "thread" => req[r].pc \in MessagePC
  PROVE  TypeInv'
<1>1. PICK n \in Nat : n = Len(leads) + 1 BY DEF TypeInv, TypeOK
<1>2. /\ leads' \in Seq(Lead) /\ n \notin DOMAIN leads /\ DOMAIN leads' = DOMAIN leads \cup { n }
      /\ \A l \in DOMAIN leads : leads'[l] = leads[l]
  BY <1>1, NewLeadIs
<1>3. leads'[n].fingerprint = p /\ leads'[n].last = req[r].at BY <1>1, NewLeadIs
<1>4. req' \in [Request -> Row] /\ \A q \in Request \ {r} : req'[q] = req[q] BY <1>1, NewLeadIs
<1>5. /\ req'[r].pc = next
      /\ next = "idle" => req'[r] = Idle
      /\ next # "idle" => /\ req'[r].input = Input(r) /\ req'[r].at = req[r].at /\ req'[r].lead = n
                          /\ req'[r].repeated = req[r].repeated
  BY <1>1, NewLeadIs
<1>6. UNCHANGED << customers, alerts, threads, now, accepted, untold, clobbers, overlaps, faults, budget >>
  BY DEF NewLead, bounds
<1>7. now' \in Nat /\ now <= now' /\ now' = now BY <1>6 DEF TypeInv, TypeOK
<1>8. \A q \in Request \ {r} : Equipped(q)' BY <1>2, <1>4, <1>6, <1>7, OthersEquipped
<1>9. Equipped(r) /\ req[r] \in Row BY DEF TypeInv, TypeOK, Refers
<1>10. Equipped(r)'
  <2>1. CASE next = "idle" BY <1>5, <1>7, <2>1 DEF Equipped, Idle, At, Input, FormPC, MessagePC, WithLead
  <2>2. CASE next # "idle"
    <3>1. \A l \in req[r].repeated : l \in DOMAIN leads BY <1>9 DEF Equipped
    <3> QED BY <1>2, <1>3, <1>5, <1>7, <1>9, <2>2, <3>1 DEF Equipped, At, Input, FormPC, MessagePC, WithLead
  <2> QED BY <2>1, <2>2
<1>11. \A q \in Request : Equipped(q)' BY <1>8, <1>10
<1>12. req[r].at <= now BY <1>9 DEF Equipped
<1>13. \A l \in DOMAIN leads' : leads'[l].last <= now' BY <1>2, <1>3, <1>7, <1>12 DEF TypeInv, Refers
<1>14. DOMAIN leads \subseteq DOMAIN leads' BY <1>2
<1>15. Refers' BY <1>6, <1>7, <1>11, <1>13, <1>14 DEF TypeInv, Refers
<1>16. bypassed' \subseteq Nat BY <1>2 DEF TypeInv, TypeOK
<1>17. TypeOK' BY <1>2, <1>4, <1>6, <1>16 DEF TypeInv, TypeOK
<1> QED BY <1>15, <1>17 DEF TypeInv

LEMMA OpenType ==
  ASSUME TypeInv, NEW r \in Request, OpenLead(r)
  PROVE  TypeInv' /\ Input(r) \in Forms /\ Fingerprint(Input(r)) \in Prints
<1>1. At(r, "open") /\ NewLead(r, Fingerprint(Input(r)), "alert") BY DEF OpenLead
<1>2. Input(r) \in Forms /\ req[r].repeated \subseteq DOMAIN leads /\ bypassed \subseteq DOMAIN leads
  BY <1>1 DEF TypeInv, Refers, Equipped, At, FormPC
<1>3. bypassed' \subseteq DOMAIN leads BY <1>2 DEF OpenLead
<1>4. Fingerprint(Input(r)) \in Prints BY <1>2 DEF Prints
<1>5. req[r].pc \in FormPC BY <1>1 DEF At, FormPC
<1> QED BY <1>1, <1>2, <1>3, <1>4, <1>5, NewLeadType

LEMMA CaptureType ==
  ASSUME TypeInv, NEW r \in Request, CaptureLead(r)
  PROVE  TypeInv'
<1>1. PICK next \in { "thread", "idle" } : At(r, "capture") /\ NewLead(r, None, next) BY DEF CaptureLead
<1>2. bypassed' \subseteq DOMAIN leads BY DEF CaptureLead, TypeInv, Refers
<1>3. req[r].pc \in MessagePC BY <1>1 DEF At, MessagePC
<1> QED BY <1>1, <1>2, <1>3, NewLeadType

\* A lead is joined.
LEMMA JoinIs ==
  ASSUME TypeInv, NEW r \in Request, JoinLead(r)
  PROVE  LET l == req[r].lead IN
         /\ At(r, "join") /\ Input(r) \in Forms /\ l \in DOMAIN leads /\ leads[l].fingerprint = Fingerprint(Input(r))
         /\ leads' \in Seq(Lead) /\ DOMAIN leads' = DOMAIN leads
         /\ \A k \in DOMAIN leads : leads'[k].fingerprint = leads[k].fingerprint /\ leads'[k].open = leads[k].open
         /\ \A k \in DOMAIN leads \ {l} : leads'[k] = leads[k]
         /\ leads'[l].count = req[r].count /\ leads'[l].last = req[r].at
         /\ req' \in [Request -> Row] /\ \A q \in Request \ {r} : req'[q] = req[q]
         /\ req'[r].pc = "alert" /\ req'[r].input = Input(r) /\ req'[r].at = req[r].at /\ req'[r].lead = l
         /\ req'[r].count = req[r].count /\ req'[r].repeated = req[r].repeated
<1> DEFINE l == req[r].lead
<1>1. At(r, "join") /\ Goto(r, "alert") BY DEF JoinLead
<1>2. req[r] \in Row /\ leads \in Seq(Lead) BY DEF TypeInv, TypeOK
<1>3. req[r].customer \in Nat /\ req[r].at \in Nat /\ req[r].count \in Nat BY <1>2 DEF Row
<1>4. Input(r) \in Forms /\ l \in DOMAIN leads /\ leads[l].fingerprint = Fingerprint(Input(r))
  BY <1>1 DEF TypeInv, Refers, Equipped, At, FormPC, WithLead
<1>5. leads[l] \in Lead BY <1>2, <1>4
<1> DEFINE w == [leads[l] EXCEPT !.customer = req[r].customer, !.count = req[r].count, !.last = req[r].at]
<1>6. /\ w \in Lead /\ w.fingerprint = leads[l].fingerprint /\ w.open = leads[l].open
      /\ w.count = req[r].count /\ w.last = req[r].at
  BY <1>3, <1>5 DEF Lead
<1>7. leads' = [leads EXCEPT ![l] = w] BY <1>2, <1>4 DEF JoinLead, Stamp
<1> HIDE DEF w
<1>8. /\ leads' \in Seq(Lead) /\ DOMAIN leads' = DOMAIN leads /\ leads'[l] = w
      /\ \A k \in DOMAIN leads \ {l} : leads'[k] = leads[k]
  BY <1>2, <1>4, <1>6, <1>7
<1>9. /\ req' \in [Request -> Row] /\ req'[r] = [req[r] EXCEPT !.pc = "alert"]
      /\ \A q \in Request \ {r} : req'[q] = req[q]
  BY <1>1, GotoMoves DEF TypeInv, FormPC
<1>10. /\ req'[r].pc = "alert" /\ req'[r].input = Input(r) /\ req'[r].at = req[r].at /\ req'[r].lead = l
       /\ req'[r].count = req[r].count /\ req'[r].repeated = req[r].repeated
  BY <1>2, <1>9 DEF Row, Input
<1>11. \A k \in DOMAIN leads : leads'[k].fingerprint = leads[k].fingerprint /\ leads'[k].open = leads[k].open
  BY <1>6, <1>8
<1> QED BY <1>1, <1>4, <1>6, <1>8, <1>9, <1>10, <1>11

LEMMA JoinType ==
  ASSUME TypeInv, NEW r \in Request, JoinLead(r)
  PROVE  TypeInv'
<1>1. PICK l : l = req[r].lead OBVIOUS
<1>2. /\ l \in DOMAIN leads /\ leads[l].fingerprint = Fingerprint(Input(r)) /\ Input(r) \in Forms /\ At(r, "join")
  BY <1>1, JoinIs
<1>3. /\ leads' \in Seq(Lead) /\ DOMAIN leads' = DOMAIN leads /\ leads'[l].last = req[r].at
      /\ \A k \in DOMAIN leads \ {l} : leads'[k] = leads[k]
  BY <1>1, JoinIs
<1>4. \A k \in DOMAIN leads : leads'[k].fingerprint = leads[k].fingerprint BY <1>1, JoinIs
<1>5. req' \in [Request -> Row] /\ \A q \in Request \ {r} : req'[q] = req[q] BY <1>1, JoinIs
<1>6. /\ req'[r].pc = "alert" /\ req'[r].input = Input(r) /\ req'[r].at = req[r].at /\ req'[r].lead = l
      /\ req'[r].repeated = req[r].repeated
  BY <1>1, JoinIs
<1>7. UNCHANGED << customers, alerts, threads, now, accepted, bypassed, untold, clobbers, overlaps, faults, budget >>
  BY DEF JoinLead, history, bounds
<1>8. now' \in Nat /\ now <= now' /\ now' = now BY <1>7 DEF TypeInv, TypeOK
<1>9. \A q \in Request \ {r} : Equipped(q)' BY <1>3, <1>4, <1>5, <1>7, <1>8, OthersEquipped
<1>10. Equipped(r) BY DEF TypeInv, Refers
<1>11. Equipped(r)' BY <1>2, <1>3, <1>4, <1>6, <1>8, <1>10 DEF Equipped, At, Input, FormPC, MessagePC, WithLead
<1>12. \A q \in Request : Equipped(q)' BY <1>9, <1>11
<1>13. \A k \in DOMAIN leads' : leads'[k].last <= now' BY <1>3, <1>8, <1>10 DEF TypeInv, Refers, Equipped
<1>14. Refers' BY <1>3, <1>7, <1>8, <1>12, <1>13 DEF TypeInv, Refers
<1>15. TypeOK' BY <1>3, <1>5, <1>7 DEF TypeInv, TypeOK
<1> QED BY <1>14, <1>15 DEF TypeInv

\* A form is answered: the lead it has become is on record as accepted.
LEMMA AnswerIs ==
  ASSUME TypeInv, NEW r \in Request, req[r].pc \in { "alert", "sms" }, NEW t \in BOOLEAN, Answer(r, t)
  PROVE  /\ accepted' = accepted \cup { [lead |-> req[r].lead, at |-> req[r].at] }
         /\ untold' \in Nat /\ untold <= untold' /\ untold' = untold + (IF t THEN 0 ELSE 1)
         /\ req' \in [Request -> Row] /\ req'[r] = Idle /\ \A p \in Request \ {r} : req'[p] = req[p]
         /\ UNCHANGED << customers, leads, threads, now, bypassed, clobbers, overlaps >>
         /\ req[r].lead \in DOMAIN leads
<1>1. req' \in [Request -> Row] /\ req'[r] = Idle /\ \A p \in Request \ {r} : req'[p] = req[p]
  BY IdleIsRow, Moves DEF Answer, TypeInv
<1>2. untold \in Nat BY DEF TypeInv, TypeOK
<1>3. untold' = untold + (IF t THEN 0 ELSE 1) BY DEF Answer, Count
<1>4. req[r].lead \in DOMAIN leads BY DEF TypeInv, Refers, Equipped, WithLead
<1> QED BY <1>1, <1>2, <1>3, <1>4 DEF Answer

LEMMA AnswerType ==
  ASSUME TypeInv, NEW r \in Request, req[r].pc \in { "alert", "sms" }, NEW t \in BOOLEAN, Answer(r, t),
         UNCHANGED alerts, UNCHANGED bounds \/ Fault
  PROVE  TypeInv'
<1>1. /\ accepted' = accepted \cup { [lead |-> req[r].lead, at |-> req[r].at] } /\ untold' \in Nat
      /\ UNCHANGED << customers, leads, threads, now, bypassed, clobbers, overlaps >> /\ req[r].lead \in DOMAIN leads
  BY AnswerIs
<1>2. req' \in [Request -> Row] /\ req'[r] = Idle /\ \A p \in Request \ {r} : req'[p] = req[p] BY AnswerIs
<1>3. req[r] \in Row /\ Equipped(r) BY DEF TypeInv, TypeOK, Refers
<1>4. req[r].at \in Nat /\ req[r].lead \in Nat /\ req[r].at <= now BY <1>3 DEF Row, Equipped
<1>5. now' \in Nat /\ now <= now' BY <1>1 DEF TypeInv, TypeOK
<1>6. Equipped(r)' BY <1>2, <1>5 DEF Equipped, Idle, At, Input, FormPC, MessagePC, WithLead
<1>7. \A p \in Request \ {r} : Equipped(p)' BY <1>1, <1>2, <1>5, OthersEquipped
<1>8. \A p \in Request : Equipped(p)' BY <1>6, <1>7
<1>9. faults' \in Nat /\ budget' \in Bounds BY BoundsType DEF TypeInv
<1> DEFINE a == [lead |-> req[r].lead, at |-> req[r].at]
<1>10. a \in [lead : Nat, at : Nat] /\ a.lead = req[r].lead /\ a.at = req[r].at BY <1>4
<1> HIDE DEF a
<1>11. accepted' = accepted \cup { a } BY <1>1 DEF a
<1>12. accepted' \subseteq [lead : Nat, at : Nat] BY <1>10, <1>11 DEF TypeInv, TypeOK
<1>13. \A b \in accepted' : b.lead \in DOMAIN leads' /\ b.at <= now'
  BY <1>1, <1>4, <1>10, <1>11 DEF TypeInv, Refers
<1>14. Refers' BY <1>1, <1>8, <1>13 DEF TypeInv, Refers
<1>15. TypeOK' BY <1>1, <1>2, <1>9, <1>12 DEF TypeInv, TypeOK
<1> QED BY <1>14, <1>15 DEF TypeInv

\* The three ways a reservation ends.
LEMMA ReserveIs ==
  ASSUME TypeInv, NEW r \in Request, Reserve(r)
  PROVE  LET key == << req[r].lead, req[r].count >> IN
         /\ At(r, "alert") /\ key \in Nat \X Nat /\ req[r].lead \in DOMAIN leads
         /\ \/ /\ key \notin alerts /\ alerts' = alerts \cup { key } /\ Goto(r, "sms")
               /\ UNCHANGED << customers, leads, threads, now, history, bounds >>
            \/ key \in alerts /\ Answer(r, FALSE) /\ UNCHANGED << alerts, bounds >>
            \/ Fault /\ Answer(r, FALSE) /\ UNCHANGED alerts
<1>1. At(r, "alert") BY DEF Reserve
<1>2. req[r] \in Row /\ req[r].lead \in DOMAIN leads
  BY <1>1 DEF TypeInv, TypeOK, Refers, Equipped, At, WithLead
<1>3. req[r].lead \in Nat /\ req[r].count \in Nat BY <1>2 DEF Row
<1> QED BY <1>1, <1>2, <1>3 DEF Reserve, AlertKey

LEMMA ReserveType ==
  ASSUME TypeInv, NEW r \in Request, Reserve(r)
  PROVE  TypeInv'
<1> DEFINE key == << req[r].lead, req[r].count >>
<1>1. At(r, "alert") /\ key \in Nat \X Nat /\ key[1] \in DOMAIN leads BY ReserveIs
<1>2. CASE /\ alerts' = alerts \cup { key } /\ Goto(r, "sms")
           /\ UNCHANGED << customers, leads, threads, now, history, bounds >>
  <2>1. UNCHANGED << accepted, bypassed, untold, clobbers, overlaps, faults, budget >> BY <1>2 DEF history, bounds
  <2>2. req' \in [Request -> Row] /\ req'[r] = [req[r] EXCEPT !.pc = "sms"] /\ \A p \in Request \ {r} : req'[p] = req[p]
    BY <1>2, GotoMoves DEF TypeInv, FormPC
  <2>3. req[r] \in Row /\ Equipped(r) BY DEF TypeInv, TypeOK, Refers
  <2>4. req'[r].pc = "sms" /\ req'[r].input = req[r].input /\ req'[r].at = req[r].at /\ req'[r].lead = req[r].lead
        /\ req'[r].repeated = req[r].repeated
    BY <2>2, <2>3 DEF Row
  <2>5. now' \in Nat /\ now <= now' /\ now' = now BY <1>2 DEF TypeInv, TypeOK
  <2>6. Equipped(r)' BY <1>1, <1>2, <2>3, <2>4 DEF Equipped, At, Input, FormPC, MessagePC, WithLead
  <2>7. \A p \in Request \ {r} : Equipped(p)' BY <1>2, <2>2, <2>5, OthersEquipped
  <2>8. \A p \in Request : Equipped(p)' BY <2>6, <2>7
  <2>9. \A k \in alerts' : k[1] \in DOMAIN leads' BY <1>1, <1>2 DEF TypeInv, Refers
  <2>10. Refers' BY <1>2, <2>1, <2>8, <2>9 DEF TypeInv, Refers
  <2>11. alerts' \subseteq Nat \X Nat BY <1>1, <1>2 DEF TypeInv, TypeOK
  <2>12. TypeOK' BY <1>2, <2>1, <2>2, <2>11 DEF TypeInv, TypeOK
  <2> QED BY <2>10, <2>12 DEF TypeInv
<1>3. CASE Answer(r, FALSE) /\ UNCHANGED alerts /\ (UNCHANGED bounds \/ Fault)
  BY <1>1, <1>3, AnswerType DEF At
<1> QED BY <1>2, <1>3, ReserveIs

LEMMA SmsType ==
  ASSUME TypeInv, NEW r \in Request, Sms(r)
  PROVE  TypeInv'
BY AnswerType DEF Sms, At

\* An upsert of a thread.
LEMMA UpsertIs ==
  ASSUME TypeInv, NEW r \in Request, UpsertThread(r)
  PROVE  LET n == Len(threads) + 1
             id == IF req[r].thread = 0 THEN n ELSE req[r].thread
         IN
         /\ At(r, "upsert") /\ Contact(Input(r)) \in Contacts
         /\ threads' \in Seq(Thread) /\ n \in Nat /\ n \notin DOMAIN threads /\ DOMAIN threads' = DOMAIN threads \cup { n }
         /\ \A i \in DOMAIN threads : threads'[i] = threads[i]
         /\ threads'[n].id = id /\ threads'[n].contact = Contact(Input(r))
         /\ req' \in [Request -> Row] /\ req'[r] = Idle /\ \A p \in Request \ {r} : req'[p] = req[p]
<1>1. At(r, "upsert") BY DEF UpsertThread
<1>2. Input(r) \in Messages BY <1>1 DEF TypeInv, Refers, Equipped, At, MessagePC
<1>3. Contact(Input(r)) \in Contacts BY <1>2 DEF Contacts
<1>4. req[r] \in Row /\ threads \in Seq(Thread) BY DEF TypeInv, TypeOK
<1>5. PICK n \in Nat : n = Len(threads) + 1 BY <1>4
<1>6. PICK id \in Nat : id = IF req[r].thread = 0 THEN n ELSE req[r].thread BY <1>4 DEF Row
<1> DEFINE t == [id |-> id, contact |-> Contact(Input(r)), lead |-> req[r].lead]
<1>7. req[r].lead \in Nat BY <1>4 DEF Row
<1>8. t \in Thread /\ t.id = id /\ t.contact = Contact(Input(r)) BY <1>3, <1>7 DEF Thread
<1>9. threads' = Append(threads, t) BY <1>5, <1>6 DEF UpsertThread
<1> HIDE DEF t
<1>10. /\ threads' \in Seq(Thread) /\ n \notin DOMAIN threads /\ DOMAIN threads' = DOMAIN threads \cup { n }
       /\ \A i \in DOMAIN threads : threads'[i] = threads[i]
       /\ threads'[n] = t
  BY <1>4, <1>5, <1>8, <1>9
<1>11. req' \in [Request -> Row] /\ req'[r] = Idle /\ \A p \in Request \ {r} : req'[p] = req[p]
  BY IdleIsRow, Moves DEF UpsertThread, TypeInv
<1> QED BY <1>1, <1>3, <1>5, <1>6, <1>8, <1>10, <1>11

LEMMA UpsertType ==
  ASSUME TypeInv, NEW r \in Request, UpsertThread(r)
  PROVE  TypeInv'
<1>1. threads' \in Seq(Thread) /\ req' \in [Request -> Row] /\ req'[r] = Idle /\ \A p \in Request \ {r} : req'[p] = req[p]
  BY UpsertIs
<1>2. UNCHANGED << customers, leads, alerts, now, accepted, bypassed, untold, clobbers, overlaps, faults, budget >>
  BY DEF UpsertThread, history, bounds
<1>3. now' \in Nat /\ now <= now' BY <1>2 DEF TypeInv, TypeOK
<1>4. Equipped(r)' BY <1>1, <1>3 DEF Equipped, Idle, At, Input, FormPC, MessagePC, WithLead
<1>5. \A p \in Request \ {r} : Equipped(p)' BY <1>1, <1>2, <1>3, OthersEquipped
<1>6. \A p \in Request : Equipped(p)' BY <1>4, <1>5
<1>7. Refers' BY <1>2, <1>6 DEF TypeInv, Refers
<1>8. TypeOK' BY <1>1, <1>2 DEF TypeInv, TypeOK
<1> QED BY <1>7, <1>8 DEF TypeInv

\* A lead is closed.
LEMMA CloseIs ==
  ASSUME TypeInv, NEW l \in DOMAIN leads, CloseLead(l)
  PROVE  /\ leads' \in Seq(Lead) /\ DOMAIN leads' = DOMAIN leads /\ leads[l].open /\ ~ leads'[l].open
         /\ \A k \in DOMAIN leads \ {l} : leads'[k] = leads[k]
         /\ \A k \in DOMAIN leads : leads'[k].fingerprint = leads[k].fingerprint /\ leads'[k].last = leads[k].last
                                    /\ leads'[k].count = leads[k].count
         /\ budget' \in Bounds
<1>1. leads \in Seq(Lead) /\ leads[l] \in Lead BY DEF TypeInv, TypeOK
<1> DEFINE w == [leads[l] EXCEPT !.open = FALSE]
<1>2. w \in Lead /\ ~ w.open /\ w.fingerprint = leads[l].fingerprint /\ w.last = leads[l].last /\ w.count = leads[l].count
  BY <1>1 DEF Lead
<1>3. leads' = [leads EXCEPT ![l] = w] BY DEF CloseLead
<1> HIDE DEF w
<1>4. leads' \in Seq(Lead) /\ DOMAIN leads' = DOMAIN leads /\ leads'[l] = w
      /\ \A k \in DOMAIN leads \ {l} : leads'[k] = leads[k]
  BY <1>1, <1>2, <1>3
<1>5. budget' \in Bounds BY SpendType DEF CloseLead, TypeInv, TypeOK
<1>6. leads[l].open BY DEF CloseLead
<1> QED BY <1>2, <1>4, <1>5, <1>6

LEMMA CloseType ==
  ASSUME TypeInv, NEW l \in DOMAIN leads, CloseLead(l)
  PROVE  TypeInv'
<1>1. /\ leads' \in Seq(Lead) /\ DOMAIN leads' = DOMAIN leads
      /\ \A k \in DOMAIN leads : leads'[k].fingerprint = leads[k].fingerprint /\ leads'[k].last = leads[k].last
  BY CloseIs
<1>2. budget' \in Bounds BY CloseIs
<1>3. UNCHANGED << customers, alerts, threads, req, now, accepted, bypassed, untold, clobbers, overlaps, faults >>
  BY DEF CloseLead, history
<1>4. now' \in Nat /\ now <= now' BY <1>3 DEF TypeInv, TypeOK
<1>5. \A p \in Request : Equipped(p)'
  <2> SUFFICES ASSUME NEW p \in Request PROVE Equipped(p)' OBVIOUS
  <2>1. req'[p] = req[p] /\ Equipped(p) BY <1>3 DEF TypeInv, Refers
  <2> QED BY <1>1, <1>3, <2>1 DEF Equipped, At, Input, WithLead
<1>6. Refers' BY <1>1, <1>3, <1>5 DEF TypeInv, Refers
<1>7. TypeOK' BY <1>1, <1>2, <1>3 DEF TypeInv, TypeOK
<1> QED BY <1>6, <1>7 DEF TypeInv

LEMMA TickType ==
  ASSUME TypeInv, Tick
  PROVE  TypeInv'
<1>1. budget' \in Bounds BY SpendType DEF Tick, TypeInv, TypeOK
<1>2. UNCHANGED << customers, leads, alerts, threads, req, accepted, bypassed, untold, clobbers, overlaps, faults >>
  BY DEF Tick, rows, history
<1>3. now \in Nat /\ now' = now + 1 /\ now' \in Nat BY DEF Tick, TypeInv, TypeOK
<1>4. \A p \in Request : Equipped(p)'
  <2> SUFFICES ASSUME NEW p \in Request PROVE Equipped(p)' OBVIOUS
  <2>1. req'[p] = req[p] /\ Equipped(p) /\ req[p] \in Row BY <1>2 DEF TypeInv, TypeOK, Refers
  <2>2. req[p].at \in Nat BY <2>1 DEF Row
  <2> QED BY <1>2, <1>3, <2>1, <2>2 DEF Equipped, At, Input, WithLead
<1>5. \A a \in accepted : a.at \in Nat /\ a.at <= now BY DEF TypeInv, TypeOK, Refers
<1>6. \A l \in DOMAIN leads : leads[l] \in Lead /\ leads[l].last <= now BY DEF TypeInv, TypeOK, Refers
<1>7. \A l \in DOMAIN leads : leads[l].last \in Nat BY <1>6 DEF Lead
<1>8. Refers' BY <1>2, <1>3, <1>4, <1>5, <1>6, <1>7 DEF TypeInv, Refers
<1>9. TypeOK' BY <1>1, <1>2, <1>3 DEF TypeInv, TypeOK
<1> QED BY <1>8, <1>9 DEF TypeInv

LEMMA TypeStep ==
  ASSUME IntakeAssumption, TypeInv, [Next]_vars
  PROVE  TypeInv'
<1>1. ASSUME NEW r \in Request, NEW f \in Forms, Submit(r, f) PROVE TypeInv' BY <1>1, SubmitType
<1>2. ASSUME NEW r \in Request, NEW m \in Messages, Receive(r, m) PROVE TypeInv' BY <1>2, ReceiveType
<1>3. ASSUME NEW r \in Request, FormStep(r) PROVE TypeInv'
  BY <1>3, MatchType, CreateType, FillType, RecentType, OpenType, JoinType, ReserveType, SmsType DEF FormStep
<1>4. ASSUME NEW r \in Request, MessageStep(r) PROVE TypeInv'
  BY <1>4, FindType, IntroduceType, CaptureType, FindThreadType, UpsertType DEF MessageStep
<1>5. ASSUME NEW r \in Request, Drop(r) PROVE TypeInv' BY <1>5, DropType
<1>6. ASSUME NEW k \in DOMAIN customers, ArchiveCustomer(k) \/ \E e \in Emails : EditCustomer(k, e) PROVE TypeInv'
  BY <1>6, EditType
<1>7. ASSUME NEW l \in DOMAIN leads, CloseLead(l) PROVE TypeInv' BY <1>7, CloseType
<1>8. CASE Tick BY <1>8, TickType
<1>9. CASE UNCHANGED vars
  BY <1>9 DEF vars, TypeInv, TypeOK, Refers, Equipped, At, Input
<1> QED BY <1>1, <1>2, <1>3, <1>4, <1>5, <1>6, <1>7, <1>8, <1>9 DEF Next

\* Every request works on what it was given, and what is referred to is on record.
THEOREM TypeCorrect == IntakeAssumption => (Spec => []TypeInv)
<1> SUFFICES ASSUME IntakeAssumption PROVE Spec => []TypeInv OBVIOUS
<1>1. Init => TypeInv BY TypeInit
<1>2. TypeInv /\ [Next]_vars => TypeInv' BY TypeStep
<1> QED BY <1>1, <1>2, PTL DEF Spec

-----------------------------------------------------------------------------
(* Counting.                                                               *)

LEMMA Counts ==
  ASSUME NEW S, IsFiniteSet(S)
  PROVE  Cardinality(S) \in Nat /\ \A T \in SUBSET S : IsFiniteSet(T) /\ Cardinality(T) \in Nat
                                                       /\ Cardinality(T) <= Cardinality(S)
<1>1. Cardinality(S) \in Nat BY FS_CardinalityType
<1>2. ASSUME NEW T \in SUBSET S PROVE IsFiniteSet(T) /\ Cardinality(T) \in Nat /\ Cardinality(T) <= Cardinality(S)
  BY FS_Subset, FS_CardinalityType
<1> QED BY <1>1, <1>2

LEMMA RequestsCount ==
  ASSUME IsFiniteSet(Request)
  PROVE  \A S \in SUBSET Request : IsFiniteSet(S) /\ Cardinality(S) \in Nat
BY Counts

LEMMA NoneCount == IsFiniteSet({}) /\ Cardinality({}) = 0
BY FS_EmptySet

\* One more, one less.
LEMMA OneMore ==
  ASSUME NEW S, NEW T, NEW x, IsFiniteSet(S), T \subseteq S \cup {x}
  PROVE  IsFiniteSet(T) /\ Cardinality(T) \in Nat /\ Cardinality(T) <= Cardinality(S) + 1
<1>1. Cardinality(S) \in Nat BY FS_CardinalityType
<1>2. IsFiniteSet(S \cup {x}) /\ Cardinality(S \cup {x}) <= Cardinality(S) + 1
  BY <1>1, FS_AddElement
<1>3. T \in SUBSET (S \cup {x}) OBVIOUS
<1>4. Cardinality(T) <= Cardinality(S \cup {x}) /\ IsFiniteSet(T) BY <1>2, <1>3, FS_Subset
<1>5. Cardinality(T) \in Nat /\ Cardinality(S) \in Nat /\ Cardinality(S \cup {x}) \in Nat BY <1>2, <1>4, FS_CardinalityType
<1> QED BY <1>2, <1>4, <1>5

LEMMA OneLess ==
  ASSUME NEW S, NEW T, NEW x \in S, IsFiniteSet(S), T \subseteq S \ {x}
  PROVE  IsFiniteSet(T) /\ Cardinality(T) \in Nat /\ Cardinality(T) + 1 <= Cardinality(S)
<1>1. IsFiniteSet(S \ {x}) /\ Cardinality(S \ {x}) = Cardinality(S) - 1 BY FS_RemoveElement
<1>2. T \in SUBSET (S \ {x}) OBVIOUS
<1>3. Cardinality(T) <= Cardinality(S \ {x}) /\ IsFiniteSet(T) BY <1>1, <1>2, FS_Subset
<1>4. Cardinality(T) \in Nat /\ Cardinality(S) \in Nat BY <1>3, FS_CardinalityType
<1> QED BY <1>1, <1>3, <1>4

LEMMA Fewer ==
  ASSUME NEW S, NEW T, IsFiniteSet(S), T \subseteq S
  PROVE  IsFiniteSet(T) /\ Cardinality(T) \in Nat /\ Cardinality(T) <= Cardinality(S)
BY Counts

-----------------------------------------------------------------------------
(* Where a request goes.                                                   *)

Goes(r, to) ==
  /\ \A p \in Request \ {r} : req'[p] = req[p]
  /\ req'[r].pc \in to
  /\ req'[r].pc # "idle" => req'[r].input = Input(r) /\ req'[r].at = req[r].at /\ req'[r].repeated = req[r].repeated

LEMMA GotoGoes ==
  ASSUME TypeInv, NEW r \in Request, NEW pc \in FormPC \cup MessagePC, Goto(r, pc)
  PROVE  Goes(r, { pc })
<1>1. req[r] \in Row BY DEF TypeInv, TypeOK
<1>2. req'[r] = [req[r] EXCEPT !.pc = pc] /\ \A p \in Request \ {r} : req'[p] = req[p]
  BY GotoMoves DEF TypeInv
<1>3. req'[r].pc = pc /\ req'[r].input = Input(r) /\ req'[r].at = req[r].at /\ req'[r].repeated = req[r].repeated
  BY <1>1, <1>2 DEF Row, Input
<1> QED BY <1>2, <1>3 DEF Goes

LEMMA IdleGoes ==
  ASSUME TypeInv, NEW r \in Request, req' = [req EXCEPT ![r] = Idle]
  PROVE  Goes(r, { "idle" }) /\ req'[r] = Idle
<1>1. req'[r] = Idle /\ \A p \in Request \ {r} : req'[p] = req[p] BY IdleIsRow, Moves DEF TypeInv
<1> QED BY <1>1, IdleIsRow DEF Goes

LEMMA MatchGoes ==
  ASSUME TypeInv, NEW r \in Request, Match(r)
  PROVE  /\ At(r, "match") /\ Goes(r, { "fill", "create" }) /\ UNCHANGED << rows, now, history >>
         /\ req'[r].pc = "fill" => /\ req'[r].customer \in DOMAIN customers
                                   /\ req'[r].email = customers[req'[r].customer].email
         /\ req'[r].pc = "create" => \/ UNCHANGED bounds /\ \A k \in Candidates(Input(r)) : ~SamePerson(customers[k], Input(r))
                                     \/ Fault
         /\ UNCHANGED bounds \/ Fault
<1> DEFINE strict == { k \in Candidates(Input(r)) : SamePerson(customers[k], Input(r)) }
<1>1. At(r, "match") /\ UNCHANGED << rows, now, history >> BY DEF Match
<1>2. CASE /\ strict # {}
           /\ req' = [req EXCEPT ![r].pc = "fill", ![r].customer = Max(strict), ![r].email = customers[Max(strict)].email]
           /\ UNCHANGED bounds
  <2>1. PICK k : k = Max(strict) OBVIOUS
  <2>2. k \in DOMAIN customers BY <1>2, <2>1, StrictIs
  <2>3. req[r] \in Row /\ req \in [Request -> Row] BY DEF TypeInv, TypeOK
  <2> DEFINE q == [req[r] EXCEPT !.pc = "fill", !.customer = k, !.email = customers[k].email]
  <2>4. req' = [req EXCEPT ![r] = q] BY <1>2, <2>1
  <2>5. /\ q.pc = "fill" /\ q.input = Input(r) /\ q.at = req[r].at /\ q.repeated = req[r].repeated
        /\ q.customer = k /\ q.email = customers[k].email
    BY <2>3 DEF Row, Input
  <2> HIDE DEF q
  <2>6. req'[r] = q /\ \A p \in Request \ {r} : req'[p] = req[p] BY <2>3, <2>4
  <2> QED BY <1>1, <1>2, <2>2, <2>5, <2>6 DEF Goes
<1>3. CASE Goto(r, "create") /\ ((UNCHANGED bounds /\ strict = {}) \/ Fault)
  <2>1. Goes(r, { "create" }) BY <1>3, GotoGoes DEF FormPC
  <2>2. strict = {} => \A k \in Candidates(Input(r)) : ~SamePerson(customers[k], Input(r)) OBVIOUS
  <2> QED BY <1>1, <1>3, <2>1, <2>2 DEF Goes
<1> QED BY <1>2, <1>3 DEF Match

LEMMA CreateGoes ==
  ASSUME IntakeAssumption, TypeInv, NEW r \in Request, CreateCustomer(r)
  PROVE  /\ At(r, "create") /\ Goes(r, { "recent" })
         /\ UNCHANGED << leads, alerts, threads, now, history, bounds >>
<1>1. At(r, "create") /\ NewCustomer(r, Input(r).name, normalizePhone(Input(r).phone), Input(r).email, "form", "recent")
  BY DEF CreateCustomer
<1>2. Input(r).name \in Names /\ Input(r).email \in Emails /\ normalizePhone(Input(r).phone) \in Phones BY CreateType
<1>3. \A p \in Request \ {r} : req'[p] = req[p] BY <1>1, <1>2, NewCustomerIs
<1>4. /\ req'[r].pc = "recent" /\ req'[r].input = Input(r) /\ req'[r].at = req[r].at
      /\ req'[r].repeated = req[r].repeated
  BY <1>1, <1>2, NewCustomerIs
<1> QED BY <1>1, <1>3, <1>4 DEF Goes, NewCustomer

LEMMA IntroduceGoes ==
  ASSUME TypeInv, NEW r \in Request, IntroduceCustomer(r)
  PROVE  /\ At(r, "introduce") /\ Goes(r, { "capture" })
         /\ UNCHANGED << leads, alerts, threads, now, history, bounds >>
<1>1. At(r, "introduce") /\ NewCustomer(r, Input(r).name, Input(r).phone, Input(r).email, "message", "capture")
  BY DEF IntroduceCustomer
<1>2. Input(r).name \in Names /\ Input(r).email \in Emails /\ Input(r).phone \in Phones BY IntroduceType
<1>3. \A p \in Request \ {r} : req'[p] = req[p] BY <1>1, <1>2, NewCustomerIs
<1>4. /\ req'[r].pc = "capture" /\ req'[r].input = Input(r) /\ req'[r].at = req[r].at
      /\ req'[r].repeated = req[r].repeated
  BY <1>1, <1>2, NewCustomerIs
<1> QED BY <1>1, <1>3, <1>4 DEF Goes, NewCustomer

LEMMA RecentGoes ==
  ASSUME TypeInv, NEW r \in Request, Recent(r)
  PROVE  /\ At(r, "recent") /\ Goes(r, { "join", "open" }) /\ UNCHANGED << rows, now, history >>
         /\ req'[r].pc = "join" => /\ Repeats(r) /\ req'[r].lead = NewestOf(Fingerprint(Input(r)))
                                   /\ req'[r].count = leads[req'[r].lead].count + 1
                                   /\ UNCHANGED bounds
         /\ req'[r].pc = "open" => (~Repeats(r) /\ UNCHANGED bounds) \/ Fault
<1>1. At(r, "recent") /\ UNCHANGED << rows, now, history >> BY RecentIs
<1>2. CASE Repeats(r) /\ Joins(r) /\ UNCHANGED bounds
  <2>1. PICK l : l = NewestOf(Fingerprint(Input(r))) OBVIOUS
  <2>2. PICK n : n = leads[l].count + 1 OBVIOUS
  <2>3. req[r] \in Row /\ req \in [Request -> Row] BY DEF TypeInv, TypeOK
  <2> DEFINE q == [req[r] EXCEPT !.pc = "join", !.lead = l, !.count = n]
  <2>4. req' = [req EXCEPT ![r] = q] BY <1>2, <2>1, <2>2 DEF Joins
  <2>5. /\ q.pc = "join" /\ q.input = Input(r) /\ q.at = req[r].at /\ q.repeated = req[r].repeated
        /\ q.lead = l /\ q.count = n
    BY <2>3 DEF Row, Input
  <2> HIDE DEF q
  <2>6. req'[r] = q /\ \A p \in Request \ {r} : req'[p] = req[p] BY <2>3, <2>4
  <2> QED BY <1>1, <1>2, <2>1, <2>2, <2>5, <2>6 DEF Goes
<1>3. CASE Goto(r, "open") /\ ((~Repeats(r) /\ UNCHANGED bounds) \/ Fault)
  <2>1. Goes(r, { "open" }) BY <1>3, GotoGoes DEF FormPC
  <2> QED BY <1>1, <1>3, <2>1 DEF Goes
<1> QED BY <1>2, <1>3, RecentIs

LEMMA OpenGoes ==
  ASSUME TypeInv, NEW r \in Request, OpenLead(r)
  PROVE  /\ At(r, "open") /\ Goes(r, { "alert" }) /\ req'[r].lead = Len(leads) + 1 /\ req'[r].count = 1
         /\ leads' \in Seq(Lead) /\ Len(leads) + 1 \notin DOMAIN leads /\ DOMAIN leads' = DOMAIN leads \cup { Len(leads) + 1 }
         /\ \A l \in DOMAIN leads : leads'[l] = leads[l]
         /\ leads'[Len(leads) + 1].fingerprint = Fingerprint(Input(r)) /\ leads'[Len(leads) + 1].count = 1
         /\ leads'[Len(leads) + 1].last = req[r].at /\ leads'[Len(leads) + 1].open
         /\ UNCHANGED << customers, alerts, threads, now, accepted, untold, clobbers, overlaps, faults, budget >>
<1>1. NewLead(r, Fingerprint(Input(r)), "alert") /\ Fingerprint(Input(r)) \in Prints BY OpenType DEF OpenLead
<1>2. At(r, "open") BY DEF OpenLead
<1>3. /\ leads' \in Seq(Lead) /\ Len(leads) + 1 \notin DOMAIN leads /\ DOMAIN leads' = DOMAIN leads \cup { Len(leads) + 1 }
      /\ \A l \in DOMAIN leads : leads'[l] = leads[l]
  BY <1>1, NewLeadIs
<1>4. /\ leads'[Len(leads) + 1].fingerprint = Fingerprint(Input(r)) /\ leads'[Len(leads) + 1].count = 1
      /\ leads'[Len(leads) + 1].last = req[r].at /\ leads'[Len(leads) + 1].open
  BY <1>1, NewLeadIs
<1>5. /\ \A q \in Request \ {r} : req'[q] = req[q]
      /\ req'[r].pc = "alert" /\ req'[r].input = Input(r) /\ req'[r].at = req[r].at /\ req'[r].lead = Len(leads) + 1
      /\ req'[r].count = 1 /\ req'[r].repeated = req[r].repeated
  BY <1>1, NewLeadIs
<1> QED BY <1>1, <1>2, <1>3, <1>4, <1>5 DEF Goes, NewLead, bounds

LEMMA CaptureGoes ==
  ASSUME TypeInv, NEW r \in Request, CaptureLead(r)
  PROVE  /\ At(r, "capture") /\ Goes(r, { "thread", "idle" })
         /\ leads' \in Seq(Lead) /\ Len(leads) + 1 \notin DOMAIN leads /\ DOMAIN leads' = DOMAIN leads \cup { Len(leads) + 1 }
         /\ \A l \in DOMAIN leads : leads'[l] = leads[l]
         /\ leads'[Len(leads) + 1].fingerprint = None
         /\ UNCHANGED << customers, alerts, threads, now, history, faults, budget >>
<1>1. PICK next \in { "thread", "idle" } : At(r, "capture") /\ NewLead(r, None, next) BY DEF CaptureLead
<1>2. /\ leads' \in Seq(Lead) /\ Len(leads) + 1 \notin DOMAIN leads /\ DOMAIN leads' = DOMAIN leads \cup { Len(leads) + 1 }
      /\ \A l \in DOMAIN leads : leads'[l] = leads[l]
  BY <1>1, NewLeadIs
<1>3. leads'[Len(leads) + 1].fingerprint = None BY <1>1, NewLeadIs
<1>4. /\ \A q \in Request \ {r} : req'[q] = req[q]
      /\ req'[r].pc = next
      /\ next # "idle" => req'[r].input = Input(r) /\ req'[r].at = req[r].at /\ req'[r].repeated = req[r].repeated
  BY <1>1, NewLeadIs
<1>5. Goes(r, { "thread", "idle" }) BY <1>4 DEF Goes
<1> QED BY <1>1, <1>2, <1>3, <1>5 DEF NewLead, bounds, history, CaptureLead

LEMMA JoinGoes ==
  ASSUME TypeInv, NEW r \in Request, JoinLead(r)
  PROVE  /\ At(r, "join") /\ Goes(r, { "alert" }) /\ req'[r].lead = req[r].lead /\ req'[r].count = req[r].count
         /\ UNCHANGED << customers, alerts, threads, now, history, faults, budget >>
<1>1. /\ req'[r].pc = "alert" /\ req'[r].input = Input(r) /\ req'[r].at = req[r].at /\ req'[r].lead = req[r].lead
      /\ req'[r].count = req[r].count /\ req'[r].repeated = req[r].repeated
  BY JoinIs
<1>2. \A q \in Request \ {r} : req'[q] = req[q] BY JoinIs
<1> QED BY <1>1, <1>2 DEF Goes, JoinLead, bounds

LEMMA AnswerGoes ==
  ASSUME TypeInv, NEW r \in Request, NEW t \in BOOLEAN, Answer(r, t)
  PROVE  /\ Goes(r, { "idle" }) /\ req'[r] = Idle
         /\ UNCHANGED << customers, leads, threads, now, bypassed, clobbers, overlaps >>
         /\ untold' = untold + (IF t THEN 0 ELSE 1)
         /\ accepted' = accepted \cup { [lead |-> req[r].lead, at |-> req[r].at] }
BY IdleGoes DEF Answer, Count

LEMMA ReserveGoes ==
  ASSUME TypeInv, NEW r \in Request, Reserve(r)
  PROVE  /\ At(r, "alert") /\ Goes(r, { "sms", "idle" })
         /\ UNCHANGED << customers, leads, threads, now, bypassed, clobbers, overlaps >>
         /\ UNCHANGED bounds \/ Fault
         /\ req'[r].pc = "sms" => req'[r].lead = req[r].lead /\ UNCHANGED accepted
         /\ req'[r].pc = "idle" => accepted' = accepted \cup { [lead |-> req[r].lead, at |-> req[r].at] }
<1> DEFINE key == << req[r].lead, req[r].count >>
<1>1. At(r, "alert") BY DEF Reserve
<1>2. CASE /\ key \notin alerts /\ alerts' = alerts \cup { key } /\ Goto(r, "sms")
           /\ UNCHANGED << customers, leads, threads, now, history, bounds >>
  <2>1. req'[r] = [req[r] EXCEPT !.pc = "sms"] /\ req[r] \in Row BY <1>2, GotoMoves DEF TypeInv, TypeOK, FormPC
  <2>2. req'[r].lead = req[r].lead BY <2>1 DEF Row
  <2>3. Goes(r, { "sms" }) BY <1>2, GotoGoes DEF FormPC
  <2> QED BY <1>1, <1>2, <2>2, <2>3 DEF Goes, history
<1>3. CASE Answer(r, FALSE) /\ (UNCHANGED bounds \/ Fault)
  BY <1>1, <1>3, AnswerGoes, IdleIsRow DEF Goes
<1> QED BY <1>2, <1>3, ReserveIs

LEMMA SmsGoes ==
  ASSUME TypeInv, NEW r \in Request, Sms(r)
  PROVE  /\ At(r, "sms") /\ Goes(r, { "idle" })
         /\ UNCHANGED << customers, leads, alerts, threads, now, bypassed, clobbers, overlaps >>
         /\ accepted' = accepted \cup { [lead |-> req[r].lead, at |-> req[r].at] }
         /\ \/ UNCHANGED bounds /\ untold' = untold + 0
            \/ Fault /\ untold' = untold + 1
BY AnswerGoes DEF Sms

LEMMA FoundGoes ==
  ASSUME TypeInv, NEW r \in Request, NEW S, NEW otherwise \in MessagePC, Found(r, S, otherwise)
  PROVE  /\ Goes(r, { "capture", "idle", otherwise })
         /\ S # {} => Goes(r, { "capture", "idle" })
         /\ UNCHANGED << rows, now, history, bounds >>
<1>1. UNCHANGED << rows, now, history, bounds >> BY DEF Found
<1>2. CASE S = {} /\ Goto(r, otherwise) BY <1>1, <1>2, GotoGoes DEF Goes
<1>3. CASE req' = [req EXCEPT ![r] = Idle] BY <1>1, <1>3, IdleGoes DEF Goes
<1>4. CASE req' = [req EXCEPT ![r].pc = "capture", ![r].customer = Max(S)]
  <2>1. PICK n : n = Max(S) OBVIOUS
  <2>2. req[r] \in Row /\ req \in [Request -> Row] BY DEF TypeInv, TypeOK
  <2> DEFINE q == [req[r] EXCEPT !.pc = "capture", !.customer = n]
  <2>3. req' = [req EXCEPT ![r] = q] BY <1>4, <2>1
  <2>4. q.pc = "capture" /\ q.input = Input(r) /\ q.at = req[r].at /\ q.repeated = req[r].repeated
    BY <2>2 DEF Row, Input
  <2> HIDE DEF q
  <2>5. req'[r] = q /\ \A p \in Request \ {r} : req'[p] = req[p] BY <2>2, <2>3
  <2> QED BY <1>1, <2>4, <2>5 DEF Goes
<1> QED BY <1>2, <1>3, <1>4 DEF Found

\* The customers that a look by number, or by address, finds.
ByPhone(r) == { k \in Standing : customers[k].phone = Input(r).phone }
ByEmail(r) == { k \in Standing : customers[k].email = Input(r).email }

LEMMA FindGoes ==
  ASSUME TypeInv, NEW r \in Request, FindByPhone(r) \/ FindByEmail(r)
  PROVE  /\ UNCHANGED << rows, now, history, bounds >>
         /\ \/ /\ At(r, "byPhone") /\ Goes(r, { "capture", "idle", "byEmail", "introduce" })
               /\ ByPhone(r) # {} => Goes(r, { "capture", "idle" })
            \/ At(r, "byEmail") /\ Goes(r, { "capture", "idle", "introduce" })
<1>1. CASE FindByPhone(r)
  <2>1. PICK otherwise \in { "byEmail", "introduce" } : Found(r, ByPhone(r), otherwise) BY <1>1 DEF FindByPhone, ByPhone
  <2>2. /\ Goes(r, { "capture", "idle", otherwise }) /\ UNCHANGED << rows, now, history, bounds >>
        /\ ByPhone(r) # {} => Goes(r, { "capture", "idle" })
    BY <2>1, FoundGoes DEF MessagePC
  <2> QED BY <1>1, <2>2 DEF Goes, FindByPhone
<1>2. CASE FindByEmail(r)
  <2>1. Found(r, ByEmail(r), "introduce") BY <1>2 DEF FindByEmail, ByEmail
  <2>2. Goes(r, { "capture", "idle", "introduce" }) /\ UNCHANGED << rows, now, history, bounds >>
    BY <2>1, FoundGoes DEF MessagePC
  <2> QED BY <1>2, <2>2 DEF FindByEmail
<1> QED BY <1>1, <1>2

LEMMA FindThreadGoes ==
  ASSUME TypeInv, NEW r \in Request, FindThread(r)
  PROVE  /\ At(r, "thread") /\ Goes(r, { "upsert" }) /\ UNCHANGED << rows, now, history, bounds >>
         /\ ThreadsOf(r) = {} => req'[r].thread = 0
         /\ ThreadsOf(r) # {} => /\ Max(ThreadsOf(r)) \in ThreadsOf(r)
                                 /\ req'[r].thread = threads[Max(ThreadsOf(r))].id
<1>1. PICK n : n = IF ThreadsOf(r) = {} THEN 0 ELSE threads[Max(ThreadsOf(r))].id OBVIOUS
<1>2. req[r] \in Row /\ req \in [Request -> Row] BY DEF TypeInv, TypeOK
<1> DEFINE q == [req[r] EXCEPT !.pc = "upsert", !.thread = n]
<1>3. req' = [req EXCEPT ![r] = q] BY <1>1 DEF FindThread
<1>4. q.pc = "upsert" /\ q.input = Input(r) /\ q.at = req[r].at /\ q.repeated = req[r].repeated /\ q.thread = n
  BY <1>2 DEF Row, Input
<1> HIDE DEF q
<1>5. req'[r] = q /\ \A p \in Request \ {r} : req'[p] = req[p] BY <1>2, <1>3
<1>6. ThreadsOf(r) # {} => Max(ThreadsOf(r)) \in ThreadsOf(r) BY MaxOfPositions DEF ThreadsOf, TypeInv, TypeOK
<1>7. At(r, "thread") /\ UNCHANGED << rows, now, history, bounds >> BY DEF FindThread
<1>8. Goes(r, { "upsert" }) BY <1>4, <1>5 DEF Goes
<1> QED BY <1>1, <1>4, <1>5, <1>6, <1>7, <1>8

LEMMA UpsertGoes ==
  ASSUME TypeInv, NEW r \in Request, UpsertThread(r)
  PROVE  /\ At(r, "upsert") /\ Goes(r, { "idle" })
         /\ UNCHANGED << customers, leads, alerts, now, history, bounds >>
BY IdleGoes DEF UpsertThread

LEMMA FillGoes ==
  ASSUME IntakeAssumption, TypeInv, NEW r \in Request, FillCustomer(r)
  PROVE  /\ At(r, "fill") /\ Goes(r, { "recent" })
         /\ UNCHANGED << leads, alerts, threads, now, accepted, bypassed, untold, overlaps >>
         /\ UNCHANGED bounds \/ Fault
BY GotoGoes DEF FillCustomer, FormPC

LEMMA DropGoes ==
  ASSUME TypeInv, NEW r \in Request, Drop(r)
  PROVE  ~At(r, "idle") /\ Goes(r, { "idle" }) /\ Fault /\ UNCHANGED << rows, now, history >>
BY IdleGoes DEF Drop

\* A request begins.
LEMMA SubmitGoes ==
  ASSUME IntakeAssumption, TypeInv, NEW r \in Request, NEW f \in Forms, Submit(r, f)
  PROVE  /\ At(r, "idle") /\ \A p \in Request \ {r} : req'[p] = req[p]
         /\ At(r, "match")' /\ Input(r)' = f /\ req'[r].at = now
         /\ req'[r].repeated = { a.lead : a \in { b \in accepted : leads[b.lead].fingerprint = Fingerprint(f)
                                                                  /\ now - b.at <= Window } }
         /\ Overlap /\ UNCHANGED << rows, now, accepted, bypassed, untold, clobbers, faults >>
<1> DEFINE rep == { a.lead : a \in { b \in accepted : leads[b.lead].fingerprint = Fingerprint(f) /\ now - b.at <= Window } }
           q == [Idle EXCEPT !.pc = "match", !.input = f, !.at = now, !.repeated = rep]
<1>1. req' = [req EXCEPT ![r] = q] BY DEF Submit
<1>2. q.pc = "match" /\ q.input = f /\ q.at = now /\ q.repeated = rep BY DEF Idle
<1> HIDE DEF q, rep
<1>3. req'[r] = q /\ \A p \in Request \ {r} : req'[p] = req[p] BY <1>1 DEF TypeInv, TypeOK
<1>4. At(r, "match")' /\ Input(r)' = f /\ req'[r].at = now /\ req'[r].repeated = rep BY <1>2, <1>3 DEF At, Input
<1>5. Overlap /\ UNCHANGED << rows, now, accepted, bypassed, untold, clobbers, faults >> /\ At(r, "idle") BY DEF Submit
<1> QED BY <1>3, <1>4, <1>5 DEF rep

LEMMA ReceiveGoes ==
  ASSUME TypeInv, NEW r \in Request, NEW m \in Messages, Receive(r, m)
  PROVE  /\ At(r, "idle") /\ \A p \in Request \ {r} : req'[p] = req[p]
         /\ req'[r].pc \in { "byPhone", "byEmail" } /\ Input(r)' = m
         /\ m.phone # None => At(r, "byPhone")'
         /\ Overlap /\ UNCHANGED << rows, now, accepted, bypassed, untold, clobbers, faults >>
<1> DEFINE q == [Idle EXCEPT !.pc = IF m.phone # None THEN "byPhone" ELSE "byEmail", !.input = m, !.at = now]
<1>1. req' = [req EXCEPT ![r] = q] BY DEF Receive
<1>2. q.pc \in { "byPhone", "byEmail" } /\ q.input = m /\ (m.phone # None => q.pc = "byPhone") BY DEF Idle
<1> HIDE DEF q
<1>3. req'[r] = q /\ \A p \in Request \ {r} : req'[p] = req[p] BY <1>1 DEF TypeInv, TypeOK
<1>4. req'[r].pc \in { "byPhone", "byEmail" } /\ Input(r)' = m /\ (m.phone # None => At(r, "byPhone")')
  BY <1>2, <1>3 DEF At, Input
<1>5. Overlap /\ UNCHANGED << rows, now, accepted, bypassed, untold, clobbers, faults >> /\ At(r, "idle") BY DEF Receive
<1> QED BY <1>3, <1>4, <1>5

-----------------------------------------------------------------------------
(* Requests that run at the same time.                                     *)

\* Every running request but one has overlapped.
ApartInv == Cardinality(Running) <= 1 + overlaps

LEMMA ApartInit == ASSUME IntakeAssumption, Init PROVE ApartInv
<1>1. Running = {} BY DEF Init, Running, At, Idle
<1> QED BY <1>1, NoneCount DEF Init, ApartInv

\* One request goes on, or none.
LEMMA ApartGoes ==
  ASSUME IntakeAssumption, TypeInv, ApartInv, overlaps' \in Nat, overlaps <= overlaps',
         UNCHANGED req \/ \E r \in Running : \A p \in Request \ {r} : req'[p] = req[p]
  PROVE  ApartInv' /\ Running' \subseteq Running
<1>1. Running' \subseteq Running BY DEF Running, At
<1>2. IsFiniteSet(Running) /\ Cardinality(Running) \in Nat BY RequestsCount DEF Running
<1>3. Cardinality(Running') \in Nat /\ Cardinality(Running') <= Cardinality(Running) BY <1>1, <1>2, Fewer
<1>4. overlaps \in Nat BY DEF TypeInv, TypeOK
<1> QED BY <1>1, <1>2, <1>3, <1>4 DEF ApartInv

\* One begins.
LEMMA ApartBegins ==
  ASSUME IntakeAssumption, TypeInv, ApartInv, NEW r \in Request, Overlap,
         \A p \in Request \ {r} : req'[p] = req[p]
  PROVE  ApartInv' /\ Running' \subseteq Running \cup {r}
<1>1. Running' \subseteq Running \cup {r} BY DEF Running, At
<1>2. IsFiniteSet(Running) /\ Cardinality(Running) \in Nat BY RequestsCount DEF Running
<1>3. Cardinality(Running') \in Nat /\ Cardinality(Running') <= Cardinality(Running) + 1 BY <1>1, <1>2, OneMore
<1>4. overlaps \in Nat /\ (Running = {} => overlaps' = overlaps) /\ (Running # {} => overlaps' = overlaps + 1)
  BY OverlapType DEF TypeInv, TypeOK
<1>5. CASE Running = {}
  BY <1>1, <1>3, <1>4, <1>5, NoneCount DEF ApartInv
<1>6. CASE Running # {}
  BY <1>1, <1>2, <1>3, <1>4, <1>6 DEF ApartInv
<1> QED BY <1>1, <1>5, <1>6

\* The office edits: nothing begins.
LEMMA OverlapGrows ==
  ASSUME TypeInv, Overlap \/ UNCHANGED overlaps
  PROVE  overlaps \in Nat /\ overlaps' \in Nat /\ overlaps <= overlaps'
BY OverlapType DEF TypeInv, TypeOK

LEMMA GoesRuns ==
  ASSUME NEW r \in Request, NEW pc, NEW to, pc # "idle", At(r, pc), Goes(r, to)
  PROVE  \E q \in Running : \A p \in Request \ {q} : req'[p] = req[p]
BY DEF Goes, Running, At

LEMMA ApartStep ==
  ASSUME IntakeAssumption, TypeInv, ApartInv, [Next]_vars
  PROVE  ApartInv'
<1>1. ASSUME NEW r \in Request, NEW f \in Forms, Submit(r, f) PROVE ApartInv'
  BY <1>1, SubmitGoes, ApartBegins
<1>2. ASSUME NEW r \in Request, NEW m \in Messages, Receive(r, m) PROVE ApartInv'
  BY <1>2, ReceiveGoes, ApartBegins
<1>3. ASSUME NEW r \in Request, FormStep(r) PROVE ApartInv'
  <2>1. UNCHANGED overlaps
    <3>1. CASE Match(r) BY <3>1, MatchGoes DEF history
    <3>2. CASE CreateCustomer(r) BY <3>2, CreateGoes DEF history
    <3>3. CASE FillCustomer(r) BY <3>3, FillGoes
    <3>4. CASE Recent(r) BY <3>4, RecentGoes DEF history
    <3>5. CASE OpenLead(r) BY <3>5, OpenGoes
    <3>6. CASE JoinLead(r) BY <3>6, JoinGoes DEF history
    <3>7. CASE Reserve(r) BY <3>7, ReserveGoes
    <3>8. CASE Sms(r) BY <3>8, SmsGoes
    <3> QED BY <1>3, <3>1, <3>2, <3>3, <3>4, <3>5, <3>6, <3>7, <3>8 DEF FormStep
  <2>2. \E pc \in FormPC : \E to : At(r, pc) /\ Goes(r, to)
    BY <1>3, MatchGoes, CreateGoes, FillGoes, RecentGoes, OpenGoes, JoinGoes, ReserveGoes, SmsGoes DEF FormStep, FormPC
  <2>3. \E q \in Running : \A p \in Request \ {q} : req'[p] = req[p] BY <2>2, GoesRuns DEF FormPC
  <2> QED BY <2>1, <2>3, OverlapGrows, ApartGoes
<1>4. ASSUME NEW r \in Request, MessageStep(r) PROVE ApartInv'
  <2>1. UNCHANGED overlaps
    BY <1>4, FindGoes, IntroduceGoes, CaptureGoes, FindThreadGoes, UpsertGoes DEF MessageStep, history
  <2>2. \E pc \in MessagePC : \E to : At(r, pc) /\ Goes(r, to)
    BY <1>4, FindGoes, IntroduceGoes, CaptureGoes, FindThreadGoes, UpsertGoes DEF MessageStep, MessagePC
  <2>3. \E q \in Running : \A p \in Request \ {q} : req'[p] = req[p] BY <2>2, GoesRuns DEF MessagePC
  <2> QED BY <2>1, <2>3, OverlapGrows, ApartGoes
<1>5. ASSUME NEW r \in Request, Drop(r) PROVE ApartInv'
  <2>1. ~At(r, "idle") /\ Goes(r, { "idle" }) /\ UNCHANGED overlaps BY <1>5, DropGoes DEF history
  <2>2. \E q \in Running : \A p \in Request \ {q} : req'[p] = req[p] BY <2>1 DEF Goes, Running
  <2> QED BY <2>1, <2>2, OverlapGrows, ApartGoes
<1>6. ASSUME NEW k \in DOMAIN customers, ArchiveCustomer(k) \/ \E e \in Emails : EditCustomer(k, e) PROVE ApartInv'
  <2>1. UNCHANGED req /\ (Overlap \/ UNCHANGED overlaps) BY <1>6 DEF ArchiveCustomer, EditCustomer, history
  <2> QED BY <2>1, OverlapGrows, ApartGoes
<1>7. ASSUME NEW l \in DOMAIN leads, CloseLead(l) PROVE ApartInv'
  <2>1. UNCHANGED req /\ UNCHANGED overlaps BY <1>7 DEF CloseLead, history
  <2> QED BY <2>1, OverlapGrows, ApartGoes
<1>8. CASE Tick
  <2>1. UNCHANGED req /\ UNCHANGED overlaps BY <1>8 DEF Tick, history
  <2> QED BY <2>1, OverlapGrows, ApartGoes
<1>9. CASE UNCHANGED vars
  <2>1. UNCHANGED req /\ UNCHANGED overlaps BY <1>9 DEF vars
  <2> QED BY <2>1, OverlapGrows, ApartGoes
<1> QED BY <1>1, <1>2, <1>3, <1>4, <1>5, <1>6, <1>7, <1>8, <1>9 DEF Next

-----------------------------------------------------------------------------
(* Addresses that are overwritten.                                         *)

\* The forms that have not written their customer yet.
Fillers == { r \in Request : req[r].pc \in { "match", "fill" } }

\* A form whose copy of its customer is out of date.
Outdated(r) == At(r, "fill") /\ customers[req[r].customer].email # req[r].email
Stale == \E r \in Request : Outdated(r)

\* What was overwritten and who may overwrite: each has an overlap of its own, but for
\* one that may write last, whose copy is true as long as no overlap is paid for it.
ClobberInv ==
  /\ clobbers <= overlaps
  /\ clobbers + Cardinality(Fillers) <= overlaps + 1
  /\ Stale => clobbers + Cardinality(Fillers) <= overlaps

LEMMA FillersCount ==
  ASSUME IntakeAssumption
  PROVE  IsFiniteSet(Fillers) /\ Cardinality(Fillers) \in Nat /\ Fillers \subseteq Running
BY RequestsCount DEF Fillers, Running, At

LEMMA ClobberInit == ASSUME IntakeAssumption, Init PROVE ClobberInv
<1>1. Fillers = {} /\ ~Stale BY DEF Init, Fillers, Stale, Outdated, At, Idle
<1> QED BY <1>1, NoneCount DEF Init, ClobberInv

\* No form comes to look at its customer, and no customer changes its address.
LEMMA ClobberStays ==
  ASSUME IntakeAssumption, TypeInv, ClobberInv, UNCHANGED clobbers, overlaps' \in Nat, overlaps <= overlaps',
         \A p \in Request : req'[p] = req[p] \/ req'[p].pc \notin { "match", "fill" },
         DOMAIN customers \subseteq DOMAIN customers', \A k \in DOMAIN customers : customers'[k].email = customers[k].email
  PROVE  ClobberInv'
<1>1. Fillers' \subseteq Fillers BY DEF Fillers
<1>2. Cardinality(Fillers') \in Nat /\ Cardinality(Fillers') <= Cardinality(Fillers) /\ Cardinality(Fillers) \in Nat
  BY <1>1, FillersCount, Fewer
<1>3. ASSUME Stale' PROVE Stale
  <2>1. PICK p \in Request : Outdated(p)' BY <1>3 DEF Stale
  <2>2. req'[p] = req[p] BY <2>1 DEF Outdated, At
  <2>3. At(p, "fill") BY <2>1, <2>2 DEF Outdated, At
  <2>4. req[p].customer \in DOMAIN customers BY <2>3 DEF TypeInv, Refers, Equipped
  <2> QED BY <2>1, <2>2, <2>3, <2>4 DEF Stale, Outdated
<1>4. overlaps \in Nat /\ clobbers \in Nat BY DEF TypeInv, TypeOK
<1> QED BY <1>2, <1>3, <1>4 DEF ClobberInv

\* One request goes on, beyond its customer.
LEMMA ClobberGoes ==
  ASSUME IntakeAssumption, TypeInv, ClobberInv, UNCHANGED << clobbers, overlaps, customers >>,
         NEW r \in Request, NEW to, Goes(r, to), to \cap { "match", "fill" } = {}
  PROVE  ClobberInv'
<1>1. \A p \in Request : req'[p] = req[p] \/ req'[p].pc \notin { "match", "fill" } BY DEF Goes
<1>2. overlaps' \in Nat /\ overlaps <= overlaps' BY DEF TypeInv, TypeOK
<1> QED BY <1>1, <1>2, ClobberStays

LEMMA ClobberSubmit ==
  ASSUME IntakeAssumption, TypeInv, ClobberInv, NEW r \in Request, NEW f \in Forms, Submit(r, f)
  PROVE  ClobberInv'
<1>1. /\ \A p \in Request \ {r} : req'[p] = req[p]
      /\ At(r, "match")' /\ Overlap /\ UNCHANGED << customers, clobbers >>
  BY SubmitGoes DEF rows
<1>2. overlaps \in Nat /\ clobbers \in Nat /\ (Running = {} => overlaps' = overlaps) /\ (Running # {} => overlaps' = overlaps + 1)
  BY <1>1, OverlapType DEF TypeInv, TypeOK
<1>3. Fillers' \subseteq Fillers \cup {r} BY <1>1 DEF Fillers
<1>4. Cardinality(Fillers') \in Nat /\ Cardinality(Fillers') <= Cardinality(Fillers) + 1 /\ Cardinality(Fillers) \in Nat
  BY <1>3, FillersCount, OneMore
<1>5. ASSUME Stale' PROVE Stale
  <2>1. PICK p \in Request : Outdated(p)' BY <1>5 DEF Stale
  <2>2. p # r BY <1>1, <2>1 DEF Outdated, At
  <2> QED BY <1>1, <2>1, <2>2 DEF Stale, Outdated, At
<1>6. CASE Running = {}
  <2>1. Fillers = {} BY <1>6, FillersCount
  <2>2. ~Stale BY <2>1 DEF Stale, Outdated, Fillers, At
  <2>3. clobbers' = clobbers BY <1>1
  <2>4. Cardinality(Fillers') <= 1 BY <1>4, <2>1, NoneCount
  <2> QED BY <1>2, <1>4, <1>5, <1>6, <2>2, <2>3, <2>4 DEF ClobberInv
<1>7. CASE Running # {}
  <2>1. clobbers' = clobbers BY <1>1
  <2> QED BY <1>2, <1>4, <1>5, <1>7, <2>1 DEF ClobberInv
<1> QED BY <1>6, <1>7

LEMMA ClobberMatch ==
  ASSUME IntakeAssumption, TypeInv, ClobberInv, NEW r \in Request, Match(r)
  PROVE  ClobberInv'
<1>1. At(r, "match") /\ Goes(r, { "fill", "create" }) BY MatchGoes
<1>2. req'[r].pc = "fill" => req'[r].email = customers[req'[r].customer].email BY MatchGoes
<1>3. UNCHANGED << customers, clobbers, overlaps >> BY MatchGoes DEF rows, history
<1>4. Fillers' \subseteq Fillers BY <1>1 DEF Fillers, Goes, At
<1>5. Cardinality(Fillers') \in Nat /\ Cardinality(Fillers') <= Cardinality(Fillers) /\ Cardinality(Fillers) \in Nat
  BY <1>4, FillersCount, Fewer
<1>6. ASSUME Stale' PROVE Stale
  <2>1. PICK p \in Request : Outdated(p)' BY <1>6 DEF Stale
  <2>2. p # r BY <1>2, <1>3, <2>1 DEF Outdated, At
  <2> QED BY <1>1, <1>3, <2>1, <2>2 DEF Stale, Outdated, At, Goes
<1>7. overlaps \in Nat /\ clobbers \in Nat BY DEF TypeInv, TypeOK
<1> QED BY <1>3, <1>5, <1>6, <1>7 DEF ClobberInv

\* The one that writes an address over another has a copy that is out of date.
LEMMA ClobberFill ==
  ASSUME IntakeAssumption, TypeInv, ClobberInv, NEW r \in Request, FillCustomer(r)
  PROVE  ClobberInv'
<1>1. At(r, "fill") /\ Goes(r, { "recent" }) /\ UNCHANGED overlaps BY FillGoes
<1>2. r \in Fillers /\ Fillers' \subseteq Fillers \ {r} BY <1>1 DEF Fillers, Goes, At
<1>3. Cardinality(Fillers') \in Nat /\ Cardinality(Fillers') + 1 <= Cardinality(Fillers) /\ Cardinality(Fillers) \in Nat
  BY <1>2, FillersCount, OneLess
<1>4. overlaps \in Nat /\ clobbers \in Nat BY DEF TypeInv, TypeOK
<1>5. clobbers' = clobbers \/ (clobbers' = clobbers + 1 /\ Stale)
  <2>1. CASE UNCHANGED clobbers BY <2>1
  <2>2. CASE clobbers' = clobbers + Count(customers[req[r].customer].email
                                             \notin { None, Filled(req[r].email, Input(r).email) })
    <3>1. CASE customers[req[r].customer].email \notin { None, Filled(req[r].email, Input(r).email) }
      <4>1. customers[req[r].customer].email # req[r].email BY <3>1 DEF Filled
      <4> QED BY <1>1, <2>2, <3>1, <4>1 DEF Stale, Outdated, Count
    <3>2. CASE ~ (customers[req[r].customer].email \notin { None, Filled(req[r].email, Input(r).email) })
      BY <1>4, <2>2, <3>2 DEF Count
    <3> QED BY <3>1, <3>2
  <2> QED BY <2>1, <2>2 DEF FillCustomer
<1> QED BY <1>1, <1>3, <1>4, <1>5 DEF ClobberInv

\* An edit beside a running request is an overlap.
LEMMA ClobberEdit ==
  ASSUME IntakeAssumption, TypeInv, ClobberInv, UNCHANGED << req, clobbers >>, Overlap
  PROVE  ClobberInv'
<1>1. Fillers' = Fillers BY DEF Fillers
<1>2. overlaps \in Nat /\ clobbers \in Nat /\ (Running = {} => overlaps' = overlaps) /\ (Running # {} => overlaps' = overlaps + 1)
  BY OverlapType DEF TypeInv, TypeOK
<1>3. Cardinality(Fillers) \in Nat BY FillersCount
<1>4. CASE Running = {}
  <2>1. Fillers = {} BY <1>4, FillersCount
  <2>2. ~Stale' BY <1>1, <2>1 DEF Stale, Outdated, Fillers, At
  <2> QED BY <1>1, <1>2, <1>4, <2>1, <2>2 DEF ClobberInv
<1>5. CASE Running # {}
  <2>1. Cardinality(Fillers') = Cardinality(Fillers) BY <1>1
  <2> QED BY <1>2, <1>3, <1>5, <2>1 DEF ClobberInv
<1> QED BY <1>4, <1>5

LEMMA ClobberStep ==
  ASSUME IntakeAssumption, TypeInv, ClobberInv, [Next]_vars
  PROVE  ClobberInv'
<1>1. ASSUME NEW r \in Request, NEW f \in Forms, Submit(r, f) PROVE ClobberInv' BY <1>1, ClobberSubmit
<1>2. ASSUME NEW r \in Request, NEW m \in Messages, Receive(r, m) PROVE ClobberInv'
  <2>1. /\ \A p \in Request \ {r} : req'[p] = req[p]
        /\ req'[r].pc \in { "byPhone", "byEmail" } /\ Overlap /\ UNCHANGED << customers, clobbers >>
    BY <1>2, ReceiveGoes DEF rows
  <2>2. \A p \in Request : req'[p] = req[p] \/ req'[p].pc \notin { "match", "fill" } BY <2>1
  <2>3. overlaps' \in Nat /\ overlaps <= overlaps' BY <2>1, OverlapGrows
  <2> QED BY <2>1, <2>2, <2>3, ClobberStays
<1>3. ASSUME NEW r \in Request, FormStep(r) PROVE ClobberInv'
  <2>1. CASE Match(r) BY <2>1, ClobberMatch
  <2>2. CASE CreateCustomer(r)
    <3>1. Goes(r, { "recent" }) /\ UNCHANGED << clobbers, overlaps >> BY <2>2, CreateGoes DEF history
    <3>2. \A p \in Request : req'[p] = req[p] \/ req'[p].pc \notin { "match", "fill" } BY <3>1 DEF Goes
    <3>3. NewCustomer(r, Input(r).name, normalizePhone(Input(r).phone), Input(r).email, "form", "recent")
      BY <2>2 DEF CreateCustomer
    <3>4. Input(r).name \in Names /\ Input(r).email \in Emails /\ normalizePhone(Input(r).phone) \in Phones
      BY <2>2, CreateType
    <3>5. DOMAIN customers' = DOMAIN customers \cup { Len(customers) + 1 }
          /\ \A k \in DOMAIN customers : customers'[k] = customers[k]
      BY <3>3, <3>4, NewCustomerIs
    <3>6. overlaps' \in Nat /\ overlaps <= overlaps' BY <3>1, OverlapGrows
    <3> QED BY <3>1, <3>2, <3>5, <3>6, ClobberStays
  <2>3. CASE FillCustomer(r) BY <2>3, ClobberFill
  <2>4. CASE Recent(r) BY <2>4, RecentGoes, ClobberGoes DEF rows, history
  <2>5. CASE OpenLead(r) BY <2>5, OpenGoes, ClobberGoes
  <2>6. CASE JoinLead(r) BY <2>6, JoinGoes, ClobberGoes DEF history
  <2>7. CASE Reserve(r) BY <2>7, ReserveGoes, ClobberGoes
  <2>8. CASE Sms(r) BY <2>8, SmsGoes, ClobberGoes
  <2> QED BY <1>3, <2>1, <2>2, <2>3, <2>4, <2>5, <2>6, <2>7, <2>8 DEF FormStep
<1>4. ASSUME NEW r \in Request, MessageStep(r) PROVE ClobberInv'
  <2>1. CASE FindByPhone(r) \/ FindByEmail(r)
    <3>1. Goes(r, { "capture", "idle", "byEmail", "introduce" }) /\ UNCHANGED << clobbers, overlaps, customers >>
      BY <2>1, FindGoes DEF Goes, rows, history
    <3> QED BY <3>1, ClobberGoes
  <2>2. CASE IntroduceCustomer(r)
    <3>1. Goes(r, { "capture" }) /\ UNCHANGED << clobbers, overlaps >> BY <2>2, IntroduceGoes DEF history
    <3>2. \A p \in Request : req'[p] = req[p] \/ req'[p].pc \notin { "match", "fill" } BY <3>1 DEF Goes
    <3>3. NewCustomer(r, Input(r).name, Input(r).phone, Input(r).email, "message", "capture")
      BY <2>2 DEF IntroduceCustomer
    <3>4. Input(r).name \in Names /\ Input(r).email \in Emails /\ Input(r).phone \in Phones BY <2>2, IntroduceType
    <3>5. DOMAIN customers' = DOMAIN customers \cup { Len(customers) + 1 }
          /\ \A k \in DOMAIN customers : customers'[k] = customers[k]
      BY <3>3, <3>4, NewCustomerIs
    <3>6. overlaps' \in Nat /\ overlaps <= overlaps' BY <3>1, OverlapGrows
    <3> QED BY <3>1, <3>2, <3>5, <3>6, ClobberStays
  <2>3. CASE CaptureLead(r) BY <2>3, CaptureGoes, ClobberGoes DEF history
  <2>4. CASE FindThread(r) BY <2>4, FindThreadGoes, ClobberGoes DEF rows, history
  <2>5. CASE UpsertThread(r) BY <2>5, UpsertGoes, ClobberGoes DEF history
  <2> QED BY <1>4, <2>1, <2>2, <2>3, <2>4, <2>5 DEF MessageStep
<1>5. ASSUME NEW r \in Request, Drop(r) PROVE ClobberInv' BY <1>5, DropGoes, ClobberGoes DEF rows, history
<1>6. ASSUME NEW k \in DOMAIN customers, NEW e \in Emails, EditCustomer(k, e) PROVE ClobberInv'
  BY <1>6, ClobberEdit DEF EditCustomer
<1>7. ASSUME NEW k \in DOMAIN customers, ArchiveCustomer(k) PROVE ClobberInv'
  <2>1. customers' = [customers EXCEPT ![k].archived = TRUE] /\ UNCHANGED << req, clobbers, overlaps >>
    BY <1>7 DEF ArchiveCustomer, history
  <2>2. \A j \in DOMAIN customers : customers[j] \in Customer BY DEF TypeInv, TypeOK
  <2>3. DOMAIN customers' = DOMAIN customers /\ \A j \in DOMAIN customers : customers'[j].email = customers[j].email
    BY <2>1, <2>2 DEF Customer
  <2>4. overlaps' \in Nat /\ overlaps <= overlaps' BY <2>1, OverlapGrows
  <2> QED BY <2>1, <2>3, <2>4, ClobberStays
<1>8. CASE (\E l \in DOMAIN leads : CloseLead(l)) \/ Tick \/ UNCHANGED vars
  <2>1. UNCHANGED << req, customers, clobbers, overlaps >> BY <1>8 DEF CloseLead, Tick, vars, rows, history
  <2>2. overlaps' \in Nat /\ overlaps <= overlaps' BY <2>1, OverlapGrows
  <2> QED BY <2>1, <2>2, ClobberStays
<1> QED BY <1>1, <1>2, <1>3, <1>4, <1>5, <1>6, <1>7, <1>8 DEF Next

\* What a form overwrites came while it was under way: no more addresses are lost than
\* requests and edits began beside a running request.
THEOREM ClobbersCorrect == IntakeAssumption => (Spec => []ClobbersBounded)
<1> SUFFICES ASSUME IntakeAssumption PROVE Spec => []ClobbersBounded OBVIOUS
<1>1. Init => ClobberInv BY ClobberInit
<1>2. TypeInv /\ ClobberInv /\ [Next]_vars => ClobberInv' BY ClobberStep
<1>3. ClobberInv => ClobbersBounded BY DEF ClobberInv, ClobbersBounded
<1>4. Spec => []TypeInv BY TypeCorrect
<1> QED BY <1>1, <1>2, <1>3, <1>4, PTL DEF Spec

-----------------------------------------------------------------------------
(* Forms that the office is not told about.                                *)

KeyOf(r) == << req[r].lead, req[r].count >>

\* A number a lead has been given, and that no form is about to give it again.
Numbered(key) ==
  /\ key[1] \in DOMAIN leads /\ key[2] <= leads[key[1]].count
  /\ \A r \in Request : At(r, "join") /\ req[r].lead = key[1] => key[2] < req[r].count

Unled == { r \in Request : req[r].pc \in { "match", "create", "fill", "recent", "open", "join" } }
Alerting == { r \in Request : At(r, "alert") }
Held == { KeyOf(r) : r \in Alerting }
Fresh == { key \in Held : Numbered(key) /\ key \notin alerts }
Ahead == { key \in alerts : ~Numbered(key) }

\* All forms without a lead but one, if there are any.
Pending == Cardinality(Unled) - (IF Unled = {} THEN 0 ELSE 1)

\* Of those that wait for their lead, all but one have overlapped; a form that has its
\* lead has a key of its own, or has overlapped, or one that is reserved ahead of its
\* number has.
UntoldInv ==
  /\ IsFiniteSet(alerts)
  /\ untold + Pending + Cardinality(Alerting) + Cardinality(Ahead) <= Cardinality(Fresh) + overlaps + faults

LEMMA UnledCount ==
  ASSUME IsFiniteSet(Request)
  PROVE  IsFiniteSet(Unled) /\ Cardinality(Unled) \in Nat /\ Unled \subseteq Running
         /\ Pending \in Nat /\ (Unled # {} => Cardinality(Unled) = Pending + 1) /\ (Unled = {} => Pending = 0)
<1>1. IsFiniteSet(Unled) /\ Cardinality(Unled) \in Nat /\ Unled \subseteq Running BY RequestsCount DEF Unled, Running, At
<1>2. Cardinality(Unled) = 0 <=> Unled = {} BY <1>1, FS_EmptySet
<1> QED BY <1>1, <1>2 DEF Pending

\* Forms that get a lead, or end, leave no more of them.
LEMMA PendingFalls ==
  ASSUME IsFiniteSet(Request), Unled' \subseteq Unled
  PROVE  Pending' \in Nat /\ Pending' <= Pending
<1>1. IsFiniteSet(Unled) /\ Pending \in Nat BY UnledCount
<1>2. (Unled # {} => Cardinality(Unled) = Pending + 1) /\ (Unled = {} => Pending = 0) BY UnledCount
<1>3. IsFiniteSet(Unled') /\ Cardinality(Unled') \in Nat /\ Cardinality(Unled') <= Cardinality(Unled) BY <1>1, Fewer
<1>4. Cardinality(Unled') = 0 <=> Unled' = {} BY <1>3, FS_EmptySet
<1>5. Pending' = Cardinality(Unled') - (IF Unled' = {} THEN 0 ELSE 1) BY DEF Pending
<1>6. CASE Unled' = {} BY <1>1, <1>4, <1>5, <1>6
<1>7. CASE Unled' # {}
  <2>1. Unled # {} BY <1>7
  <2> QED BY <1>1, <1>2, <1>3, <1>4, <1>5, <1>7, <2>1
<1> QED BY <1>6, <1>7

\* A form that comes in alone waits alone.
LEMMA PendingBegins ==
  ASSUME IsFiniteSet(Request), TypeInv, NEW r \in Request, Unled' \subseteq Unled \cup {r}, Overlap
  PROVE  Pending \in Nat /\ Pending' \in Nat /\ \E d \in Nat : Pending' <= Pending + d /\ overlaps' = overlaps + d
<1>1. IsFiniteSet(Unled) /\ Pending \in Nat /\ Unled \subseteq Running BY UnledCount
<1>2. (Unled # {} => Cardinality(Unled) = Pending + 1) /\ (Unled = {} => Pending = 0) BY UnledCount
<1>3. IsFiniteSet(Unled') /\ Cardinality(Unled') \in Nat /\ Cardinality(Unled') <= Cardinality(Unled) + 1 BY <1>1, OneMore
<1>4. Cardinality(Unled') = 0 <=> Unled' = {} BY <1>3, FS_EmptySet
<1>5. Pending' = Cardinality(Unled') - (IF Unled' = {} THEN 0 ELSE 1) BY DEF Pending
<1>6. overlaps \in Nat /\ (Running = {} => overlaps' = overlaps) /\ (Running # {} => overlaps' = overlaps + 1)
  BY OverlapType DEF TypeInv, TypeOK
<1>7. CASE Unled = {}
  <2>1. Cardinality(Unled) = 0 BY <1>7, NoneCount
  <2>2. Pending' \in Nat /\ Pending' = 0 BY <1>3, <1>4, <1>5, <2>1
  <2>3. \E d \in Nat : overlaps' = overlaps + d BY <1>6
  <2> QED BY <1>1, <2>2, <2>3
<1>8. CASE Unled # {}
  <2>1. Running # {} BY <1>1, <1>8
  <2>2. Pending' \in Nat /\ Pending' <= Pending + 1
    <3>1. CASE Unled' = {} BY <1>1, <1>4, <1>5, <3>1
    <3>2. CASE Unled' # {} BY <1>1, <1>2, <1>3, <1>4, <1>5, <1>8, <3>2
    <3> QED BY <3>1, <3>2
  <2> QED BY <1>1, <1>6, <2>1, <2>2
<1> QED BY <1>7, <1>8

LEMMA AlertsCount ==
  ASSUME IsFiniteSet(Request), IsFiniteSet(alerts)
  PROVE  /\ IsFiniteSet(Alerting) /\ Cardinality(Alerting) \in Nat
         /\ IsFiniteSet(Ahead) /\ Cardinality(Ahead) \in Nat
         /\ IsFiniteSet(Fresh) /\ Cardinality(Fresh) \in Nat /\ Cardinality(Fresh) <= Cardinality(Alerting)
<1>1. IsFiniteSet(Alerting) /\ Cardinality(Alerting) \in Nat BY RequestsCount DEF Alerting
<1>2. IsFiniteSet(Ahead) /\ Cardinality(Ahead) \in Nat BY Fewer DEF Ahead
<1> DEFINE key == [r \in Alerting |-> KeyOf(r)]
<1>3. key \in Surjection(Alerting, Held) BY DEF Surjection, Held
<1>4. IsFiniteSet(Held) /\ Cardinality(Held) <= Cardinality(Alerting) BY <1>1, <1>3, FS_Surjection
<1>5. IsFiniteSet(Fresh) /\ Cardinality(Fresh) \in Nat /\ Cardinality(Fresh) <= Cardinality(Held)
  BY <1>4, Fewer DEF Fresh
<1>6. Cardinality(Held) \in Nat BY <1>4, FS_CardinalityType
<1> QED BY <1>1, <1>2, <1>4, <1>5, <1>6

\* The same of the next state.
Countable == /\ IsFiniteSet(Alerting) /\ Cardinality(Alerting) \in Nat
             /\ IsFiniteSet(Fresh) /\ Cardinality(Fresh) \in Nat /\ Pending \in Nat

LEMMA FormsCount == IsFiniteSet(Request) => Countable
<1> SUFFICES ASSUME IsFiniteSet(Request) PROVE Countable OBVIOUS
<1>1. IsFiniteSet(Alerting) /\ Cardinality(Alerting) \in Nat BY RequestsCount DEF Alerting
<1> DEFINE key == [r \in Alerting |-> KeyOf(r)]
<1>2. key \in Surjection(Alerting, Held) BY DEF Surjection, Held
<1>3. IsFiniteSet(Held) BY <1>1, <1>2, FS_Surjection
<1>4. IsFiniteSet(Fresh) /\ Cardinality(Fresh) \in Nat BY <1>3, Fewer DEF Fresh
<1> QED BY <1>1, <1>4, UnledCount DEF Countable

LEMMA FormsCountNext ==
  ASSUME IsFiniteSet(Request)
  PROVE  /\ IsFiniteSet(Alerting') /\ Cardinality(Alerting') \in Nat
         /\ IsFiniteSet(Fresh') /\ Cardinality(Fresh') \in Nat /\ Pending' \in Nat
<1>1. Countable' BY FormsCount, PTL
<1> QED BY <1>1 DEF Countable

LEMMA HeldType ==
  ASSUME TypeInv
  PROVE  Held \subseteq Nat \X Nat /\ alerts \subseteq Nat \X Nat
<1>1. \A r \in Request : req[r] \in Row BY DEF TypeInv, TypeOK
<1>2. \A r \in Alerting : KeyOf(r) \in Nat \X Nat BY <1>1 DEF Row, Alerting, KeyOf
<1> QED BY <1>2 DEF Held, TypeInv, TypeOK

LEMMA UntoldInit == ASSUME IsFiniteSet(Request), Init PROVE UntoldInv
<1>1. Unled = {} /\ Alerting = {} BY DEF Init, Unled, Alerting, At, Idle
<1>2. Ahead = {} /\ Fresh = {} BY <1>1 DEF Init, Ahead, Fresh, Held
<1>3. Pending = 0 /\ IsFiniteSet(alerts) BY <1>1, UnledCount, NoneCount DEF Init
<1> QED BY <1>1, <1>2, <1>3, NoneCount DEF Init, UntoldInv

LEMMA UntoldSums ==
  ASSUME untold \in Nat, untold' \in Nat, Pending \in Nat, Pending' \in Nat,
         Cardinality(Alerting) \in Nat, Cardinality(Alerting') \in Nat,
         Cardinality(Ahead) \in Nat, Cardinality(Ahead') \in Nat,
         Cardinality(Fresh) \in Nat, Cardinality(Fresh') \in Nat,
         overlaps \in Nat, overlaps' \in Nat, faults \in Nat, faults' \in Nat,
         NEW du \in Int, untold' <= untold + du,
         NEW dp \in Int, Pending' <= Pending + dp,
         NEW dc \in Int, Cardinality(Alerting') <= Cardinality(Alerting) + dc,
         NEW dg \in Int, Cardinality(Ahead') <= Cardinality(Ahead) + dg,
         NEW ds \in Int, Cardinality(Fresh') >= Cardinality(Fresh) + ds,
         NEW do \in Int, overlaps' + faults' >= overlaps + faults + do,
         du + dp + dc + dg <= ds + do,
         untold + Pending + Cardinality(Alerting) + Cardinality(Ahead) <= Cardinality(Fresh) + overlaps + faults
  PROVE  untold' + Pending' + Cardinality(Alerting') + Cardinality(Ahead') <= Cardinality(Fresh') + overlaps' + faults'
<1>1. PICK u \in Nat : u = untold OBVIOUS
<1>2. PICK u2 \in Nat : u2 = untold' OBVIOUS
<1>3. PICK p \in Nat : p = Pending OBVIOUS
<1>4. PICK p2 \in Nat : p2 = Pending' OBVIOUS
<1>5. PICK c \in Nat : c = Cardinality(Alerting) OBVIOUS
<1>6. PICK c2 \in Nat : c2 = Cardinality(Alerting') OBVIOUS
<1>7. PICK g \in Nat : g = Cardinality(Ahead) OBVIOUS
<1>8. PICK g2 \in Nat : g2 = Cardinality(Ahead') OBVIOUS
<1>9. PICK s \in Nat : s = Cardinality(Fresh) OBVIOUS
<1>10. PICK s2 \in Nat : s2 = Cardinality(Fresh') OBVIOUS
<1>11. PICK o \in Nat : o = overlaps OBVIOUS
<1>12. PICK o2 \in Nat : o2 = overlaps' OBVIOUS
<1>13. PICK f \in Nat : f = faults OBVIOUS
<1>14. PICK f2 \in Nat : f2 = faults' OBVIOUS
<1>15. u2 <= u + du /\ p2 <= p + dp BY <1>1, <1>2, <1>3, <1>4
<1>16. c2 <= c + dc BY <1>5, <1>6
<1>17. g2 <= g + dg BY <1>7, <1>8
<1>18. s2 >= s + ds BY <1>9, <1>10
<1>19. o2 + f2 >= o + f + do BY <1>11, <1>12, <1>13, <1>14
<1>20. u + p + c + g <= s + o + f BY <1>1, <1>3, <1>5, <1>7, <1>9, <1>11, <1>13
<1>21. u2 + p2 + c2 + g2 <= s2 + o2 + f2 BY <1>15, <1>16, <1>17, <1>18, <1>19, <1>20
<1> QED BY <1>2, <1>4, <1>6, <1>8, <1>10, <1>12, <1>14, <1>21

\* The sums, put together from what has become of each part.
LEMMA UntoldAdds ==
  ASSUME IsFiniteSet(Request), TypeInv, TypeInv', UntoldInv, IsFiniteSet(alerts'),
         NEW du \in Int, untold' <= untold + du,
         NEW dp \in Int, Pending' <= Pending + dp,
         NEW dc \in Int, Cardinality(Alerting') <= Cardinality(Alerting) + dc,
         NEW dg \in Int, Cardinality(Ahead') <= Cardinality(Ahead) + dg,
         NEW ds \in Int, Cardinality(Fresh') >= Cardinality(Fresh) + ds,
         NEW do \in Int, overlaps' + faults' >= overlaps + faults + do,
         du + dp + dc + dg <= ds + do
  PROVE  UntoldInv'
<1>1. Pending \in Nat /\ Pending' \in Nat BY FormsCountNext, UnledCount
<1>2. /\ Cardinality(Alerting) \in Nat /\ Cardinality(Ahead) \in Nat /\ Cardinality(Fresh) \in Nat
  BY AlertsCount DEF UntoldInv
<1>3. Cardinality(Alerting') \in Nat /\ Cardinality(Fresh') \in Nat BY FormsCountNext
<1>4. Cardinality(Ahead') \in Nat BY Fewer DEF Ahead
<1>5. untold \in Nat /\ overlaps \in Nat /\ faults \in Nat /\ untold' \in Nat /\ overlaps' \in Nat /\ faults' \in Nat
  BY DEF TypeInv, TypeOK
<1>6. untold + Pending + Cardinality(Alerting) + Cardinality(Ahead) <= Cardinality(Fresh) + overlaps + faults
  BY DEF UntoldInv
<1>7. untold' + Pending' + Cardinality(Alerting') + Cardinality(Ahead') <= Cardinality(Fresh') + overlaps' + faults'
  BY <1>1, <1>2, <1>3, <1>4, <1>5, <1>6, UntoldSums
<1> QED BY <1>7 DEF UntoldInv

\* Numbers are kept as leads keep their counts, and forms that join ask for later ones.
LEMMA NumberedStays ==
  ASSUME TypeInv, TypeInv', DOMAIN leads \subseteq DOMAIN leads',
         \A l \in DOMAIN leads : leads'[l].count = leads[l].count,
         \A p \in Request : At(p, "join")' => \/ req'[p] = req[p]
                                             \/ req'[p].count = leads[req'[p].lead].count + 1,
         NEW key \in Nat \X Nat, Numbered(key)
  PROVE  Numbered(key)'
<1>1. key[1] \in DOMAIN leads /\ key[2] \in Nat /\ key[2] <= leads[key[1]].count BY DEF Numbered
<1>2. leads \in Seq(Lead) BY DEF TypeInv, TypeOK
<1>3. leads[key[1]].count \in Nat
  <2>1. leads[key[1]] \in Lead BY <1>1, <1>2
  <2> QED BY <2>1 DEF Lead
<1>4. ASSUME NEW p \in Request, At(p, "join")', req'[p].lead = key[1] PROVE key[2] < req'[p].count
  <2>1. CASE req'[p] = req[p] BY <1>4, <2>1 DEF Numbered, At
  <2>2. CASE req'[p].count = leads[req'[p].lead].count + 1 BY <1>1, <1>3, <1>4, <2>2
  <2> QED BY <1>4, <2>1, <2>2
<1> QED BY <1>1, <1>4 DEF Numbered, At

\* The forms that are about to reserve stay the same ones.
LEMMA UntoldQuiet ==
  ASSUME IsFiniteSet(Request), TypeInv, TypeInv', UntoldInv, UNCHANGED alerts,
         \A p \in Request : At(p, "alert") \/ At(p, "alert")' => req'[p] = req[p],
         \A key \in Nat \X Nat : Numbered(key) => Numbered(key)',
         NEW du \in Int, untold' <= untold + du,
         NEW dp \in Int, Pending' <= Pending + dp,
         NEW do \in Int, overlaps' + faults' >= overlaps + faults + do,
         du + dp <= do
  PROVE  UntoldInv'
<1>1. Alerting' = Alerting BY DEF Alerting, At
<1>2. Held' = Held BY <1>1 DEF Held, KeyOf, Alerting
<1>3. Held \subseteq Nat \X Nat /\ alerts \subseteq Nat \X Nat BY HeldType
<1>4. Fresh \subseteq Fresh' BY <1>2, <1>3 DEF Fresh
<1>5. Ahead' \subseteq Ahead BY <1>3 DEF Ahead
<1>6. IsFiniteSet(Ahead) /\ IsFiniteSet(alerts') BY AlertsCount DEF UntoldInv
<1>7. Cardinality(Ahead') <= Cardinality(Ahead) /\ Cardinality(Ahead) \in Nat /\ Cardinality(Ahead') \in Nat
  BY <1>5, <1>6, Fewer
<1>8. IsFiniteSet(Fresh') BY FormsCountNext
<1>9. Cardinality(Fresh) <= Cardinality(Fresh') /\ Cardinality(Fresh) \in Nat /\ Cardinality(Fresh') \in Nat
  BY <1>4, <1>8, Fewer
<1>10. Cardinality(Alerting') = Cardinality(Alerting) /\ Cardinality(Alerting) \in Nat BY <1>1, RequestsCount DEF Alerting
<1>11. /\ Cardinality(Alerting') <= Cardinality(Alerting) + 0
       /\ Cardinality(Ahead') <= Cardinality(Ahead) + 0
       /\ Cardinality(Fresh') >= Cardinality(Fresh) + 0
  BY <1>7, <1>9, <1>10
<1>12. du + dp + 0 + 0 <= 0 + do OBVIOUS
<1> QED BY <1>6, <1>11, <1>12, UntoldAdds

\* One request goes on that neither gets its lead nor has it.
LEMMA UntoldGoes ==
  ASSUME IsFiniteSet(Request), TypeInv, TypeInv', UntoldInv, UNCHANGED << alerts, untold, overlaps >>, faults <= faults',
         NEW r \in Request, NEW to, Goes(r, to), "alert" \notin to, ~At(r, "alert"),
         \/ req[r].pc \in { "match", "create", "fill", "recent", "open", "join" }
         \/ to \cap { "match", "create", "fill", "recent", "open", "join" } = {},
         DOMAIN leads \subseteq DOMAIN leads', \A l \in DOMAIN leads : leads'[l].count = leads[l].count,
         At(r, "join")' => req'[r].count = leads[req'[r].lead].count + 1
  PROVE  UntoldInv'
<1>1. Unled' \subseteq Unled BY DEF Unled, Goes
<1>2. Pending' \in Nat /\ Pending' <= Pending /\ Pending \in Nat BY <1>1, PendingFalls, UnledCount
<1>3. \A p \in Request : At(p, "alert") \/ At(p, "alert")' => req'[p] = req[p] BY DEF Goes, At
<1>4. \A p \in Request : At(p, "join")' => req'[p] = req[p] \/ req'[p].count = leads[req'[p].lead].count + 1
  BY DEF Goes
<1>5. \A key \in Nat \X Nat : Numbered(key) => Numbered(key)' BY <1>4, NumberedStays
<1>6. untold \in Nat /\ overlaps \in Nat /\ faults \in Nat /\ faults' \in Nat /\ untold' = untold /\ overlaps' = overlaps
  BY DEF TypeInv, TypeOK
<1>7. untold' <= untold + 0 /\ Pending' <= Pending + 0 /\ overlaps' + faults' >= overlaps + faults + 0 /\ 0 + 0 <= 0
  BY <1>2, <1>6
<1> QED BY <1>3, <1>5, <1>7, UntoldQuiet

\* A request begins, or the office edits beside one.
LEMMA UntoldBegins ==
  ASSUME IsFiniteSet(Request), TypeInv, TypeInv', UntoldInv, UNCHANGED << alerts, untold, leads, faults >>, Overlap,
         NEW r \in Request, \A p \in Request \ {r} : req'[p] = req[p],
         req'[r] = req[r] \/ (At(r, "idle") /\ req'[r].pc \in { "match", "byPhone", "byEmail" })
  PROVE  UntoldInv'
<1>1. Unled' \subseteq Unled \cup {r} BY DEF Unled
<1>2. Pending' \in Nat /\ Pending \in Nat /\ \E d \in Nat : Pending' <= Pending + d /\ overlaps' = overlaps + d
  BY <1>1, PendingBegins
<1>3. \A p \in Request : At(p, "alert") \/ At(p, "alert")' => req'[p] = req[p] BY DEF At
<1>4. \A p \in Request : At(p, "join")' => req'[p] = req[p] \/ req'[p].count = leads[req'[p].lead].count + 1
  BY DEF At
<1>5. \A key \in Nat \X Nat : Numbered(key) => Numbered(key)' BY <1>4, NumberedStays
<1>6. untold \in Nat /\ overlaps \in Nat /\ faults \in Nat /\ overlaps' \in Nat BY DEF TypeInv, TypeOK
<1>7. PICK d \in Nat : Pending' <= Pending + d /\ overlaps' = overlaps + d BY <1>2
<1>8. untold' <= untold + 0 /\ overlaps' + faults' >= overlaps + faults + d /\ 0 + d <= d BY <1>6, <1>7
<1> QED BY <1>3, <1>5, <1>7, <1>8, UntoldQuiet

\* The lead is new: so is its first number.
LEMMA UntoldOpen ==
  ASSUME IsFiniteSet(Request), TypeInv, TypeInv', UntoldInv, NEW r \in Request, OpenLead(r)
  PROVE  UntoldInv'
<1>1. PICK n : n = Len(leads) + 1 OBVIOUS
<1>2. At(r, "open") /\ Goes(r, { "alert" }) /\ req'[r].lead = n /\ req'[r].count = 1 BY <1>1, OpenGoes
<1>3. n \notin DOMAIN leads /\ DOMAIN leads' = DOMAIN leads \cup { n } /\ \A l \in DOMAIN leads : leads'[l] = leads[l]
  BY <1>1, OpenGoes
<1>4. leads'[n].count = 1 BY <1>1, OpenGoes
<1>5. UNCHANGED << alerts, untold, overlaps, faults >> BY OpenGoes
<1>6. Unled' \subseteq Unled BY <1>2 DEF Unled, Goes
<1>7. Pending' \in Nat /\ Pending' <= Pending /\ Pending \in Nat BY <1>6, PendingFalls, UnledCount
<1>8. Alerting' = Alerting \cup {r} BY <1>2 DEF Alerting, Goes, At
<1>9. IsFiniteSet(Alerting) /\ Cardinality(Alerting) \in Nat /\ IsFiniteSet(Ahead) /\ IsFiniteSet(Fresh) /\ Cardinality(Fresh) \in Nat
      /\ Cardinality(Ahead) \in Nat
  BY AlertsCount DEF UntoldInv
<1>10. Cardinality(Alerting') <= Cardinality(Alerting) + 1 BY <1>8, <1>9, OneMore
<1>11. Held' = Held \cup { << n, 1 >> }
  <2>1. KeyOf(r)' = << n, 1 >> BY <1>2 DEF KeyOf
  <2>2. r \notin Alerting BY <1>2 DEF Alerting, At
  <2>3. \A p \in Alerting : KeyOf(p)' = KeyOf(p) BY <1>2, <2>2 DEF Goes, KeyOf, Alerting
  <2> QED BY <1>8, <2>1, <2>3 DEF Held
<1>12. \A p \in Request : At(p, "join")' => req'[p] = req[p] /\ req[p].lead \in DOMAIN leads
  BY <1>2 DEF Goes, At, TypeInv, Refers, Equipped, WithLead
<1>13. \A key \in Nat \X Nat : Numbered(key) => Numbered(key)' BY <1>3, <1>12, NumberedStays
<1>14. Numbered(<< n, 1 >>)' BY <1>3, <1>4, <1>12 DEF Numbered, At
<1>15. << n, 1 >> \notin Fresh /\ << n, 1 >> \notin alerts BY <1>3 DEF Fresh, Numbered, TypeInv, Refers
<1>16. Held \subseteq Nat \X Nat /\ alerts \subseteq Nat \X Nat BY HeldType
<1>17. Fresh \subseteq Fresh' \ { << n, 1 >> } /\ << n, 1 >> \in Fresh'
  BY <1>5, <1>11, <1>13, <1>14, <1>15, <1>16 DEF Fresh
<1>18. Ahead' \subseteq Ahead BY <1>5, <1>13, <1>16 DEF Ahead
<1>19. IsFiniteSet(Fresh') BY FormsCountNext
<1>20. Cardinality(Fresh) + 1 <= Cardinality(Fresh') /\ Cardinality(Fresh') \in Nat
  <2>1. Cardinality(Fresh) + 1 <= Cardinality(Fresh') BY <1>17, <1>19, OneLess
  <2> QED BY <1>19, <2>1, FS_CardinalityType
<1>21. Cardinality(Ahead') <= Cardinality(Ahead) + 0 /\ Cardinality(Ahead') \in Nat
  <2>1. Cardinality(Ahead') <= Cardinality(Ahead) /\ Cardinality(Ahead') \in Nat BY <1>9, <1>18, Fewer
  <2> QED BY <1>9, <2>1
<1>22. Cardinality(Fresh') >= Cardinality(Fresh) + 1 BY <1>9, <1>20
<1>23. untold \in Nat /\ overlaps \in Nat /\ faults \in Nat /\ untold' = untold /\ overlaps' = overlaps /\ faults' = faults
  BY <1>5 DEF TypeInv, TypeOK
<1>24. untold' <= untold + 0 /\ Pending' <= Pending + 0 /\ overlaps' + faults' >= overlaps + faults + 0 /\ 0 + 0 + 1 + 0 <= 1 + 0
  BY <1>7, <1>23
<1>25. IsFiniteSet(alerts') BY <1>5 DEF UntoldInv
<1> QED BY <1>10, <1>21, <1>22, <1>24, <1>25, UntoldAdds

\* No key is given up.
LEMMA FreshGrows ==
  ASSUME IsFiniteSet(Request), TypeInv, UntoldInv, UNCHANGED alerts, Held \subseteq Held',
         \A key \in Nat \X Nat : Numbered(key) => Numbered(key)'
  PROVE  /\ Fresh \subseteq Fresh' /\ Cardinality(Fresh') >= Cardinality(Fresh) + 0
         /\ Ahead' \subseteq Ahead /\ Cardinality(Ahead') <= Cardinality(Ahead) + 0
         /\ IsFiniteSet(alerts') /\ IsFiniteSet(Ahead) /\ IsFiniteSet(Fresh')
<1>1. Held \subseteq Nat \X Nat /\ alerts \subseteq Nat \X Nat BY HeldType
<1>2. Fresh \subseteq Fresh' BY <1>1 DEF Fresh
<1>3. Ahead' \subseteq Ahead BY <1>1 DEF Ahead
<1>4. IsFiniteSet(Ahead) /\ IsFiniteSet(alerts') /\ IsFiniteSet(Fresh') BY AlertsCount, FormsCountNext DEF UntoldInv
<1>5. Cardinality(Ahead') <= Cardinality(Ahead) /\ Cardinality(Ahead) \in Nat /\ Cardinality(Ahead') \in Nat
  BY <1>3, <1>4, Counts
<1>6. Cardinality(Fresh) <= Cardinality(Fresh') /\ Cardinality(Fresh) \in Nat /\ Cardinality(Fresh') \in Nat
  BY <1>2, <1>4, Counts
<1> QED BY <1>2, <1>3, <1>4, <1>5, <1>6

\* The lead takes the number of the form, which no form was given that did not join it
\* too: either the number is free now, or another form is still to join.
LEMMA UntoldJoin ==
  ASSUME IsFiniteSet(Request), TypeInv, TypeInv', UntoldInv, NEW r \in Request, JoinLead(r)
  PROVE  UntoldInv'
<1>1. PICK l : l = req[r].lead OBVIOUS
<1>2. PICK c \in Nat : c = req[r].count BY DEF TypeInv, TypeOK, Row
<1>3. At(r, "join") /\ Goes(r, { "alert" }) /\ req'[r].lead = l /\ req'[r].count = c BY <1>1, <1>2, JoinGoes
<1>4. /\ l \in DOMAIN leads /\ DOMAIN leads' = DOMAIN leads /\ leads'[l].count = c
      /\ \A k \in DOMAIN leads \ {l} : leads'[k] = leads[k]
  BY <1>1, <1>2, JoinIs
<1>5. UNCHANGED << alerts, untold, overlaps, faults >> BY JoinGoes DEF history
<1>6. \A p \in Request : At(p, "join")' => At(p, "join") /\ req'[p] = req[p] BY <1>3 DEF Goes, At
<1>7. ASSUME NEW key \in Nat \X Nat, Numbered(key) PROVE Numbered(key)'
  <2>1. key[1] = l => key[2] < c BY <1>1, <1>2, <1>3, <1>7 DEF Numbered
  <2>2. key[2] \in Nat OBVIOUS
  <2>3. key[1] \in DOMAIN leads' /\ key[2] <= leads'[key[1]].count BY <1>4, <1>7, <2>1, <2>2 DEF Numbered
  <2>4. \A p \in Request : At(p, "join")' /\ req'[p].lead = key[1] => key[2] < req'[p].count
    BY <1>6, <1>7 DEF Numbered
  <2> QED BY <2>3, <2>4 DEF Numbered, At
<1>8. r \notin Alerting /\ Alerting' = Alerting \cup {r} BY <1>3 DEF Alerting, Goes, At
<1>9. \A p \in Alerting : KeyOf(p)' = KeyOf(p) BY <1>3, <1>8 DEF Goes, KeyOf, Alerting
<1>10. Held \subseteq Held' /\ << l, c >> \in Held' BY <1>3, <1>8, <1>9 DEF Held, KeyOf
<1>11. Fresh \subseteq Fresh' /\ Cardinality(Fresh') >= Cardinality(Fresh) + 0 /\ IsFiniteSet(Fresh')
  BY <1>5, <1>7, <1>10, FreshGrows
<1>12. Ahead' \subseteq Ahead /\ Cardinality(Ahead') <= Cardinality(Ahead) + 0 /\ IsFiniteSet(alerts') /\ IsFiniteSet(Ahead)
  BY <1>5, <1>7, <1>10, FreshGrows
<1>13. Cardinality(Alerting') <= Cardinality(Alerting) + 1 BY <1>8, OneMore, RequestsCount DEF Alerting
<1>14. r \in Unled /\ Unled' \subseteq Unled \ {r} BY <1>3 DEF Unled, Goes, At
<1>15. Pending' \in Nat /\ Pending' <= Pending /\ Pending \in Nat BY <1>14, PendingFalls, UnledCount
<1>16. untold \in Nat /\ overlaps \in Nat /\ faults \in Nat /\ untold' = untold /\ overlaps' = overlaps /\ faults' = faults
  BY <1>5 DEF TypeInv, TypeOK
<1>17. untold' <= untold + 0 /\ Pending' <= Pending + 0 /\ overlaps' + faults' >= overlaps + faults + 0 BY <1>15, <1>16
<1>18. CASE Unled' # {}
  <2>1. IsFiniteSet(Unled) /\ Cardinality(Unled) = Pending + 1 BY <1>14, UnledCount
  <2>2. Cardinality(Unled') \in Nat /\ Cardinality(Unled') + 1 <= Cardinality(Unled) BY <1>14, <2>1, OneLess
  <2>3. Pending' = Cardinality(Unled') - 1 BY <1>18 DEF Pending
  <2>4. Pending' <= Pending + (-1) BY <1>15, <2>1, <2>2, <2>3
  <2>5. 0 + (-1) + 1 + 0 <= 0 + 0 OBVIOUS
  <2> QED BY <1>11, <1>12, <1>13, <1>17, <2>4, <2>5, UntoldAdds
<1>19. CASE Unled' = {}
  <2>1. \A p \in Request : ~At(p, "join")' BY <1>19 DEF Unled, At
  <2>2. Numbered(<< l, c >>)' BY <1>4, <2>1 DEF Numbered, At
  <2>3. ~Numbered(<< l, c >>) BY <1>1, <1>2, <1>3 DEF Numbered
  <2>4. CASE << l, c >> \in alerts
    <3>1. << l, c >> \in Ahead /\ Ahead' \subseteq Ahead \ { << l, c >> } BY <1>12, <2>2, <2>3, <2>4 DEF Ahead
    <3>2. Cardinality(Ahead') \in Nat /\ Cardinality(Ahead') + 1 <= Cardinality(Ahead) BY <1>12, <3>1, OneLess
    <3>3. Cardinality(Ahead) \in Nat BY <1>12, FS_CardinalityType
    <3>4. Cardinality(Ahead') <= Cardinality(Ahead) + (-1) BY <3>2, <3>3
    <3>5. 0 + 0 + 1 + (-1) <= 0 + 0 OBVIOUS
    <3> QED BY <1>11, <1>12, <1>13, <1>17, <3>4, <3>5, UntoldAdds
  <2>5. CASE << l, c >> \notin alerts
    <3>1. << l, c >> \in Fresh' /\ Fresh \subseteq Fresh' \ { << l, c >> }
      BY <1>5, <1>10, <1>11, <2>2, <2>3, <2>5 DEF Fresh
    <3>2. Cardinality(Fresh) \in Nat /\ Cardinality(Fresh) + 1 <= Cardinality(Fresh') BY <1>11, <3>1, OneLess
    <3>3. Cardinality(Fresh') \in Nat BY <1>11, FS_CardinalityType
    <3>4. Cardinality(Fresh') >= Cardinality(Fresh) + 1 BY <3>2, <3>3
    <3>5. 0 + 0 + 1 + 0 <= 1 + 0 OBVIOUS
    <3> QED BY <1>11, <1>12, <1>13, <1>17, <3>4, <3>5, UntoldAdds
  <2> QED BY <2>4, <2>5
<1> QED BY <1>18, <1>19

\* A form that has its lead goes: its key may be given up.
LEMMA UntoldLeaves ==
  ASSUME IsFiniteSet(Request), TypeInv, TypeInv', UntoldInv, NEW r \in Request, At(r, "alert"), UNCHANGED leads,
         NEW to, Goes(r, to), to \subseteq { "sms", "idle" }
  PROVE  /\ Cardinality(Alerting') <= Cardinality(Alerting) + (-1)
         /\ Pending' <= Pending + 0
         /\ \A key : Numbered(key)' <=> Numbered(key)
         /\ Held \ { KeyOf(r) } \subseteq Held'
<1>1. r \in Alerting /\ Alerting' = Alerting \ {r} BY DEF Alerting, Goes, At
<1>2. IsFiniteSet(Alerting) /\ Cardinality(Alerting) \in Nat BY RequestsCount DEF Alerting
<1>3. Cardinality(Alerting') \in Nat /\ Cardinality(Alerting') + 1 <= Cardinality(Alerting) BY <1>1, <1>2, OneLess
<1>4. Cardinality(Alerting') <= Cardinality(Alerting) + (-1) BY <1>2, <1>3
<1>5. Unled' \subseteq Unled BY DEF Unled, Goes, At
<1>6. Pending' \in Nat /\ Pending' <= Pending /\ Pending \in Nat BY <1>5, PendingFalls, UnledCount
<1>7. \A p \in Request : (At(p, "join")' <=> At(p, "join")) /\ (At(p, "join") => req'[p] = req[p]) BY DEF Goes, At
<1>8. \A key : Numbered(key)' <=> Numbered(key) BY <1>7 DEF Numbered, At
<1>9. \A p \in Alerting' : KeyOf(p)' = KeyOf(p) BY <1>1 DEF Goes, KeyOf, Alerting
<1>10. Held \ { KeyOf(r) } \subseteq Held' BY <1>1, <1>9 DEF Held
<1> QED BY <1>4, <1>6, <1>8, <1>10

\* A key that is reserved anew was fresh, or is now ahead of its number; a form whose
\* key is reserved has none of its own to give up.
LEMMA UntoldReserve ==
  ASSUME IsFiniteSet(Request), TypeInv, TypeInv', UntoldInv, NEW r \in Request, Reserve(r)
  PROVE  UntoldInv'
<1>1. At(r, "alert") /\ Goes(r, { "sms", "idle" }) /\ UNCHANGED leads /\ UNCHANGED overlaps BY ReserveGoes
<1>2. Cardinality(Alerting') <= Cardinality(Alerting) + (-1) /\ Pending' <= Pending + 0 BY <1>1, UntoldLeaves
<1>3. \A key : Numbered(key)' <=> Numbered(key) BY <1>1, UntoldLeaves
<1>4. Held \ { KeyOf(r) } \subseteq Held' BY <1>1, UntoldLeaves
<1>5. untold \in Nat /\ overlaps \in Nat /\ faults \in Nat BY DEF TypeInv, TypeOK
<1>6. IsFiniteSet(alerts) /\ IsFiniteSet(Ahead) /\ Cardinality(Ahead) \in Nat /\ IsFiniteSet(Fresh) /\ Cardinality(Fresh) \in Nat
  BY AlertsCount DEF UntoldInv
<1>7. IsFiniteSet(Fresh') /\ Cardinality(Fresh') \in Nat BY FormsCountNext
<1>8. CASE KeyOf(r) \notin alerts /\ alerts' = alerts \cup { KeyOf(r) } /\ UNCHANGED << history, bounds >>
  <2>1. IsFiniteSet(alerts') BY <1>6, <1>8, FS_AddElement
  <2>2. untold' = untold /\ faults' = faults /\ overlaps' = overlaps BY <1>8 DEF history, bounds
  <2>3. untold' <= untold + 0 /\ overlaps' + faults' >= overlaps + faults + 0 BY <1>5, <2>2
  <2>4. CASE Numbered(KeyOf(r))
    <3>1. Fresh \subseteq Fresh' \cup { KeyOf(r) } BY <1>3, <1>4, <1>8 DEF Fresh
    <3>2. Cardinality(Fresh) <= Cardinality(Fresh') + 1 BY <1>7, <3>1, OneMore
    <3>3. Ahead' \subseteq Ahead BY <1>3, <1>8, <2>4 DEF Ahead
    <3>4. Cardinality(Ahead') <= Cardinality(Ahead) + 0
      <4>1. Cardinality(Ahead') <= Cardinality(Ahead) /\ Cardinality(Ahead') \in Nat BY <1>6, <3>3, Fewer
      <4> QED BY <1>6, <4>1
    <3>5. Cardinality(Fresh') >= Cardinality(Fresh) + (-1) BY <1>6, <1>7, <3>2
    <3>6. 0 + 0 + (-1) + 0 <= (-1) + 0 OBVIOUS
    <3> QED BY <1>2, <2>1, <2>3, <3>4, <3>5, <3>6, UntoldAdds
  <2>5. CASE ~Numbered(KeyOf(r))
    <3>1. Fresh \subseteq Fresh' BY <1>3, <1>4, <1>8, <2>5 DEF Fresh
    <3>2. Cardinality(Fresh') >= Cardinality(Fresh) + 0
      <4>1. Cardinality(Fresh) <= Cardinality(Fresh') BY <1>7, <3>1, Fewer
      <4> QED BY <1>6, <1>7, <4>1
    <3>3. Ahead' \subseteq Ahead \cup { KeyOf(r) } BY <1>3, <1>8 DEF Ahead
    <3>4. Cardinality(Ahead') <= Cardinality(Ahead) + 1 BY <1>6, <3>3, OneMore
    <3>5. 0 + 0 + (-1) + 1 <= 0 + 0 OBVIOUS
    <3> QED BY <1>2, <2>1, <2>3, <3>2, <3>4, <3>5, UntoldAdds
  <2> QED BY <2>4, <2>5
<1>9. CASE Answer(r, FALSE) /\ UNCHANGED alerts
  <2>1. untold' = untold + 1 BY <1>9, AnswerGoes
  <2>2. untold' <= untold + 1 /\ IsFiniteSet(alerts') BY <1>5, <1>6, <1>9, <2>1
  <2>3. Ahead' = Ahead BY <1>3, <1>9 DEF Ahead
  <2>4. Cardinality(Ahead') <= Cardinality(Ahead) + 0 BY <1>6, <2>3
  <2>5. CASE KeyOf(r) \in alerts /\ UNCHANGED bounds
    <3>1. overlaps' = overlaps /\ faults' = faults BY <1>1, <2>5 DEF bounds
    <3>2. overlaps' + faults' >= overlaps + faults + 0 BY <1>5, <3>1
    <3>3. Fresh \subseteq Fresh' BY <1>3, <1>4, <1>9, <2>5 DEF Fresh
    <3>4. Cardinality(Fresh') >= Cardinality(Fresh) + 0
      <4>1. Cardinality(Fresh) <= Cardinality(Fresh') BY <1>7, <3>3, Fewer
      <4> QED BY <1>6, <1>7, <4>1
    <3>5. 1 + 0 + (-1) + 0 <= 0 + 0 OBVIOUS
    <3> QED BY <1>2, <2>2, <2>4, <3>2, <3>4, <3>5, UntoldAdds
  <2>6. CASE Fault
    <3>1. overlaps' = overlaps /\ faults' = faults + 1 BY <1>1, <2>6, FaultType DEF TypeInv
    <3>2. overlaps' + faults' >= overlaps + faults + 1 BY <1>5, <3>1
    <3>3. Fresh \subseteq Fresh' \cup { KeyOf(r) } BY <1>3, <1>4, <1>9 DEF Fresh
    <3>4. Cardinality(Fresh) <= Cardinality(Fresh') + 1 BY <1>7, <3>3, OneMore
    <3>5. Cardinality(Fresh') >= Cardinality(Fresh) + (-1) BY <1>6, <1>7, <3>4
    <3>6. 1 + 0 + (-1) + 0 <= (-1) + 1 OBVIOUS
    <3> QED BY <1>2, <2>2, <2>4, <3>2, <3>5, <3>6, UntoldAdds
  <2>7. (KeyOf(r) \in alerts /\ UNCHANGED bounds) \/ Fault BY <1>1, <1>8, <1>9 DEF Reserve, AlertKey, KeyOf
  <2> QED BY <2>5, <2>6, <2>7
<1> QED BY <1>8, <1>9 DEF Reserve, AlertKey, KeyOf

LEMMA UntoldDrop ==
  ASSUME IsFiniteSet(Request), TypeInv, TypeInv', UntoldInv, NEW r \in Request, Drop(r)
  PROVE  UntoldInv'
<1>1. Goes(r, { "idle" }) /\ Fault /\ UNCHANGED << leads, alerts, untold, overlaps >> BY DropGoes DEF rows, history
<1>2. untold \in Nat /\ overlaps \in Nat /\ faults \in Nat /\ faults' = faults + 1 /\ untold' = untold /\ overlaps' = overlaps
  BY <1>1, FaultType DEF TypeInv, TypeOK
<1>3. CASE ~At(r, "alert")
  <2>1. faults <= faults' /\ ~At(r, "join")' BY <1>1, <1>2 DEF Goes, At
  <2> QED BY <1>1, <1>3, <2>1, UntoldGoes
<1>4. CASE At(r, "alert")
  <2>1. Cardinality(Alerting') <= Cardinality(Alerting) + (-1) /\ Pending' <= Pending + 0 BY <1>1, <1>4, UntoldLeaves
  <2>2. \A key : Numbered(key)' <=> Numbered(key) BY <1>1, <1>4, UntoldLeaves
  <2>3. Held \ { KeyOf(r) } \subseteq Held' BY <1>1, <1>4, UntoldLeaves
  <2>4. IsFiniteSet(alerts') /\ Cardinality(Ahead) \in Nat /\ Cardinality(Fresh) \in Nat
    BY <1>1, AlertsCount DEF UntoldInv
  <2>5. IsFiniteSet(Fresh') /\ Cardinality(Fresh') \in Nat BY FormsCountNext
  <2>6. Ahead' = Ahead BY <1>1, <2>2 DEF Ahead
  <2>7. Cardinality(Ahead') <= Cardinality(Ahead) + 0 BY <2>4, <2>6
  <2>8. Fresh \subseteq Fresh' \cup { KeyOf(r) } BY <1>1, <2>2, <2>3 DEF Fresh
  <2>9. Cardinality(Fresh) <= Cardinality(Fresh') + 1 BY <2>5, <2>8, OneMore
  <2>10. Cardinality(Fresh') >= Cardinality(Fresh) + (-1) BY <2>4, <2>5, <2>9
  <2>11. untold' <= untold + 0 /\ overlaps' + faults' >= overlaps + faults + 1 BY <1>2
  <2>12. 0 + 0 + (-1) + 0 <= (-1) + 1 OBVIOUS
  <2> QED BY <2>1, <2>4, <2>7, <2>10, <2>11, <2>12, UntoldAdds
<1> QED BY <1>3, <1>4

LEMMA UntoldSms ==
  ASSUME IsFiniteSet(Request), TypeInv, TypeInv', UntoldInv, NEW r \in Request, Sms(r)
  PROVE  UntoldInv'
<1>1. At(r, "sms") /\ Goes(r, { "idle" }) /\ UNCHANGED << leads, alerts, overlaps >> BY SmsGoes
<1>2. (UNCHANGED bounds /\ untold' = untold + 0) \/ (Fault /\ untold' = untold + 1) BY SmsGoes
<1>3. untold \in Nat /\ overlaps \in Nat /\ faults \in Nat /\ overlaps' = overlaps BY <1>1 DEF TypeInv, TypeOK
<1>4. PICK d \in Nat : untold' = untold + d /\ faults' = faults + d
  <2>1. CASE UNCHANGED bounds /\ untold' = untold + 0 BY <1>3, <2>1 DEF bounds
  <2>2. CASE Fault /\ untold' = untold + 1 BY <2>2, FaultType DEF TypeInv
  <2> QED BY <1>2, <2>1, <2>2
<1>5. Unled' \subseteq Unled BY <1>1 DEF Unled, Goes, At
<1>6. Pending' \in Nat /\ Pending' <= Pending /\ Pending \in Nat BY <1>5, PendingFalls, UnledCount
<1>7. \A p \in Request : At(p, "alert") \/ At(p, "alert")' => req'[p] = req[p] BY <1>1 DEF Goes, At
<1>8. \A p \in Request : At(p, "join")' => req'[p] = req[p] BY <1>1 DEF Goes, At
<1>9. \A key \in Nat \X Nat : Numbered(key) => Numbered(key)' BY <1>1, <1>8, NumberedStays
<1>10. untold' <= untold + d /\ Pending' <= Pending + 0 /\ overlaps' + faults' >= overlaps + faults + d /\ d + 0 <= d
  BY <1>3, <1>4, <1>6
<1> QED BY <1>1, <1>7, <1>9, <1>10, UntoldQuiet

\* No request moves, and no lead changes its count.
LEMMA UntoldStays ==
  ASSUME IsFiniteSet(Request), TypeInv, TypeInv', UntoldInv, UNCHANGED << alerts, req, untold, faults >>,
         overlaps <= overlaps', DOMAIN leads \subseteq DOMAIN leads', \A l \in DOMAIN leads : leads'[l].count = leads[l].count
  PROVE  UntoldInv'
<1>1. \A key \in Nat \X Nat : Numbered(key) => Numbered(key)' BY NumberedStays
<1>2. Pending' = Pending BY DEF Pending, Unled
<1>3. Pending \in Nat /\ untold \in Nat /\ overlaps \in Nat /\ overlaps' \in Nat /\ faults \in Nat
      /\ untold' = untold /\ faults' = faults
  BY UnledCount DEF TypeInv, TypeOK
<1>4. untold' <= untold + 0 BY <1>3
<1>5. Pending' <= Pending + 0 BY <1>2, <1>3
<1>6. PICK o \in Nat, o2 \in Nat, f \in Nat : o = overlaps /\ o2 = overlaps' /\ f = faults /\ f = faults' BY <1>3
<1>7. overlaps' + faults' >= overlaps + faults + 0
  <2>1. o <= o2 BY <1>6
  <2>2. o2 + f >= o + f + 0 BY <2>1
  <2> QED BY <1>6, <2>2
<1>8. 0 + 0 <= 0 /\ \A p \in Request : req'[p] = req[p] OBVIOUS
<1> QED BY <1>1, <1>4, <1>5, <1>7, <1>8, UntoldQuiet

LEMMA UntoldStep ==
  ASSUME IntakeAssumption, TypeInv, TypeInv', UntoldInv, [Next]_vars
  PROVE  UntoldInv'
<1>1. IsFiniteSet(Request) OBVIOUS
<1>2. ASSUME NEW r \in Request, NEW f \in Forms, Submit(r, f) PROVE UntoldInv'
  <2>1. /\ At(r, "idle") /\ \A p \in Request \ {r} : req'[p] = req[p]
        /\ At(r, "match")' /\ Overlap /\ UNCHANGED << alerts, untold, leads, faults >>
    BY <1>2, SubmitGoes DEF rows
  <2>2. req'[r] = req[r] \/ (At(r, "idle") /\ req'[r].pc \in { "match", "byPhone", "byEmail" }) BY <2>1 DEF At
  <2> QED BY <1>1, <2>1, <2>2, UntoldBegins
<1>3. ASSUME NEW r \in Request, NEW m \in Messages, Receive(r, m) PROVE UntoldInv'
  <2>1. /\ At(r, "idle") /\ \A p \in Request \ {r} : req'[p] = req[p]
        /\ req'[r].pc \in { "byPhone", "byEmail" } /\ Overlap /\ UNCHANGED << alerts, untold, leads, faults >>
    BY <1>3, ReceiveGoes DEF rows
  <2>2. req'[r] = req[r] \/ (At(r, "idle") /\ req'[r].pc \in { "match", "byPhone", "byEmail" }) BY <2>1
  <2> QED BY <1>1, <2>1, <2>2, UntoldBegins
<1>4. ASSUME NEW r \in Request, FormStep(r) PROVE UntoldInv'
  <2>1. CASE OpenLead(r) BY <1>1, <2>1, UntoldOpen
  <2>2. CASE JoinLead(r) BY <1>1, <2>2, UntoldJoin
  <2>3. CASE Reserve(r) BY <1>1, <2>3, UntoldReserve
  <2>4. CASE Sms(r) BY <1>1, <2>4, UntoldSms
  <2>5. CASE Recent(r)
    <3>1. At(r, "recent") /\ Goes(r, { "join", "open" }) /\ UNCHANGED << rows, history >> BY <2>5, RecentGoes
    <3>2. At(r, "join")' => req'[r].count = leads[req'[r].lead].count + 1 BY <2>5, RecentGoes DEF At
    <3>3. UNCHANGED bounds \/ Fault BY <2>5, RecentIs
    <3>4. faults <= faults' BY <3>3, BoundsType DEF TypeInv
    <3>5. /\ ~At(r, "alert") /\ UNCHANGED << alerts, untold, overlaps >>
          /\ req[r].pc \in { "match", "create", "fill", "recent", "open", "join" }
          /\ DOMAIN leads \subseteq DOMAIN leads' /\ \A l \in DOMAIN leads : leads'[l].count = leads[l].count
      BY <3>1 DEF At, rows, history
    <3> QED BY <1>1, <3>1, <3>2, <3>4, <3>5, UntoldGoes
  <2>6. CASE Match(r) \/ CreateCustomer(r) \/ FillCustomer(r)
    <3>1. PICK to \in { { "fill", "create" }, { "recent" } } : Goes(r, to)
      BY <2>6, MatchGoes, CreateGoes, FillGoes
    <3>2. req[r].pc \in { "match", "create", "fill" } /\ UNCHANGED << leads, alerts, untold, overlaps >>
      BY <2>6, MatchGoes, CreateGoes, FillGoes DEF At, rows, history
    <3>3. UNCHANGED bounds \/ Fault BY <2>6, MatchGoes, CreateGoes, FillGoes
    <3>4. faults <= faults' BY <3>3, BoundsType DEF TypeInv
    <3>5. ~At(r, "alert") /\ ~At(r, "join")' BY <3>1, <3>2 DEF At, Goes
    <3> QED BY <1>1, <3>1, <3>2, <3>4, <3>5, UntoldGoes
  <2> QED BY <1>4, <2>1, <2>2, <2>3, <2>4, <2>5, <2>6 DEF FormStep
<1>5. ASSUME NEW r \in Request, MessageStep(r) PROVE UntoldInv'
  <2>1. PICK to \in { { "capture", "idle", "byEmail", "introduce" }, { "capture" }, { "thread", "idle" }, { "upsert" }, { "idle" } } :
          Goes(r, to)
    BY <1>5, FindGoes, IntroduceGoes, CaptureGoes, FindThreadGoes, UpsertGoes DEF MessageStep, Goes
  <2>2. ~At(r, "alert") /\ ~At(r, "join")'
    BY <1>5, <2>1, FindGoes, IntroduceGoes, CaptureGoes, FindThreadGoes, UpsertGoes DEF MessageStep, Goes, At
  <2>3. UNCHANGED << alerts, untold, overlaps, faults >>
    BY <1>5, FindGoes, IntroduceGoes, CaptureGoes, FindThreadGoes, UpsertGoes DEF MessageStep, rows, history, bounds
  <2>4. DOMAIN leads \subseteq DOMAIN leads' /\ \A l \in DOMAIN leads : leads'[l].count = leads[l].count
    BY <1>5, FindGoes, IntroduceGoes, CaptureGoes, FindThreadGoes, UpsertGoes DEF MessageStep, rows
  <2>5. faults <= faults' BY <2>3 DEF TypeInv, TypeOK
  <2>6. to \cap { "match", "create", "fill", "recent", "open", "join" } = {} /\ "alert" \notin to BY <2>1
  <2> QED BY <1>1, <2>1, <2>2, <2>3, <2>4, <2>5, <2>6, UntoldGoes
<1>6. ASSUME NEW r \in Request, Drop(r) PROVE UntoldInv' BY <1>1, <1>6, UntoldDrop
<1>7. ASSUME NEW k \in DOMAIN customers, ArchiveCustomer(k) \/ \E e \in Emails : EditCustomer(k, e) PROVE UntoldInv'
  <2>1. UNCHANGED << alerts, req, untold, faults, leads >> /\ (Overlap \/ UNCHANGED overlaps)
    BY <1>7 DEF ArchiveCustomer, EditCustomer, history
  <2>2. overlaps <= overlaps' BY <2>1, OverlapGrows
  <2> QED BY <1>1, <2>1, <2>2, UntoldStays
<1>8. ASSUME NEW l \in DOMAIN leads, CloseLead(l) PROVE UntoldInv'
  <2>1. UNCHANGED << alerts, req, untold, faults, overlaps >> BY <1>8 DEF CloseLead, history
  <2>2. overlaps <= overlaps' BY <2>1 DEF TypeInv, TypeOK
  <2>3. DOMAIN leads' = DOMAIN leads /\ \A k \in DOMAIN leads : leads'[k].count = leads[k].count BY <1>8, CloseIs
  <2> QED BY <1>1, <2>1, <2>2, <2>3, UntoldStays
<1>9. CASE Tick \/ UNCHANGED vars
  <2>1. UNCHANGED << alerts, req, untold, faults, leads, overlaps >> BY <1>9 DEF Tick, vars, rows, history
  <2>2. overlaps <= overlaps' BY <2>1 DEF TypeInv, TypeOK
  <2> QED BY <1>1, <2>1, <2>2, UntoldStays
<1> QED BY <1>2, <1>3, <1>4, <1>5, <1>6, <1>7, <1>8, <1>9 DEF Next

\* A form that is accepted without a text to the office took the number of another that
\* overlapped it, or met with a fault.
THEOREM UntoldCorrect == IntakeAssumption => (Spec => []UntoldBounded)
<1> SUFFICES ASSUME IntakeAssumption PROVE Spec => []UntoldBounded OBVIOUS
<1>1. Init => UntoldInv BY UntoldInit
<1>2. TypeInv /\ TypeInv' /\ UntoldInv /\ [Next]_vars => UntoldInv' BY UntoldStep
<1>3. TypeInv /\ UntoldInv => UntoldBounded
  <2> SUFFICES ASSUME TypeInv, UntoldInv PROVE UntoldBounded OBVIOUS
  <2>1. /\ Cardinality(Alerting) \in Nat /\ Cardinality(Ahead) \in Nat /\ Cardinality(Fresh) \in Nat
        /\ Cardinality(Fresh) <= Cardinality(Alerting)
    BY AlertsCount DEF UntoldInv
  <2>2. Pending \in Nat /\ untold \in Nat /\ overlaps \in Nat /\ faults \in Nat BY UnledCount DEF TypeInv, TypeOK
  <2> QED BY <2>1, <2>2 DEF UntoldInv, UntoldBounded
<1>4. Spec => []TypeInv BY TypeCorrect
<1> QED BY <1>1, <1>2, <1>3, <1>4, PTL DEF Spec

-----------------------------------------------------------------------------
(* Records of one person.                                                  *)

\* The customers made of one person's forms, and the forms about to make another; of
\* one number's messages; the threads of one contact.
FormTwins(p, n) == { k \in DOMAIN customers : customers[k].source = "form" /\ customers[k].phone = p /\ customers[k].name = n }
FormMakers(p, n) == { r \in Request : At(r, "create") /\ normalizePhone(Input(r).phone) = p /\ Input(r).name = n }
TextTwins(p) == { k \in Standing : customers[k].source = "message" /\ customers[k].phone = p }
TextMakers(p) == { r \in Request : req[r].pc \in { "byEmail", "introduce" } /\ Input(r).phone = p }
ThreadMakers(c) == { r \in Request : At(r, "upsert") /\ req[r].thread = 0 /\ Contact(Input(r)) = c }

Allowance == 1 + overlaps + faults
FormsInv == \A p \in Phones : \A n \in Names :
              ~Crowded(p) => Cardinality(FormTwins(p, n)) + Cardinality(FormMakers(p, n)) <= Allowance
TextsInv == \A p \in Phones \ { None } : Cardinality(TextTwins(p)) + Cardinality(TextMakers(p)) <= Allowance
ThreadsInv == \A c \in Contacts : Cardinality(ThreadIds(c)) + Cardinality(ThreadMakers(c)) <= Allowance
\* A known thread is one of the contact's.
KnownInv ==
  /\ \A i \in DOMAIN threads : threads[i].id # 0
  /\ \A r \in Request : At(r, "upsert") /\ req[r].thread # 0 => req[r].thread \in ThreadIds(Contact(Input(r)))
RecordsInv == FormsInv /\ TextsInv /\ ThreadsInv /\ KnownInv

LEMMA HistoryGrows ==
  ASSUME IntakeAssumption, TypeInv, [Next]_vars
  PROVE  overlaps <= overlaps' /\ faults <= faults'
<1>1. overlaps \in Nat /\ faults \in Nat BY DEF TypeInv, TypeOK
<1>2. ASSUME UNCHANGED bounds \/ Fault \/ UNCHANGED faults PROVE faults <= faults'
  BY <1>1, <1>2, FaultType DEF bounds, TypeInv
<1>3. ASSUME Overlap \/ UNCHANGED overlaps PROVE overlaps <= overlaps' BY <1>3, OverlapGrows
<1>4. ASSUME NEW r \in Request, NEW f \in Forms, Submit(r, f) PROVE overlaps <= overlaps' /\ faults <= faults'
  BY <1>2, <1>3, <1>4, SubmitGoes
<1>5. ASSUME NEW r \in Request, NEW m \in Messages, Receive(r, m) PROVE overlaps <= overlaps' /\ faults <= faults'
  BY <1>2, <1>3, <1>5, ReceiveGoes
<1>6. ASSUME NEW r \in Request, FormStep(r) PROVE overlaps <= overlaps' /\ faults <= faults'
  <2>1. CASE Match(r) BY <1>2, <1>3, <2>1, MatchGoes DEF history
  <2>2. CASE CreateCustomer(r) BY <1>2, <1>3, <2>2, CreateGoes DEF history
  <2>3. CASE FillCustomer(r) BY <1>2, <1>3, <2>3, FillGoes
  <2>4. CASE Recent(r) BY <1>2, <1>3, <2>4, RecentIs DEF history
  <2>5. CASE OpenLead(r) BY <1>2, <1>3, <2>5, OpenGoes
  <2>6. CASE JoinLead(r) BY <1>2, <1>3, <2>6, JoinGoes DEF history
  <2>7. CASE Reserve(r) BY <1>2, <1>3, <2>7, ReserveGoes
  <2>8. CASE Sms(r) BY <1>2, <1>3, <2>8, SmsGoes
  <2> QED BY <1>6, <2>1, <2>2, <2>3, <2>4, <2>5, <2>6, <2>7, <2>8 DEF FormStep
<1>7. ASSUME NEW r \in Request, MessageStep(r) PROVE overlaps <= overlaps' /\ faults <= faults'
  <2>1. UNCHANGED << overlaps, faults >>
    BY <1>7, FindGoes, IntroduceGoes, CaptureGoes, FindThreadGoes, UpsertGoes DEF MessageStep, history, bounds
  <2> QED BY <1>2, <1>3, <2>1
<1>8. ASSUME NEW r \in Request, Drop(r) PROVE overlaps <= overlaps' /\ faults <= faults'
  BY <1>2, <1>3, <1>8, DropGoes DEF history
<1>9. ASSUME NEW k \in DOMAIN customers, ArchiveCustomer(k) \/ \E e \in Emails : EditCustomer(k, e)
      PROVE  overlaps <= overlaps' /\ faults <= faults'
  BY <1>2, <1>3, <1>9 DEF ArchiveCustomer, EditCustomer, history
<1>10. ASSUME NEW l \in DOMAIN leads, CloseLead(l) PROVE overlaps <= overlaps' /\ faults <= faults'
  BY <1>2, <1>3, <1>10 DEF CloseLead, history
<1>11. CASE Tick \/ UNCHANGED vars BY <1>2, <1>3, <1>11 DEF Tick, vars, history
<1> QED BY <1>4, <1>5, <1>6, <1>7, <1>8, <1>9, <1>10, <1>11 DEF Next

\* How the records of one kind, T, and those about to make another, M, may change: one
\* makes a record, a fault lets one more make one, or one starts where there is none.
Paid(T, M, T2, M2) ==
  \/ T2 \subseteq T /\ M2 \subseteq M
  \/ \E x : \E r \in M : T2 \subseteq T \cup {x} /\ M2 \subseteq M \ {r}
  \/ faults' = faults + 1 /\ T2 \subseteq T /\ \E r : M2 \subseteq M \cup {r}
  \/ T2 = {}

LEMMA PaidStays ==
  ASSUME IsFiniteSet(Request), TypeInv, TypeInv', ApartInv', overlaps <= overlaps', faults <= faults',
         NEW T, NEW M, NEW T2, NEW M2, IsFiniteSet(T), IsFiniteSet(M), M2 \subseteq Running',
         Cardinality(T) + Cardinality(M) <= Allowance, Paid(T, M, T2, M2)
  PROVE  Cardinality(T2) + Cardinality(M2) <= Allowance'
<1>1. PICK o \in Nat : o = overlaps BY DEF TypeInv, TypeOK
<1>2. PICK o2 \in Nat : o2 = overlaps' BY DEF TypeInv, TypeOK
<1>3. PICK f \in Nat : f = faults BY DEF TypeInv, TypeOK
<1>4. PICK f2 \in Nat : f2 = faults' BY DEF TypeInv, TypeOK
<1>5. PICK t \in Nat : t = Cardinality(T) BY FS_CardinalityType
<1>6. PICK m \in Nat : m = Cardinality(M) BY FS_CardinalityType
<1>7. o <= o2 /\ f <= f2 /\ t + m <= 1 + o + f /\ Allowance' = 1 + o2 + f2
  BY <1>1, <1>2, <1>3, <1>4, <1>5, <1>6 DEF Allowance
<1>8. CASE T2 \subseteq T /\ M2 \subseteq M
  <2>1. Cardinality(T2) \in Nat /\ Cardinality(T2) <= t BY <1>5, <1>8, Fewer
  <2>2. Cardinality(M2) \in Nat /\ Cardinality(M2) <= m BY <1>6, <1>8, Fewer
  <2> QED BY <1>7, <2>1, <2>2
<1>9. CASE \E x : \E r \in M : T2 \subseteq T \cup {x} /\ M2 \subseteq M \ {r}
  <2>1. PICK x : \E r \in M : T2 \subseteq T \cup {x} /\ M2 \subseteq M \ {r} BY <1>9
  <2>2. PICK r \in M : T2 \subseteq T \cup {x} /\ M2 \subseteq M \ {r} BY <2>1
  <2>3. Cardinality(T2) \in Nat /\ Cardinality(T2) <= t + 1 BY <1>5, <2>2, OneMore
  <2>4. Cardinality(M2) \in Nat /\ Cardinality(M2) + 1 <= m BY <1>6, <2>2, OneLess
  <2> QED BY <1>7, <2>3, <2>4
<1>10. CASE faults' = faults + 1 /\ T2 \subseteq T /\ \E r : M2 \subseteq M \cup {r}
  <2>1. PICK r : M2 \subseteq M \cup {r} BY <1>10
  <2>2. Cardinality(T2) \in Nat /\ Cardinality(T2) <= t BY <1>5, <1>10, Fewer
  <2>3. Cardinality(M2) \in Nat /\ Cardinality(M2) <= m + 1 BY <1>6, <2>1, OneMore
  <2>4. f2 = f + 1 BY <1>3, <1>4, <1>10
  <2> QED BY <1>7, <2>2, <2>3, <2>4
<1>11. CASE T2 = {}
  <2>1. IsFiniteSet(Running') BY RequestsCount DEF Running
  <2>2. Cardinality(M2) \in Nat /\ Cardinality(M2) <= Cardinality(Running') /\ Cardinality(Running') \in Nat
    BY <2>1, Fewer
  <2>3. Cardinality(Running') <= 1 + o2 BY <1>2 DEF ApartInv
  <2>4. Cardinality(T2) = 0 BY <1>11, NoneCount
  <2> QED BY <1>7, <2>2, <2>3, <2>4
<1> QED BY <1>8, <1>9, <1>10, <1>11 DEF Paid

LEMMA PositionsFinite ==
  ASSUME NEW T, NEW s \in Seq(T)
  PROVE  IsFiniteSet(DOMAIN s)
<1>1. DOMAIN s = 1 .. Len(s) /\ Len(s) \in Int OBVIOUS
<1> QED BY <1>1, FS_Interval

LEMMA ThreadIdsFinite ==
  ASSUME TypeInv, NEW c
  PROVE  IsFiniteSet(ThreadIds(c))
<1> DEFINE S == { j \in DOMAIN threads : threads[j].contact = c }
           id == [i \in S |-> threads[i].id]
<1>1. IsFiniteSet(DOMAIN threads) BY PositionsFinite DEF TypeInv, TypeOK
<1>2. IsFiniteSet(S) BY <1>1, Fewer
<1>3. ThreadIds(c) = { threads[i].id : i \in S } BY DEF ThreadIds
<1>4. id \in Surjection(S, ThreadIds(c)) BY <1>3 DEF Surjection
<1> QED BY <1>2, <1>4, FS_Surjection

LEMMA RecordsFinite ==
  ASSUME IsFiniteSet(Request), TypeInv
  PROVE  /\ \A p, n : IsFiniteSet(FormTwins(p, n)) /\ IsFiniteSet(FormMakers(p, n))
         /\ \A p : IsFiniteSet(TextTwins(p)) /\ IsFiniteSet(TextMakers(p))
         /\ \A c : IsFiniteSet(ThreadIds(c)) /\ IsFiniteSet(ThreadMakers(c))
<1>1. IsFiniteSet(DOMAIN customers) BY PositionsFinite DEF TypeInv, TypeOK
<1>2. \A p, n : IsFiniteSet(FormTwins(p, n)) BY <1>1, Fewer DEF FormTwins
<1>3. \A p : IsFiniteSet(TextTwins(p)) BY <1>1, Fewer DEF TextTwins, Standing
<1>4. \A p, n : IsFiniteSet(FormMakers(p, n)) BY RequestsCount DEF FormMakers
<1>5. \A p : IsFiniteSet(TextMakers(p)) BY RequestsCount DEF TextMakers
<1>6. \A c : IsFiniteSet(ThreadMakers(c)) BY RequestsCount DEF ThreadMakers
<1>7. \A c : IsFiniteSet(ThreadIds(c)) BY ThreadIdsFinite
<1> QED BY <1>2, <1>3, <1>4, <1>5, <1>6, <1>7

LEMMA RecordsInit == ASSUME IntakeAssumption, Init PROVE RecordsInv
<1>1. customers = << >> /\ threads = << >> /\ \A r \in Request : req[r].pc = "idle" BY DEF Init, Idle
<1>2. \A p, n : FormTwins(p, n) = {} /\ FormMakers(p, n) = {} BY <1>1 DEF FormTwins, FormMakers, At
<1>3. \A p : TextTwins(p) = {} /\ TextMakers(p) = {} BY <1>1 DEF TextTwins, TextMakers, Standing
<1>4. \A c : ThreadIds(c) = {} /\ ThreadMakers(c) = {} BY <1>1 DEF ThreadIds, ThreadMakers, At
<1>5. KnownInv BY <1>1 DEF KnownInv, At
<1>6. Allowance = 1 BY DEF Init, Allowance
<1>7. Cardinality({}) + Cardinality({}) <= Allowance BY <1>6, NoneCount
<1>8. FormsInv BY <1>2, <1>7 DEF FormsInv
<1>9. TextsInv BY <1>3, <1>7 DEF TextsInv
<1>10. ThreadsInv BY <1>4, <1>7 DEF ThreadsInv
<1> QED BY <1>5, <1>8, <1>9, <1>10 DEF RecordsInv

\* Nothing is added of a kind; a number may only become more crowded.
PhonesKept == \A k \in DOMAIN customers : k \in DOMAIN customers' /\ customers'[k].phone = customers[k].phone
FormsKept ==
  /\ \A k \in DOMAIN customers' : customers'[k].source = "form" =>
       k \in DOMAIN customers /\ customers[k].source = "form" /\ customers'[k].phone = customers[k].phone
       /\ customers'[k].name = customers[k].name
  /\ \A q \in Request : At(q, "create")' => req'[q] = req[q]
TextsKept ==
  /\ \A k \in DOMAIN customers' : customers'[k].source = "message" /\ ~customers'[k].archived =>
       k \in DOMAIN customers /\ customers[k].source = "message" /\ ~customers[k].archived
       /\ customers'[k].phone = customers[k].phone
  /\ \A q \in Request : req'[q].pc \in { "byEmail", "introduce" } =>
       Input(q)'.phone = None \/ (Input(q)' = Input(q) /\ req[q].pc \in { "byEmail", "introduce" })
ThreadsKept == threads' = threads /\ \A q \in Request : At(q, "upsert")' => req'[q] = req[q]

LEMMA CrowdedStays ==
  ASSUME MatchLimit \in Nat, TypeInv', PhonesKept, NEW p, Crowded(p)
  PROVE  Crowded(p)'
<1> DEFINE S == { k \in DOMAIN customers : customers[k].phone = p }
           S2 == { k \in DOMAIN customers' : customers'[k].phone = p }
<1>1. S \subseteq S2 BY DEF PhonesKept
<1>2. IsFiniteSet(DOMAIN customers') BY PositionsFinite DEF TypeInv, TypeOK
<1>3. IsFiniteSet(S2) BY <1>2, Fewer
<1>4. Cardinality(S) <= Cardinality(S2) /\ Cardinality(S) \in Nat /\ Cardinality(S2) \in Nat BY <1>1, <1>3, Counts
<1> HIDE DEF S, S2
<1>5. Cardinality(S) > MatchLimit BY DEF Crowded, S
<1>6. Cardinality(S2) > MatchLimit BY <1>4, <1>5
<1> QED BY <1>6 DEF Crowded, S2

\* What holds of a step whichever kind of record it is about.
Steps == /\ IsFiniteSet(Request) /\ MatchLimit \in Nat /\ TypeInv /\ TypeInv' /\ ApartInv'
         /\ overlaps <= overlaps' /\ faults <= faults' /\ RecordsInv

LEMMA FormsPaid ==
  ASSUME Steps, PhonesKept,
         \A p \in Phones : \A n \in Names : ~Crowded(p) => Paid(FormTwins(p, n), FormMakers(p, n), FormTwins(p, n)', FormMakers(p, n)')
  PROVE  FormsInv'
<1> SUFFICES ASSUME NEW p \in Phones, NEW n \in Names, ~Crowded(p)'
             PROVE  Cardinality(FormTwins(p, n)') + Cardinality(FormMakers(p, n)') <= Allowance'
  BY DEF FormsInv
<1>1. ~Crowded(p) BY CrowdedStays DEF Steps
<1>2. Cardinality(FormTwins(p, n)) + Cardinality(FormMakers(p, n)) <= Allowance BY <1>1 DEF Steps, RecordsInv, FormsInv
<1>3. IsFiniteSet(FormTwins(p, n)) /\ IsFiniteSet(FormMakers(p, n)) BY RecordsFinite DEF Steps
<1>4. FormMakers(p, n)' \subseteq Running' BY DEF FormMakers, Running, At
<1>5. Paid(FormTwins(p, n), FormMakers(p, n), FormTwins(p, n)', FormMakers(p, n)') BY <1>1
<1> QED BY <1>2, <1>3, <1>4, <1>5, PaidStays DEF Steps

LEMMA TextsPaid ==
  ASSUME Steps, \A p \in Phones \ { None } : Paid(TextTwins(p), TextMakers(p), TextTwins(p)', TextMakers(p)')
  PROVE  TextsInv'
<1> SUFFICES ASSUME NEW p \in Phones \ { None }
             PROVE  Cardinality(TextTwins(p)') + Cardinality(TextMakers(p)') <= Allowance'
  BY DEF TextsInv
<1>1. Cardinality(TextTwins(p)) + Cardinality(TextMakers(p)) <= Allowance BY DEF Steps, RecordsInv, TextsInv
<1>2. IsFiniteSet(TextTwins(p)) /\ IsFiniteSet(TextMakers(p)) BY RecordsFinite DEF Steps
<1>3. TextMakers(p)' \subseteq Running' BY DEF TextMakers, Running, At
<1>4. Paid(TextTwins(p), TextMakers(p), TextTwins(p)', TextMakers(p)') OBVIOUS
<1> QED BY <1>1, <1>2, <1>3, <1>4, PaidStays DEF Steps

LEMMA ThreadsPaid ==
  ASSUME Steps, \A c \in Contacts : Paid(ThreadIds(c), ThreadMakers(c), ThreadIds(c)', ThreadMakers(c)')
  PROVE  ThreadsInv'
<1> SUFFICES ASSUME NEW c \in Contacts
             PROVE  Cardinality(ThreadIds(c)') + Cardinality(ThreadMakers(c)') <= Allowance'
  BY DEF ThreadsInv
<1>1. Cardinality(ThreadIds(c)) + Cardinality(ThreadMakers(c)) <= Allowance BY DEF Steps, RecordsInv, ThreadsInv
<1>2. IsFiniteSet(ThreadIds(c)) /\ IsFiniteSet(ThreadMakers(c)) BY RecordsFinite DEF Steps
<1>3. ThreadMakers(c)' \subseteq Running' BY DEF ThreadMakers, Running, At
<1>4. Paid(ThreadIds(c), ThreadMakers(c), ThreadIds(c)', ThreadMakers(c)') OBVIOUS
<1> QED BY <1>1, <1>2, <1>3, <1>4, PaidStays DEF Steps

LEMMA FormsKeep == ASSUME Steps, PhonesKept, FormsKept PROVE FormsInv'
<1> SUFFICES ASSUME NEW p \in Phones, NEW n \in Names
             PROVE  Paid(FormTwins(p, n), FormMakers(p, n), FormTwins(p, n)', FormMakers(p, n)')
  BY FormsPaid
<1>1. FormTwins(p, n)' \subseteq FormTwins(p, n) BY DEF FormTwins, FormsKept
<1>2. FormMakers(p, n)' \subseteq FormMakers(p, n) BY DEF FormMakers, FormsKept, At, Input
<1> QED BY <1>1, <1>2 DEF Paid

LEMMA TextsKeep == ASSUME Steps, TextsKept PROVE TextsInv'
<1> SUFFICES ASSUME NEW p \in Phones \ { None }
             PROVE  Paid(TextTwins(p), TextMakers(p), TextTwins(p)', TextMakers(p)')
  BY TextsPaid
<1>1. TextTwins(p)' \subseteq TextTwins(p) BY DEF TextTwins, Standing, TextsKept
<1>2. TextMakers(p)' \subseteq TextMakers(p) BY DEF TextMakers, TextsKept
<1> QED BY <1>1, <1>2 DEF Paid

LEMMA ThreadsKeep == ASSUME Steps, ThreadsKept PROVE ThreadsInv' /\ KnownInv'
<1>1. \A c \in Contacts : ThreadIds(c)' \subseteq ThreadIds(c) BY DEF ThreadIds, ThreadsKept
<1>2. \A c \in Contacts : ThreadMakers(c)' \subseteq ThreadMakers(c) BY DEF ThreadMakers, ThreadsKept, At, Input
<1>3. ThreadsInv' BY <1>1, <1>2, ThreadsPaid DEF Paid
<1>4. KnownInv' BY DEF ThreadsKept, KnownInv, Steps, RecordsInv, At, Input, ThreadIds
<1> QED BY <1>3, <1>4

\* A form that finds nobody, of a number that is not crowded, has no twin.
LEMMA MatchForms ==
  ASSUME Steps, NEW r \in Request, Match(r)
  PROVE  FormsInv' /\ TextsInv' /\ ThreadsInv' /\ KnownInv'
<1>1. At(r, "match") /\ Goes(r, { "fill", "create" }) /\ UNCHANGED << customers, threads >>
  BY MatchGoes DEF Steps, rows
<1>2. PhonesKept /\ TextsKept /\ ThreadsKept BY <1>1 DEF PhonesKept, TextsKept, ThreadsKept, Goes, At, Input
<1>3. ASSUME NEW p \in Phones, NEW n \in Names, ~Crowded(p)
      PROVE  Paid(FormTwins(p, n), FormMakers(p, n), FormTwins(p, n)', FormMakers(p, n)')
  <2>1. FormTwins(p, n)' = FormTwins(p, n) BY <1>1 DEF FormTwins
  <2>2. FormMakers(p, n)' \subseteq FormMakers(p, n) \cup {r} BY <1>1 DEF FormMakers, Goes, At, Input
  <2>3. CASE r \notin FormMakers(p, n)' BY <2>1, <2>2, <2>3 DEF Paid
  <2>4. CASE Fault
    <3>1. faults' = faults + 1 BY <2>4, FaultType DEF Steps, TypeInv
    <3> QED BY <2>1, <2>2, <3>1 DEF Paid
  <2>5. CASE r \in FormMakers(p, n)' /\ ~Fault
    <3>1. req'[r].pc = "create" /\ normalizePhone(Input(r).phone) = p /\ Input(r).name = n
      BY <1>1, <2>5 DEF FormMakers, Goes, At, Input
    <3>2. \A k \in Candidates(Input(r)) : ~SamePerson(customers[k], Input(r)) BY <2>5, <3>1, MatchGoes DEF Steps
    <3>3. ASSUME NEW k \in FormTwins(p, n) PROVE FALSE
      <4> DEFINE same == { j \in DOMAIN customers : customers[j].phone = p }
                 newer == { j \in same : j > k }
      <4>1. k \in same /\ customers[k].name = n BY DEF FormTwins
      <4>2. IsFiniteSet(DOMAIN customers) /\ k \in Nat BY PositionsFinite DEF Steps, TypeInv, TypeOK, FormTwins
      <4>3. IsFiniteSet(same) /\ Cardinality(same) \in Nat BY <4>2, Fewer
      <4>4. newer \subseteq same \ {k} BY <4>2
      <4>5. Cardinality(newer) \in Nat /\ Cardinality(newer) + 1 <= Cardinality(same) BY <4>1, <4>3, <4>4, OneLess
      <4>6. ~ (Cardinality(same) > MatchLimit) BY <1>3 DEF Crowded
      <4>7. Cardinality(newer) < MatchLimit BY <4>3, <4>5, <4>6 DEF Steps
      <4>8. k \in Candidates(Input(r)) BY <3>1, <4>1, <4>7 DEF Candidates
      <4> QED BY <3>1, <3>2, <4>1, <4>8 DEF SamePerson
    <3>4. FormTwins(p, n)' = {} BY <2>1, <3>3
    <3> QED BY <3>4 DEF Paid
  <2> QED BY <2>3, <2>4, <2>5
<1>4. FormsInv' BY <1>2, <1>3, FormsPaid
<1> QED BY <1>2, <1>4, TextsKeep, ThreadsKeep

LEMMA CreateForms ==
  ASSUME IntakeAssumption, Steps, NEW r \in Request, CreateCustomer(r)
  PROVE  FormsInv' /\ TextsInv' /\ ThreadsInv' /\ KnownInv'
<1>1. At(r, "create") /\ Goes(r, { "recent" }) /\ UNCHANGED threads BY CreateGoes DEF Steps
<1>2. NewCustomer(r, Input(r).name, normalizePhone(Input(r).phone), Input(r).email, "form", "recent")
  BY DEF CreateCustomer
<1>3. Input(r).name \in Names /\ Input(r).email \in Emails /\ normalizePhone(Input(r).phone) \in Phones
  BY CreateType DEF Steps
<1>4. PICK m : m = Len(customers) + 1 OBVIOUS
<1>5. DOMAIN customers' = DOMAIN customers \cup { m } /\ \A k \in DOMAIN customers : customers'[k] = customers[k]
  BY <1>2, <1>3, <1>4, NewCustomerIs DEF Steps
<1>6. customers'[m].name = Input(r).name /\ customers'[m].phone = normalizePhone(Input(r).phone) /\ customers'[m].source = "form"
  BY <1>2, <1>3, <1>4, NewCustomerIs DEF Steps
<1>7. PhonesKept BY <1>5 DEF PhonesKept
<1>8. TextsKept
  <2>1. \A k \in DOMAIN customers' : customers'[k].source = "message" => k \in DOMAIN customers /\ customers'[k] = customers[k]
    BY <1>5, <1>6
  <2>2. \A q \in Request : req'[q].pc \in { "byEmail", "introduce" } => req'[q] = req[q] BY <1>1 DEF Goes
  <2> QED BY <2>1, <2>2 DEF TextsKept, Input
<1>9. ThreadsKept BY <1>1 DEF ThreadsKept, Goes, At
<1>10. ASSUME NEW p \in Phones, NEW n \in Names
       PROVE  Paid(FormTwins(p, n), FormMakers(p, n), FormTwins(p, n)', FormMakers(p, n)')
  <2>1. FormMakers(p, n)' \subseteq FormMakers(p, n) \ {r} BY <1>1 DEF FormMakers, Goes, At, Input
  <2>2. CASE r \in FormMakers(p, n)
    <3>1. FormTwins(p, n)' \subseteq FormTwins(p, n) \cup { m } BY <1>5 DEF FormTwins
    <3> QED BY <2>1, <2>2, <3>1 DEF Paid
  <2>3. CASE r \notin FormMakers(p, n)
    <3>1. ~ (normalizePhone(Input(r).phone) = p /\ Input(r).name = n) BY <1>1, <2>3 DEF FormMakers
    <3>2. FormTwins(p, n)' \subseteq FormTwins(p, n) BY <1>5, <1>6, <3>1 DEF FormTwins
    <3> QED BY <2>1, <3>2 DEF Paid
  <2> QED BY <2>2, <2>3
<1>11. FormsInv' BY <1>7, <1>10, FormsPaid
<1> QED BY <1>8, <1>9, <1>11, TextsKeep, ThreadsKeep

\* A look by number that goes on has found no customer of it.
LEMMA FindForms ==
  ASSUME Steps, NEW r \in Request, FindByPhone(r) \/ FindByEmail(r)
  PROVE  FormsInv' /\ TextsInv' /\ ThreadsInv' /\ KnownInv'
<1>1. customers' = customers /\ threads' = threads BY FindGoes DEF Steps, rows
<1>2. /\ req[r].pc \in { "byPhone", "byEmail" } /\ Goes(r, { "capture", "idle", "byEmail", "introduce" })
      /\ At(r, "byPhone") /\ ByPhone(r) # {} => Goes(r, { "capture", "idle" })
  BY FindGoes DEF Steps, At, Goes
<1>3. PhonesKept /\ FormsKept /\ ThreadsKept BY <1>1, <1>2 DEF PhonesKept, FormsKept, ThreadsKept, Goes, At
<1>4. ASSUME NEW p \in Phones \ { None } PROVE Paid(TextTwins(p), TextMakers(p), TextTwins(p)', TextMakers(p)')
  <2>1. TextTwins(p)' = TextTwins(p) BY <1>1 DEF TextTwins, Standing
  <2>2. TextMakers(p)' \subseteq TextMakers(p) \cup {r} BY <1>2 DEF TextMakers, Goes, Input
  <2>3. CASE r \in TextMakers(p) \/ r \notin TextMakers(p)' BY <2>1, <2>2, <2>3 DEF Paid
  <2>4. CASE r \notin TextMakers(p) /\ r \in TextMakers(p)'
    <3>1. req'[r].pc \in { "byEmail", "introduce" } /\ Input(r).phone = p BY <1>2, <2>4 DEF TextMakers, Goes, Input
    <3>2. At(r, "byPhone") BY <1>2, <2>4, <3>1 DEF TextMakers, At
    <3>3. ByPhone(r) = {} BY <1>2, <3>1, <3>2 DEF Goes
    <3>4. TextTwins(p)' = {} BY <2>1, <3>1, <3>3 DEF ByPhone, TextTwins
    <3> QED BY <3>4 DEF Paid
  <2> QED BY <2>3, <2>4
<1>5. TextsInv' BY <1>4, TextsPaid
<1> QED BY <1>3, <1>5, FormsKeep, ThreadsKeep

LEMMA IntroduceForms ==
  ASSUME Steps, NEW r \in Request, IntroduceCustomer(r)
  PROVE  FormsInv' /\ TextsInv' /\ ThreadsInv' /\ KnownInv'
<1>1. At(r, "introduce") /\ Goes(r, { "capture" }) /\ UNCHANGED threads BY IntroduceGoes DEF Steps
<1>2. NewCustomer(r, Input(r).name, Input(r).phone, Input(r).email, "message", "capture")
  BY DEF IntroduceCustomer
<1>3. Input(r).name \in Names /\ Input(r).email \in Emails /\ Input(r).phone \in Phones BY IntroduceType DEF Steps
<1>4. PICK m : m = Len(customers) + 1 OBVIOUS
<1>5. DOMAIN customers' = DOMAIN customers \cup { m } /\ \A k \in DOMAIN customers : customers'[k] = customers[k]
  BY <1>2, <1>3, <1>4, NewCustomerIs DEF Steps
<1>6. customers'[m].phone = Input(r).phone /\ customers'[m].source = "message"
  BY <1>2, <1>3, <1>4, NewCustomerIs DEF Steps
<1>7. PhonesKept BY <1>5 DEF PhonesKept
<1>8. FormsKept
  <2>1. \A k \in DOMAIN customers' : customers'[k].source = "form" => k \in DOMAIN customers /\ customers'[k] = customers[k]
    BY <1>5, <1>6
  <2>2. \A q \in Request : At(q, "create")' => req'[q] = req[q] BY <1>1 DEF Goes, At
  <2> QED BY <2>1, <2>2 DEF FormsKept
<1>9. ThreadsKept BY <1>1 DEF ThreadsKept, Goes, At
<1>10. ASSUME NEW p \in Phones \ { None } PROVE Paid(TextTwins(p), TextMakers(p), TextTwins(p)', TextMakers(p)')
  <2>1. TextMakers(p)' \subseteq TextMakers(p) \ {r} BY <1>1 DEF TextMakers, Goes, Input
  <2>2. CASE r \in TextMakers(p)
    <3>1. TextTwins(p)' \subseteq TextTwins(p) \cup { m } BY <1>5 DEF TextTwins, Standing
    <3> QED BY <2>1, <2>2, <3>1 DEF Paid
  <2>3. CASE r \notin TextMakers(p)
    <3>1. Input(r).phone # p BY <1>1, <2>3 DEF TextMakers, At
    <3>2. TextTwins(p)' \subseteq TextTwins(p) BY <1>5, <1>6, <3>1 DEF TextTwins, Standing
    <3> QED BY <2>1, <3>2 DEF Paid
  <2> QED BY <2>2, <2>3
<1>11. TextsInv' BY <1>10, TextsPaid
<1> QED BY <1>7, <1>8, <1>9, <1>11, FormsKeep, ThreadsKeep

\* A message that finds no thread is the first of its contact.
LEMMA FindThreadForms ==
  ASSUME Steps, NEW r \in Request, FindThread(r)
  PROVE  FormsInv' /\ TextsInv' /\ ThreadsInv' /\ KnownInv'
<1>1. At(r, "thread") /\ Goes(r, { "upsert" }) /\ customers' = customers /\ threads' = threads
  BY FindThreadGoes DEF Steps, rows
<1>2. PhonesKept /\ FormsKept /\ TextsKept BY <1>1 DEF PhonesKept, FormsKept, TextsKept, Goes, At, Input
<1>3. /\ ThreadsOf(r) = {} => req'[r].thread = 0
      /\ ThreadsOf(r) # {} => req'[r].thread \in ThreadIds(Contact(Input(r)))
  BY FindThreadGoes DEF Steps, ThreadsOf, ThreadIds
<1>4. \A c : ThreadIds(c)' = ThreadIds(c) BY <1>1 DEF ThreadIds
<1>5. Contact(Input(r))' = Contact(Input(r)) /\ At(r, "upsert")' BY <1>1 DEF Goes, Input, Contact, At
<1>6. ASSUME NEW c \in Contacts PROVE Paid(ThreadIds(c), ThreadMakers(c), ThreadIds(c)', ThreadMakers(c)')
  <2>1. ThreadMakers(c)' \subseteq ThreadMakers(c) \cup {r} BY <1>1 DEF ThreadMakers, Goes, Input, At
  <2>2. CASE r \notin ThreadMakers(c)' BY <1>4, <2>1, <2>2 DEF Paid
  <2>3. CASE r \in ThreadMakers(c)'
    <3>1. req'[r].thread = 0 /\ Contact(Input(r)) = c BY <1>5, <2>3 DEF ThreadMakers
    <3>2. \A i \in DOMAIN threads : threads[i].id # 0 BY DEF Steps, RecordsInv, KnownInv
    <3>3. 0 \notin ThreadIds(c) BY <3>2 DEF ThreadIds
    <3>4. ThreadsOf(r) = {} BY <1>3, <3>1, <3>3
    <3>5. ThreadIds(c)' = {} BY <1>4, <3>1, <3>4 DEF ThreadIds, ThreadsOf
    <3> QED BY <3>5 DEF Paid
  <2> QED BY <2>2, <2>3
<1>7. ThreadsInv' BY <1>6, ThreadsPaid
<1>8. KnownInv'
  <2>1. \A i \in DOMAIN threads' : threads'[i].id # 0 BY <1>1 DEF Steps, RecordsInv, KnownInv
  <2>2. ASSUME NEW q \in Request, At(q, "upsert")', req'[q].thread # 0
        PROVE  req'[q].thread \in ThreadIds(Contact(Input(q)))'
    <3>1. CASE q = r BY <1>1, <1>3, <1>5, <2>2, <3>1 DEF ThreadIds
    <3>2. CASE q # r
      <4>1. req'[q] = req[q] BY <1>1, <3>2 DEF Goes
      <4>2. req[q].thread \in ThreadIds(Contact(Input(q))) BY <2>2, <4>1 DEF Steps, RecordsInv, KnownInv, At
      <4> QED BY <1>1, <4>1, <4>2 DEF ThreadIds, Input, Contact
    <3> QED BY <3>1, <3>2
  <2> QED BY <2>1, <2>2 DEF KnownInv
<1> QED BY <1>2, <1>7, <1>8, FormsKeep, TextsKeep

LEMMA UpsertForms ==
  ASSUME Steps, NEW r \in Request, UpsertThread(r)
  PROVE  FormsInv' /\ TextsInv' /\ ThreadsInv' /\ KnownInv'
<1>1. At(r, "upsert") /\ Goes(r, { "idle" }) /\ customers' = customers BY UpsertGoes DEF Steps
<1>2. PhonesKept /\ FormsKept /\ TextsKept BY <1>1 DEF PhonesKept, FormsKept, TextsKept, Goes, At, Input
<1>3. PICK n : n = Len(threads) + 1 OBVIOUS
<1>4. PICK id : id = IF req[r].thread = 0 THEN n ELSE req[r].thread OBVIOUS
<1>5. /\ DOMAIN threads' = DOMAIN threads \cup { n } /\ n \in Nat
      /\ \A i \in DOMAIN threads : threads'[i] = threads[i]
      /\ threads'[n].id = id /\ threads'[n].contact = Contact(Input(r))
  BY <1>3, <1>4, UpsertIs DEF Steps
<1>6. n # 0
  <2>1. Len(threads) \in Nat BY DEF Steps, TypeInv, TypeOK
  <2> QED BY <1>3, <2>1
<1>7. \A c : ThreadIds(c) \subseteq ThreadIds(c)' /\ ThreadIds(c)' \subseteq ThreadIds(c) \cup { id }
  BY <1>5 DEF ThreadIds
<1>8. \A c : c # Contact(Input(r)) => ThreadIds(c)' \subseteq ThreadIds(c) BY <1>5 DEF ThreadIds
<1>9. req[r].thread # 0 => id \in ThreadIds(Contact(Input(r))) BY <1>1, <1>4 DEF Steps, RecordsInv, KnownInv
<1>10. ASSUME NEW c \in Contacts PROVE Paid(ThreadIds(c), ThreadMakers(c), ThreadIds(c)', ThreadMakers(c)')
  <2>1. ThreadMakers(c)' \subseteq ThreadMakers(c) \ {r} BY <1>1 DEF ThreadMakers, Goes, Input, At
  <2>2. CASE c = Contact(Input(r)) /\ req[r].thread = 0
    <3>1. r \in ThreadMakers(c) BY <1>1, <2>2 DEF ThreadMakers
    <3> QED BY <1>7, <2>1, <3>1 DEF Paid
  <2>3. CASE c # Contact(Input(r)) \/ req[r].thread # 0
    <3>1. ThreadIds(c)' \subseteq ThreadIds(c) BY <1>7, <1>8, <1>9, <2>3
    <3> QED BY <2>1, <3>1 DEF Paid
  <2> QED BY <2>2, <2>3
<1>11. ThreadsInv' BY <1>10, ThreadsPaid
<1>12. KnownInv'
  <2>1. \A i \in DOMAIN threads' : threads'[i].id # 0 BY <1>4, <1>5, <1>6 DEF Steps, RecordsInv, KnownInv
  <2>2. ASSUME NEW q \in Request, At(q, "upsert")', req'[q].thread # 0
        PROVE  req'[q].thread \in ThreadIds(Contact(Input(q)))'
    <3>1. q # r /\ req'[q] = req[q] BY <1>1, <2>2 DEF Goes, At
    <3>2. req[q].thread \in ThreadIds(Contact(Input(q))) BY <2>2, <3>1 DEF Steps, RecordsInv, KnownInv, At
    <3>3. Contact(Input(q))' = Contact(Input(q)) BY <3>1 DEF Contact, Input
    <3>4. req'[q].thread \in ThreadIds(Contact(Input(q)))' BY <1>7, <3>1, <3>2, <3>3
    <3> QED BY <3>4
  <2> QED BY <2>1, <2>2 DEF KnownInv
<1> QED BY <1>2, <1>11, <1>12, FormsKeep, TextsKeep

\* A step makes no record and lets no request come to make one.
CustomersKept ==
  /\ DOMAIN customers' = DOMAIN customers
  /\ \A k \in DOMAIN customers :
       /\ customers'[k].name = customers[k].name /\ customers'[k].phone = customers[k].phone
       /\ customers'[k].source = customers[k].source /\ (customers[k].archived => customers'[k].archived)
Harmless(q) ==
  \/ req'[q] = req[q]
  \/ req'[q].pc \notin { "create", "byEmail", "introduce", "upsert" }
  \/ At(q, "byEmail")' /\ Input(q)'.phone = None

LEMMA CustomersKeep ==
  ASSUME customers \in Seq(Customer),
         \/ customers' = customers
         \/ \E k \in DOMAIN customers : \/ \E e \in Emails : customers' = [customers EXCEPT ![k].email = e]
                                        \/ customers' = [customers EXCEPT ![k].archived = TRUE]
  PROVE  CustomersKept
<1>1. CASE customers' = customers BY <1>1 DEF CustomersKept
<1>2. ASSUME NEW k \in DOMAIN customers,
             \/ \E e \in Emails : customers' = [customers EXCEPT ![k].email = e]
             \/ customers' = [customers EXCEPT ![k].archived = TRUE]
      PROVE  CustomersKept
  <2>1. DOMAIN customers' = DOMAIN customers BY <1>2, CustomerStays
  <2>2. \A j \in DOMAIN customers : customers'[j].name = customers[j].name /\ customers'[j].phone = customers[j].phone
                                     /\ customers'[j].source = customers[j].source
    BY <1>2, CustomerStays
  <2>3. \A j \in DOMAIN customers \ {k} : customers'[j] = customers[j] BY <1>2, CustomerStays
  <2>4. customers[k] \in Customer OBVIOUS
  <2>5. customers[k].archived => customers'[k].archived
    <3>1. CASE \E e \in Emails : customers' = [customers EXCEPT ![k].email = e]
      <4>1. PICK e \in Emails : customers' = [customers EXCEPT ![k].email = e] BY <3>1
      <4>2. customers'[k] = [customers[k] EXCEPT !.email = e] BY <4>1
      <4> QED BY <2>4, <4>2 DEF Customer
    <3>2. CASE customers' = [customers EXCEPT ![k].archived = TRUE]
      <4>1. customers'[k] = [customers[k] EXCEPT !.archived = TRUE] BY <3>2
      <4> QED BY <2>4, <4>1 DEF Customer
    <3> QED BY <1>2, <3>1, <3>2
  <2>6. \A j \in DOMAIN customers : customers[j].archived => customers'[j].archived BY <2>3, <2>5
  <2> QED BY <2>1, <2>2, <2>6 DEF CustomersKept
<1> QED BY <1>1, <1>2

LEMMA HarmlessForms ==
  ASSUME Steps, CustomersKept, threads' = threads, \A q \in Request : Harmless(q)
  PROVE  FormsInv' /\ TextsInv' /\ ThreadsInv' /\ KnownInv'
<1>1. PhonesKept BY DEF PhonesKept, CustomersKept
<1>2. FormsKept BY DEF FormsKept, CustomersKept, Harmless, At
<1>3. TextsKept
  <2>1. \A k \in DOMAIN customers' : customers'[k].source = "message" /\ ~customers'[k].archived =>
          k \in DOMAIN customers /\ customers[k].source = "message" /\ ~customers[k].archived
          /\ customers'[k].phone = customers[k].phone
    BY DEF CustomersKept
  <2>2. \A q \in Request : req'[q].pc \in { "byEmail", "introduce" } =>
          Input(q)'.phone = None \/ (Input(q)' = Input(q) /\ req[q].pc \in { "byEmail", "introduce" })
    BY DEF Harmless, At, Input
  <2> QED BY <2>1, <2>2 DEF TextsKept
<1>4. ThreadsKept BY DEF ThreadsKept, Harmless, At
<1> QED BY <1>1, <1>2, <1>3, <1>4, FormsKeep, TextsKeep, ThreadsKeep

LEMMA GoesHarmless ==
  ASSUME NEW r \in Request, NEW to, Goes(r, to), to \cap { "create", "byEmail", "introduce", "upsert" } = {}
  PROVE  \A q \in Request : Harmless(q)
BY DEF Goes, Harmless

LEMMA FormStepForms ==
  ASSUME IntakeAssumption, Steps, NEW r \in Request, FormStep(r)
  PROVE  FormsInv' /\ TextsInv' /\ ThreadsInv' /\ KnownInv'
<1>1. TypeInv /\ customers \in Seq(Customer) BY DEF Steps, TypeInv, TypeOK
<1>2. CASE Match(r) BY <1>2, MatchForms
<1>3. CASE CreateCustomer(r) BY <1>3, CreateForms
<1>4. CASE FillCustomer(r)
  <2>1. Goes(r, { "recent" }) /\ threads' = threads BY <1>1, <1>4, FillGoes
  <2>2. CustomersKept
    <3>1. req[r].customer \in DOMAIN customers /\ Filled(req[r].email, Input(r).email) \in Emails
      BY <1>1, <1>4, FillType
    <3> QED BY <1>1, <1>4, <3>1, CustomersKeep DEF FillCustomer
  <2>3. \A q \in Request : Harmless(q) BY <2>1, GoesHarmless
  <2> QED BY <2>1, <2>2, <2>3, HarmlessForms
<1>5. CASE Recent(r) \/ OpenLead(r) \/ JoinLead(r) \/ Reserve(r) \/ Sms(r)
  <2>1. PICK to \in { { "join", "open" }, { "alert" }, { "sms", "idle" }, { "idle" } } : Goes(r, to)
    BY <1>1, <1>5, RecentGoes, OpenGoes, JoinGoes, ReserveGoes, SmsGoes
  <2>2. customers' = customers /\ threads' = threads
    BY <1>1, <1>5, RecentGoes, OpenGoes, JoinGoes, ReserveGoes, SmsGoes DEF rows
  <2>3. CustomersKept BY <1>1, <2>2, CustomersKeep
  <2>4. to \cap { "create", "byEmail", "introduce", "upsert" } = {} BY <2>1
  <2>5. \A q \in Request : Harmless(q) BY <2>1, <2>4, GoesHarmless
  <2> QED BY <2>2, <2>3, <2>5, HarmlessForms
<1> QED BY <1>2, <1>3, <1>4, <1>5 DEF FormStep

LEMMA MessageStepForms ==
  ASSUME Steps, NEW r \in Request, MessageStep(r)
  PROVE  FormsInv' /\ TextsInv' /\ ThreadsInv' /\ KnownInv'
<1>1. TypeInv /\ customers \in Seq(Customer) BY DEF Steps, TypeInv, TypeOK
<1>2. CASE CaptureLead(r)
  <2>1. Goes(r, { "thread", "idle" }) /\ customers' = customers /\ threads' = threads BY <1>1, <1>2, CaptureGoes
  <2>2. CustomersKept BY <1>1, <2>1, CustomersKeep
  <2>3. \A q \in Request : Harmless(q) BY <2>1, GoesHarmless
  <2> QED BY <2>1, <2>2, <2>3, HarmlessForms
<1> QED BY <1>2, FindForms, IntroduceForms, FindThreadForms, UpsertForms DEF MessageStep

LEMMA RecordsStep ==
  ASSUME IntakeAssumption, TypeInv, TypeInv', ApartInv', RecordsInv, [Next]_vars
  PROVE  RecordsInv'
<1>1. Steps BY HistoryGrows DEF Steps
<1>2. SUFFICES FormsInv' /\ TextsInv' /\ ThreadsInv' /\ KnownInv' BY DEF RecordsInv
<1>3. customers \in Seq(Customer) BY DEF TypeInv, TypeOK
<1>4. ASSUME NEW r \in Request, NEW f \in Forms, Submit(r, f) PROVE FormsInv' /\ TextsInv' /\ ThreadsInv' /\ KnownInv'
  <2>1. /\ \A p \in Request \ {r} : req'[p] = req[p]
        /\ At(r, "match")' /\ customers' = customers /\ threads' = threads
    BY <1>4, SubmitGoes DEF rows
  <2>2. CustomersKept BY <1>3, <2>1, CustomersKeep
  <2>3. \A q \in Request : Harmless(q) BY <2>1 DEF Harmless, At
  <2> QED BY <1>1, <2>1, <2>2, <2>3, HarmlessForms
<1>5. ASSUME NEW r \in Request, NEW m \in Messages, Receive(r, m)
      PROVE  FormsInv' /\ TextsInv' /\ ThreadsInv' /\ KnownInv'
  <2>1. /\ \A p \in Request \ {r} : req'[p] = req[p]
        /\ customers' = customers /\ threads' = threads
    BY <1>5, ReceiveGoes DEF rows
  <2>2. req'[r].pc \in { "byPhone", "byEmail" } /\ Input(r)' = m /\ (m.phone # None => At(r, "byPhone")')
    BY <1>5, ReceiveGoes
  <2>3. CustomersKept BY <1>3, <2>1, CustomersKeep
  <2>4. Harmless(r) BY <2>2 DEF Harmless, At
  <2>5. \A q \in Request : Harmless(q) BY <2>1, <2>4 DEF Harmless
  <2> QED BY <1>1, <2>1, <2>3, <2>5, HarmlessForms
<1>6. ASSUME NEW r \in Request, FormStep(r) \/ MessageStep(r)
      PROVE  FormsInv' /\ TextsInv' /\ ThreadsInv' /\ KnownInv'
  BY <1>1, <1>6, FormStepForms, MessageStepForms
<1>7. ASSUME NEW r \in Request, Drop(r) PROVE FormsInv' /\ TextsInv' /\ ThreadsInv' /\ KnownInv'
  <2>1. Goes(r, { "idle" }) /\ customers' = customers /\ threads' = threads BY <1>7, DropGoes DEF rows
  <2>2. CustomersKept BY <1>3, <2>1, CustomersKeep
  <2>3. \A q \in Request : Harmless(q) BY <2>1, GoesHarmless
  <2> QED BY <1>1, <2>1, <2>2, <2>3, HarmlessForms
<1>8. ASSUME NEW k \in DOMAIN customers, ArchiveCustomer(k) \/ \E e \in Emails : EditCustomer(k, e)
      PROVE  FormsInv' /\ TextsInv' /\ ThreadsInv' /\ KnownInv'
  <2>1. req' = req /\ threads' = threads BY <1>8 DEF ArchiveCustomer, EditCustomer
  <2>2. CustomersKept BY <1>3, <1>8, CustomersKeep DEF ArchiveCustomer, EditCustomer
  <2>3. \A q \in Request : Harmless(q) BY <2>1 DEF Harmless
  <2> QED BY <1>1, <2>1, <2>2, <2>3, HarmlessForms
<1>9. CASE Tick \/ UNCHANGED vars \/ \E l \in DOMAIN leads : CloseLead(l)
  <2>1. req' = req /\ threads' = threads /\ customers' = customers BY <1>9 DEF Tick, vars, rows, CloseLead
  <2>2. CustomersKept BY <1>3, <2>1, CustomersKeep
  <2>3. \A q \in Request : Harmless(q) BY <2>1 DEF Harmless
  <2> QED BY <1>1, <2>1, <2>2, <2>3, HarmlessForms
<1> QED BY <1>4, <1>5, <1>6, <1>7, <1>8, <1>9 DEF Next

LEMMA RecordsImply ==
  ASSUME IntakeAssumption, TypeInv, RecordsInv
  PROVE  RecordsBounded
<1>1. Allowance \in Nat /\ Allowance = 1 + overlaps + faults BY DEF TypeInv, TypeOK, Allowance
<1>2. ASSUME NEW k \in Standing, customers[k].phone # None, customers[k].source = "form" => ~Crowded(customers[k].phone)
      PROVE  Cardinality({ j \in Standing : Alike(customers[j], customers[k]) }) <= Allowance
  <2> DEFINE S == { j \in Standing : Alike(customers[j], customers[k]) }
  <2>1. customers[k] \in Customer BY DEF Standing, TypeInv, TypeOK
  <2>2. PICK p \in Phones : p = customers[k].phone BY <2>1 DEF Customer
  <2>3. PICK n \in Names : n = customers[k].name BY <2>1 DEF Customer
  <2>4. CASE customers[k].source = "form"
    <3>1. S \subseteq FormTwins(p, n) BY <2>2, <2>3, <2>4 DEF Alike, FormTwins, Standing
    <3>2. IsFiniteSet(FormTwins(p, n)) /\ IsFiniteSet(FormMakers(p, n)) BY RecordsFinite
    <3>3. PICK t \in Nat : t = Cardinality(FormTwins(p, n)) BY <3>2, FS_CardinalityType
    <3>4. PICK m \in Nat : m = Cardinality(FormMakers(p, n)) BY <3>2, FS_CardinalityType
    <3>5. t + m <= Allowance BY <1>2, <2>2, <2>4, <3>3, <3>4 DEF RecordsInv, FormsInv
    <3>6. Cardinality(S) \in Nat /\ Cardinality(S) <= t BY <3>1, <3>2, <3>3, Fewer
    <3> QED BY <1>1, <3>5, <3>6
  <2>5. CASE customers[k].source = "message"
    <3>1. S \subseteq TextTwins(p) BY <2>2, <2>5 DEF Alike, TextTwins
    <3>2. IsFiniteSet(TextTwins(p)) /\ IsFiniteSet(TextMakers(p)) BY RecordsFinite
    <3>3. PICK t \in Nat : t = Cardinality(TextTwins(p)) BY <3>2, FS_CardinalityType
    <3>4. PICK m \in Nat : m = Cardinality(TextMakers(p)) BY <3>2, FS_CardinalityType
    <3>5. t + m <= Allowance BY <1>2, <2>2, <3>3, <3>4 DEF RecordsInv, TextsInv
    <3>6. Cardinality(S) \in Nat /\ Cardinality(S) <= t BY <3>1, <3>2, <3>3, Fewer
    <3> QED BY <1>1, <3>5, <3>6
  <2> QED BY <2>1, <2>4, <2>5 DEF Customer
<1>3. ASSUME NEW i \in DOMAIN threads PROVE Cardinality(ThreadIds(threads[i].contact)) <= Allowance
  <2>1. threads[i] \in Thread BY DEF TypeInv, TypeOK
  <2>2. PICK c \in Contacts : c = threads[i].contact BY <2>1 DEF Thread
  <2>3. IsFiniteSet(ThreadIds(c)) /\ IsFiniteSet(ThreadMakers(c)) BY RecordsFinite
  <2>4. PICK t \in Nat : t = Cardinality(ThreadIds(c)) BY <2>3, FS_CardinalityType
  <2>5. PICK m \in Nat : m = Cardinality(ThreadMakers(c)) BY <2>3, FS_CardinalityType
  <2>6. t + m <= Allowance BY <2>4, <2>5 DEF RecordsInv, ThreadsInv
  <2>7. t <= Allowance BY <1>1, <2>6
  <2> QED BY <2>2, <2>4, <2>7
<1> QED BY <1>1, <1>2, <1>3 DEF RecordsBounded

\* One person's forms, one number's messages and one contact's thread are kept in one
\* record, but for one more by each request that overlapped and each fault.
THEOREM RecordsCorrect == IntakeAssumption => (Spec => []RecordsBounded)
<1> SUFFICES ASSUME IntakeAssumption PROVE Spec => []RecordsBounded OBVIOUS
<1>1. Init => ApartInv /\ RecordsInv BY ApartInit, RecordsInit
<1>2. TypeInv /\ TypeInv' /\ ApartInv /\ RecordsInv /\ [Next]_vars => ApartInv' /\ RecordsInv' BY ApartStep, RecordsStep
<1>3. TypeInv /\ RecordsInv => RecordsBounded BY RecordsImply
<1>4. Spec => []TypeInv BY TypeCorrect
<1> QED BY <1>1, <1>2, <1>3, <1>4, PTL DEF Spec

-----------------------------------------------------------------------------
(* Leads that are bypassed.                                                *)

Looking == { "match", "create", "fill", "recent" }
PrintOf(r) == Fingerprint(Input(r))

\* Forms that were accepted, or will be as soon as the office has been told.
Due == accepted \cup { [lead |-> req[r].lead, at |-> req[r].at] : r \in { q \in Request : req[q].pc \in { "alert", "sms" } } }

\* A lead that a form sent at that time is taken to repeat.
Repeatable(l, at) == leads[l].open /\ at - leads[l].last <= Window

\* What a form that looks for its lead may bypass besides D is one lead at most, and what
\* one that has not found it will bypass is in D.
CoversRequest(D, r) ==
  /\ req[r].pc \in Looking =>
       \A l, m \in req[r].repeated : l \notin D /\ m \notin D /\ leads[l].open /\ leads[m].open => l = m
  /\ At(r, "open") => \A l \in req[r].repeated : leads[l].open => l \in D

\* D has the leads that were bypassed and those that may be: the ones whose stamp was
\* set back, and of the leads that may be repeated now all but one of each fingerprint.
CoversRows(D) ==
  /\ bypassed \subseteq D
  /\ \A d \in Due : d.lead \in D \/ d.at <= leads[d.lead].last
  /\ \A l, m \in DOMAIN leads :
       /\ l \notin D /\ m \notin D /\ Repeatable(l, now) /\ Repeatable(m, now)
       /\ leads[l].fingerprint = leads[m].fingerprint /\ leads[l].fingerprint # None
       => l = m
Covers(D) == CoversRows(D) /\ \A r \in Request : CoversRequest(D, r)

\* No form has been written since r was sent: it makes no lead beside one that may be
\* repeated, and sets no stamp back.
QuietFor(D, r) ==
  /\ \A l \in DOMAIN leads : leads[l].fingerprint # None => leads[l].last <= req[r].at
  /\ \A d \in Due : d.at <= req[r].at
  /\ req[r].pc \in Looking =>
       \A l, m \in OpenOf(PrintOf(r)) : l \notin D /\ m \notin D /\ Repeatable(l, req[r].at) /\ Repeatable(m, req[r].at) => l = m
  /\ At(r, "open") => \A l \in OpenOf(PrintOf(r)) : Repeatable(l, req[r].at) => l \in D
  /\ At(r, "join") => \A l \in OpenOf(PrintOf(r)) : leads[l].last <= leads[req[r].lead].last
Quiet(D) == Unled # {} /\ \A r \in Unled : QuietFor(D, r)

\* What a form repeats was accepted within its window.
Promised(r) ==
  req[r].pc \in FormPC =>
    \A l \in req[r].repeated : leads[l].fingerprint = PrintOf(r) /\ \E a \in accepted : a.lead = l /\ req[r].at - a.at <= Window

\* Each form without a lead may add one to D, and has an overlap of its own, or is one
\* of those that came after the last form was written.
Affords(D) ==
  \/ Cardinality(D) + Cardinality(Unled) <= overlaps + faults
  \/ Cardinality(D) + Cardinality(Unled) <= overlaps + faults + 1 /\ Quiet(D)
BypassedInv ==
  /\ \A r \in Request : Promised(r)
  /\ \E D \in SUBSET DOMAIN leads : Covers(D) /\ Affords(D)

LEMMA LeadsAre ==
  ASSUME TypeInv
  PROVE  /\ \A l \in DOMAIN leads : leads[l].last \in Nat /\ leads[l].open \in BOOLEAN
         /\ \A r \in Request : req[r].at \in Nat /\ req[r].at <= now
         /\ now \in Nat /\ overlaps \in Nat /\ faults \in Nat
         /\ \A d \in Due : d.lead \in DOMAIN leads /\ d.at \in Nat /\ d.at <= now
<1>1. \A l \in DOMAIN leads : leads[l] \in Lead BY DEF TypeInv, TypeOK
<1>2. \A r \in Request : req[r] \in Row /\ req[r].at <= now BY DEF TypeInv, TypeOK, Refers, Equipped
<1>3. now \in Nat /\ overlaps \in Nat /\ faults \in Nat BY DEF TypeInv, TypeOK
<1>4. \A a \in accepted : a.lead \in DOMAIN leads /\ a.at \in Nat /\ a.at <= now BY DEF TypeInv, TypeOK, Refers
<1>5. \A r \in Request : req[r].pc \in { "alert", "sms" } => req[r].lead \in DOMAIN leads
  BY DEF TypeInv, Refers, Equipped, WithLead
<1>6. \A r \in Request : req[r].at \in Nat BY <1>2 DEF Row
<1> QED BY <1>1, <1>2, <1>3, <1>4, <1>5, <1>6 DEF Lead, Due

LEMMA SubsetsCount ==
  ASSUME TypeInv, NEW D, D \subseteq DOMAIN leads
  PROVE  IsFiniteSet(D) /\ Cardinality(D) \in Nat
<1>1. leads \in Seq(Lead) BY DEF TypeInv, TypeOK
<1>2. DOMAIN leads = 1 .. Len(leads) /\ Len(leads) \in Nat BY <1>1
<1>3. IsFiniteSet(DOMAIN leads) BY <1>2, FS_Interval
<1> QED BY <1>3, Fewer

\* What a step leaves of the leads and the forms that were accepted, unless it is one of a
\* form that writes its lead.
LeadsKept ==
  /\ \A l \in DOMAIN leads : /\ l \in DOMAIN leads' /\ leads'[l].fingerprint = leads[l].fingerprint
                             /\ leads'[l].last = leads[l].last /\ (leads'[l].open => leads[l].open)
  /\ \A l \in DOMAIN leads' : l \in DOMAIN leads \/ leads'[l].fingerprint = None
  /\ now <= now' /\ bypassed' = bypassed /\ accepted \subseteq accepted' /\ Due' \subseteq Due

LEMMA RowsCovered ==
  ASSUME IntakeAssumption, TypeInv, TypeInv', LeadsKept, NEW D \in SUBSET DOMAIN leads, CoversRows(D)
  PROVE  CoversRows(D)' /\ D \in SUBSET DOMAIN leads'
<1>1. D \in SUBSET DOMAIN leads' BY DEF LeadsKept
<1>2. bypassed' \subseteq D BY DEF LeadsKept, CoversRows
<1>3. \A d \in Due' : d.lead \in D \/ d.at <= leads'[d.lead].last BY LeadsAre DEF LeadsKept, CoversRows
<1>4. ASSUME NEW l \in DOMAIN leads', NEW m \in DOMAIN leads', l \notin D, m \notin D,
             Repeatable(l, now)', Repeatable(m, now)',
             leads'[l].fingerprint = leads'[m].fingerprint, leads'[l].fingerprint # None
      PROVE  l = m
  <2>1. l \in DOMAIN leads /\ m \in DOMAIN leads BY <1>4 DEF LeadsKept
  <2>2. leads[l].fingerprint = leads[m].fingerprint /\ leads[l].fingerprint # None BY <1>4, <2>1 DEF LeadsKept
  <2>3. \A k \in DOMAIN leads : Repeatable(k, now)' => Repeatable(k, now)
    <3> SUFFICES ASSUME NEW k \in DOMAIN leads, Repeatable(k, now)' PROVE Repeatable(k, now) OBVIOUS
    <3>1. leads[k].open /\ now' - leads[k].last <= Window BY DEF Repeatable, LeadsKept
    <3>2. PICK n \in Nat, n2 \in Nat, t \in Nat : n = now /\ n2 = now' /\ t = leads[k].last BY LeadsAre DEF TypeInv, TypeOK
    <3>3. n <= n2 BY <3>2 DEF LeadsKept
    <3>4. n2 - t <= Window BY <3>1, <3>2
    <3>5. n - t <= Window BY <3>2, <3>3, <3>4 DEF IntakeAssumption
    <3> QED BY <3>1, <3>2, <3>5 DEF Repeatable
  <2> QED BY <1>4, <2>1, <2>2, <2>3 DEF CoversRows
<1> QED BY <1>1, <1>2, <1>3, <1>4 DEF CoversRows

\* A request that goes on as before, looks on, or does not look.
Follows(p) ==
  \/ /\ req[p].pc \in Looking /\ req'[p].pc \in Looking
     /\ req'[p].repeated = req[p].repeated /\ req'[p].at = req[p].at /\ Input(p)' = Input(p)
  \/ req'[p] = req[p]
  \/ req'[p].pc \notin Looking \cup { "open", "join" }

LEMMA RequestCovered ==
  ASSUME TypeInv, LeadsKept, NEW D, NEW p \in Request, CoversRequest(D, p), Follows(p)
  PROVE  CoversRequest(D, p)'
<1>1. \A l \in req[p].repeated : l \in DOMAIN leads BY DEF TypeInv, Refers, Equipped
<1>2. \A l \in req[p].repeated : leads'[l].open => leads[l].open BY <1>1 DEF LeadsKept
<1>3. CASE req'[p].pc \notin Looking \cup { "open", "join" } BY <1>3 DEF CoversRequest, At
<1>4. CASE req'[p] = req[p] BY <1>2, <1>4 DEF CoversRequest, At
<1>5. CASE /\ req[p].pc \in Looking /\ req'[p].pc \in Looking
           /\ req'[p].repeated = req[p].repeated
  BY <1>2, <1>5 DEF CoversRequest, At, Looking
<1> QED BY <1>3, <1>4, <1>5 DEF Follows

LEMMA QuietStays ==
  ASSUME IntakeAssumption, TypeInv, LeadsKept, NEW D, NEW p \in Unled, QuietFor(D, p), Follows(p), p \in Unled'
  PROVE  QuietFor(D, p)'
<1>1. req'[p].at = req[p].at /\ Input(p)' = Input(p)
  BY DEF Follows, Input, Unled, Looking
<1>2. PrintOf(p)' = PrintOf(p) BY <1>1 DEF PrintOf, Fingerprint
<1>3. Input(p) \in Forms BY DEF TypeInv, Refers, Equipped, Unled, FormPC
<1>4. PrintOf(p) # None BY <1>3 DEF PrintOf, Fingerprint, normalizePhone, IntakeAssumption
<1>5. \A l \in OpenOf(PrintOf(p))' : l \in OpenOf(PrintOf(p)) /\ leads'[l].last = leads[l].last
  BY <1>2, <1>4 DEF OpenOf, LeadsKept
<1>6. \A l \in OpenOf(PrintOf(p))' : Repeatable(l, req[p].at)' => Repeatable(l, req[p].at)
  BY <1>1, <1>5 DEF Repeatable, OpenOf
<1>7. \A l \in DOMAIN leads' : leads'[l].fingerprint # None => leads'[l].last <= req'[p].at
  BY <1>1 DEF QuietFor, LeadsKept
<1>8. \A d \in Due' : d.at <= req'[p].at BY <1>1 DEF QuietFor, LeadsKept
<1>9. req'[p].pc \in Looking => req[p].pc \in Looking BY DEF Follows
<1>10. (At(p, "open")' => At(p, "open")) BY DEF Follows, At, Looking
<1>11. At(p, "join")' => At(p, "join") /\ req'[p].lead = req[p].lead /\ req[p].lead \in DOMAIN leads
  BY DEF Follows, At, Looking, TypeInv, Refers, Equipped, WithLead, Unled
<1>12. At(p, "join")' => leads'[req'[p].lead].last = leads[req[p].lead].last BY <1>11 DEF LeadsKept
<1> QED BY <1>1, <1>2, <1>5, <1>6, <1>7, <1>8, <1>9, <1>10, <1>11, <1>12 DEF QuietFor

LEMMA PromiseKept ==
  ASSUME TypeInv, NEW p \in Request, Promised(p),
         \A l \in DOMAIN leads : leads'[l].fingerprint = leads[l].fingerprint, accepted \subseteq accepted',
         req'[p].pc \in FormPC => /\ req[p].pc \in FormPC /\ req'[p].repeated = req[p].repeated
                                  /\ req'[p].at = req[p].at /\ Input(p)' = Input(p)
  PROVE  Promised(p)'
<1>1. \A l \in req[p].repeated : l \in DOMAIN leads BY DEF TypeInv, Refers, Equipped
<1> QED BY <1>1 DEF Promised, PrintOf, Fingerprint

LEMMA UnledIs ==
  ASSUME IsFiniteSet(Request)
  PROVE  IsFiniteSet(Unled) /\ Cardinality(Unled) \in Nat /\ Unled \subseteq Request
BY UnledCount DEF Unled

\* A step that writes no form's lead and leaves D as it is; one that fails pays for it.
LEMMA BypassedOn ==
  ASSUME IntakeAssumption, TypeInv, TypeInv', BypassedInv, LeadsKept,
         \A p \in Request : Promised(p)', Unled' \subseteq Unled, overlaps <= overlaps',
         faults' = faults + 1 \/ (faults' = faults /\ Unled' = Unled),
         \A D \in SUBSET DOMAIN leads : \A p \in Request : Covers(D) => CoversRequest(D, p)',
         \A D \in SUBSET DOMAIN leads : Covers(D) /\ Quiet(D) /\ faults' = faults => \A p \in Unled : QuietFor(D, p)'
  PROVE  BypassedInv'
<1>1. PICK D \in SUBSET DOMAIN leads : Covers(D) /\ Affords(D) BY DEF BypassedInv
<1>2. Covers(D)' /\ D \in SUBSET DOMAIN leads' BY <1>1, RowsCovered DEF Covers
<1>3. IsFiniteSet(Unled) /\ Cardinality(Unled) \in Nat /\ Cardinality(Unled') \in Nat /\ Cardinality(Unled') <= Cardinality(Unled)
  BY UnledIs, Fewer DEF IntakeAssumption
<1>4. PICK c \in Nat, u \in Nat, u2 \in Nat :
        c = Cardinality(D) /\ u = Cardinality(Unled) /\ u2 = Cardinality(Unled')
  BY <1>1, <1>3, SubsetsCount
<1>5. PICK o \in Nat, o2 \in Nat, f \in Nat, f2 \in Nat :
        o = overlaps /\ o2 = overlaps' /\ f = faults /\ f2 = faults'
  BY DEF TypeInv, TypeOK
<1>6. u2 <= u /\ o <= o2 /\ (f2 = f + 1 \/ (f2 = f /\ u2 = u)) BY <1>3, <1>4, <1>5
<1>7. c + u <= o + f \/ (c + u <= o + f + 1 /\ Quiet(D)) BY <1>1, <1>4, <1>5 DEF Affords
<1>8. CASE c + u <= o + f \/ f2 = f + 1
  <2>1. c + u2 <= o2 + f2 BY ONLY <1>6, <1>7, <1>8
  <2>2. Affords(D)' BY <1>4, <1>5, <2>1 DEF Affords
  <2> QED BY <1>2, <2>2 DEF BypassedInv
<1>9. CASE f2 # f + 1 /\ c + u <= o + f + 1 /\ Quiet(D)
  <2>1. c + u2 <= o2 + f2 + 1 BY ONLY <1>6, <1>9
  <2>2. Quiet(D)' BY <1>1, <1>5, <1>6, <1>9 DEF Quiet
  <2>3. Affords(D)' BY <1>4, <1>5, <2>1, <2>2 DEF Affords
  <2> QED BY <1>2, <2>3 DEF BypassedInv
<1> QED BY <1>7, <1>8, <1>9, <1>6

\* Such a step by a request that looks on, or by none.
LEMMA BypassedFollows ==
  ASSUME IntakeAssumption, TypeInv, TypeInv', BypassedInv, LeadsKept,
         \A p \in Request : Promised(p)' /\ Follows(p), Unled' \subseteq Unled, overlaps <= overlaps',
         faults' = faults + 1 \/ (faults' = faults /\ Unled' = Unled)
  PROVE  BypassedInv'
<1>1. \A D \in SUBSET DOMAIN leads : \A p \in Request : Covers(D) => CoversRequest(D, p)'
  BY RequestCovered DEF Covers
<1>2. ASSUME NEW D \in SUBSET DOMAIN leads, Quiet(D), faults' = faults PROVE \A p \in Unled : QuietFor(D, p)'
  <2>1. Unled' = Unled BY <1>2 DEF TypeInv, TypeOK
  <2> SUFFICES ASSUME NEW p \in Unled PROVE QuietFor(D, p)' OBVIOUS
  <2>2. QuietFor(D, p) /\ p \in Unled' /\ Follows(p) BY <1>2, <2>1 DEF Quiet, Unled
  <2> QED BY <2>2, QuietStays
<1> QED BY <1>1, <1>2, BypassedOn

Looks == Looking \cup { "open", "join" }

\* A request goes on that looks on, or does not look any more.
LEMMA BypassedGoes ==
  ASSUME IntakeAssumption, TypeInv, TypeInv', BypassedInv, LeadsKept, NEW r \in Request, NEW to, Goes(r, to),
         overlaps <= overlaps', faults' = faults \/ faults' = faults + 1,
         \/ req[r].pc \in Looking /\ to \subseteq Looking
         \/ /\ to \cap Looks = {} /\ (req[r].pc \notin Looks \/ faults' = faults + 1)
            /\ req[r].pc \in FormPC \/ to \cap FormPC = {}
  PROVE  BypassedInv'
<1>1. /\ \A p \in Request \ {r} : req'[p] = req[p]
      /\ req'[r].pc \in to
      /\ req'[r].pc # "idle" => Input(r)' = Input(r) /\ req'[r].at = req[r].at /\ req'[r].repeated = req[r].repeated
  BY DEF Goes, Input
<1>2. req'[r].pc \in FormPC => req[r].pc \in FormPC /\ req'[r].pc # "idle" BY <1>1 DEF FormPC, Looking
<1>3. \A p \in Request : Promised(p)'
  <2> SUFFICES ASSUME NEW p \in Request PROVE Promised(p)' OBVIOUS
  <2>1. Promised(p) BY DEF BypassedInv
  <2>2. req'[p].pc \in FormPC => /\ req[p].pc \in FormPC /\ req'[p].repeated = req[p].repeated
                                 /\ req'[p].at = req[p].at /\ Input(p)' = Input(p)
    <3>1. CASE p = r BY <1>1, <1>2, <3>1
    <3>2. CASE p # r BY <1>1, <3>2 DEF Input
    <3> QED BY <3>1, <3>2
  <2> QED BY <2>1, <2>2, PromiseKept DEF LeadsKept
<1>4. \A p \in Request : Follows(p)
  <2>1. Follows(r) BY <1>1 DEF Follows, Looking, Looks
  <2>2. \A p \in Request \ {r} : Follows(p) BY <1>1 DEF Follows
  <2> QED BY <2>1, <2>2
<1>5. \A p \in Request \ {r} : p \in Unled' <=> p \in Unled BY <1>1 DEF Unled
<1>6. r \in Unled' => r \in Unled BY <1>1 DEF Unled, Looking, Looks
<1>7. Unled' \subseteq Unled /\ Unled \subseteq Request BY <1>5, <1>6 DEF Unled
<1>8. faults' = faults + 1 \/ (faults' = faults /\ Unled' = Unled)
  <2>1. CASE req[r].pc \in Looking /\ to \subseteq Looking
    <3>1. r \in Unled' BY <1>1, <2>1 DEF Unled, Looking
    <3>2. Unled' = Unled BY <1>5, <1>7, <3>1
    <3> QED BY <3>2
  <2>2. CASE to \cap Looks = {} /\ req[r].pc \notin Looks
    <3>1. r \notin Unled BY <2>2 DEF Unled, Looks, Looking
    <3>2. Unled' = Unled BY <1>5, <1>7, <3>1
    <3> QED BY <3>2
  <2> QED BY <2>1, <2>2
<1> QED BY <1>3, <1>4, <1>7, <1>8, BypassedFollows

\* None goes on.
LEMMA BypassedStill ==
  ASSUME IntakeAssumption, TypeInv, TypeInv', BypassedInv, LeadsKept, UNCHANGED << req, faults >>, overlaps <= overlaps'
  PROVE  BypassedInv'
<1>1. \A p \in Request : Follows(p) BY DEF Follows
<1>2. \A p \in Request : Promised(p)'
  <2> SUFFICES ASSUME NEW p \in Request PROVE Promised(p)' OBVIOUS
  <2>1. Promised(p) BY DEF BypassedInv
  <2>2. req'[p] = req[p] /\ Input(p)' = Input(p) BY DEF Input
  <2> QED BY <2>1, <2>2, PromiseKept DEF LeadsKept
<1>3. Unled' = Unled BY DEF Unled
<1> QED BY <1>1, <1>2, <1>3, BypassedFollows

\* The leads are kept where none is written and no form accepted that was not due.
LEMMA DueStays ==
  ASSUME TypeInv, NEW r \in Request, \A p \in Request \ {r} : req'[p] = req[p],
         req'[r].pc \in { "alert", "sms" } => req[r].pc \in { "alert", "sms" } /\ req'[r].lead = req[r].lead /\ req'[r].at = req[r].at,
         accepted' \subseteq Due
  PROVE  Due' \subseteq Due
<1> SUFFICES ASSUME NEW d \in Due' PROVE d \in Due OBVIOUS
<1>1. CASE d \in accepted' BY <1>1
<1>2. ASSUME NEW p \in Request, req'[p].pc \in { "alert", "sms" }, d = [lead |-> req'[p].lead, at |-> req'[p].at] PROVE d \in Due
  <2>1. req[p].pc \in { "alert", "sms" } /\ req'[p].lead = req[p].lead /\ req'[p].at = req[p].at
    <3>1. CASE p = r BY <1>2, <3>1
    <3>2. CASE p # r BY <1>2, <3>2
    <3> QED BY <3>1, <3>2
  <2> QED BY <1>2, <2>1 DEF Due
<1> QED BY <1>1, <1>2 DEF Due

LEMMA LeadsKeep ==
  ASSUME TypeInv, UNCHANGED << leads, bypassed >>, now <= now', accepted \subseteq accepted', Due' \subseteq Due
  PROVE  LeadsKept
BY DEF LeadsKept

\* A form answered with success was due.
LEMMA AnsweredDue ==
  ASSUME NEW r \in Request, req[r].pc \in { "alert", "sms" }
  PROVE  accepted \cup { [lead |-> req[r].lead, at |-> req[r].at] } \subseteq Due
BY DEF Due

LEMMA AcceptedDue == accepted \subseteq Due
BY DEF Due

\* A form looks for its lead: what it goes on without, unless a call failed, was set back.
LEMMA RepeatedIsLast ==
  ASSUME IntakeAssumption, TypeInv, NEW D, CoversRows(D), NEW r \in Request, Promised(r), req[r].pc \in FormPC,
         NEW l \in req[r].repeated, l \notin D, leads[l].open
  PROVE  l \in OpenOf(PrintOf(r)) /\ Repeatable(l, req[r].at)
<1>1. leads[l].fingerprint = PrintOf(r) /\ l \in DOMAIN leads BY DEF Promised, TypeInv, Refers, Equipped
<1>2. PICK a \in accepted : a.lead = l /\ req[r].at - a.at <= Window BY DEF Promised
<1>3. a.at <= leads[l].last BY <1>2, AcceptedDue DEF CoversRows
<1>4. PICK t \in Nat, n \in Nat, m \in Nat, w \in Nat : t = req[r].at /\ n = a.at /\ m = leads[l].last /\ w = Window
  BY <1>1, <1>2, LeadsAre, AcceptedDue DEF IntakeAssumption
<1>5. t - n <= w /\ n <= m BY <1>2, <1>3, <1>4
<1>6. t - m <= w BY ONLY <1>5
<1> QED BY <1>1, <1>4, <1>6 DEF OpenOf, Repeatable

LEMMA NoneRepeatable ==
  ASSUME IntakeAssumption, TypeInv, NEW r \in Request, ~Repeats(r)
  PROVE  \A l \in OpenOf(PrintOf(r)) : ~Repeatable(l, req[r].at)
<1> SUFFICES ASSUME NEW l \in OpenOf(PrintOf(r)), Repeatable(l, req[r].at) PROVE FALSE OBVIOUS
<1>1. PICK k : k = NewestOf(PrintOf(r)) OBVIOUS
<1>2. k \in DOMAIN leads /\ leads[l].last <= leads[k].last BY <1>1, NewestIs
<1>3. PICK t \in Nat, n \in Nat, m \in Nat, w \in Nat : t = req[r].at /\ n = leads[l].last /\ m = leads[k].last /\ w = Window
  BY <1>2, LeadsAre DEF IntakeAssumption, OpenOf
<1>4. t - n <= w /\ n <= m BY <1>2, <1>3 DEF Repeatable
<1>5. t - m <= w BY ONLY <1>4
<1>6. OpenOf(PrintOf(r)) # {} OBVIOUS
<1> QED BY <1>1, <1>3, <1>5, <1>6 DEF Repeats, PrintOf, isWithinLeadDedupeWindow

LEMMA BypassedRecent ==
  ASSUME IntakeAssumption, TypeInv, TypeInv', BypassedInv, NEW r \in Request, Recent(r)
  PROVE  BypassedInv'
<1>1. At(r, "recent") /\ Goes(r, { "join", "open" }) /\ UNCHANGED << rows, now, history >> BY RecentGoes
<1>2. /\ \A p \in Request \ {r} : req'[p] = req[p]
      /\ req'[r].pc \in { "join", "open" }
      /\ Input(r)' = Input(r) /\ req'[r].at = req[r].at /\ req'[r].repeated = req[r].repeated
  BY <1>1 DEF Goes, Input
<1>3. UNCHANGED << leads, now, accepted, bypassed, overlaps >> BY <1>1 DEF rows, history
<1>4. Due' \subseteq Due BY <1>2, <1>3, DueStays, AcceptedDue
<1>5. LeadsKept BY <1>3, <1>4, LeadsKeep DEF TypeInv, TypeOK
<1>6. \A p \in Request : Promised(p)'
  <2> SUFFICES ASSUME NEW p \in Request PROVE Promised(p)' OBVIOUS
  <2>1. Promised(p) BY DEF BypassedInv
  <2>2. req'[p].pc \in FormPC => /\ req[p].pc \in FormPC /\ req'[p].repeated = req[p].repeated
                                 /\ req'[p].at = req[p].at /\ Input(p)' = Input(p)
    <3>1. CASE p = r BY <1>1, <1>2, <3>1 DEF At, FormPC
    <3>2. CASE p # r BY <1>2, <3>2 DEF Input
    <3> QED BY <3>1, <3>2
  <2> QED BY <2>1, <2>2, <1>3, PromiseKept
<1>7. Unled' = Unled BY <1>1, <1>2 DEF Unled, At
<1>8. \A p \in Request \ {r} : Follows(p) BY <1>2 DEF Follows
<1>9. r \in Unled /\ req[r].pc \in Looking /\ req[r].pc \in FormPC /\ Promised(r)
  BY <1>1 DEF Unled, Looking, FormPC, At, BypassedInv
<1>10. PrintOf(r)' = PrintOf(r) /\ OpenOf(PrintOf(r))' = OpenOf(PrintOf(r)) BY <1>2, <1>3 DEF PrintOf, Fingerprint, OpenOf
<1>11. overlaps <= overlaps' /\ overlaps' = overlaps /\ overlaps \in Nat /\ faults \in Nat BY <1>3 DEF TypeInv, TypeOK
\* None was found, and no call failed, or one was found.
<1>12. ASSUME UNCHANGED faults,
              \A D \in SUBSET DOMAIN leads : Covers(D) => CoversRequest(D, r)',
              \A D \in SUBSET DOMAIN leads : QuietFor(D, r) => QuietFor(D, r)'
       PROVE  BypassedInv'
  <2>1. \A D \in SUBSET DOMAIN leads : \A p \in Request : Covers(D) => CoversRequest(D, p)'
    BY <1>5, <1>8, <1>12, RequestCovered DEF Covers
  <2>2. ASSUME NEW D \in SUBSET DOMAIN leads, Quiet(D) PROVE \A p \in Unled : QuietFor(D, p)'
    <3> SUFFICES ASSUME NEW p \in Unled PROVE QuietFor(D, p)' OBVIOUS
    <3>1. QuietFor(D, p) BY <2>2 DEF Quiet
    <3>2. CASE p = r BY <1>12, <3>1, <3>2
    <3>3. CASE p # r
      <4>1. Follows(p) /\ p \in Unled' BY <1>7, <1>8, <3>3 DEF Unled
      <4> QED BY <1>5, <3>1, <4>1, QuietStays
    <3> QED BY <3>2, <3>3
  <2> QED BY <1>5, <1>6, <1>7, <1>11, <1>12, <2>1, <2>2, BypassedOn
<1>13. CASE req'[r].pc = "join"
  <2>1. Repeats(r) /\ req'[r].lead = NewestOf(PrintOf(r)) /\ UNCHANGED faults
    BY <1>1, <1>13, RecentGoes DEF PrintOf, bounds
  <2>2. PICK k : k = NewestOf(PrintOf(r)) OBVIOUS
  <2>3. \A l \in OpenOf(PrintOf(r)) : leads[l].last <= leads[k].last BY <2>1, <2>2, NewestIs DEF Repeats, PrintOf
  <2>4. \A D : CoversRequest(D, r)' BY <1>13 DEF CoversRequest, At, Looking
  <2>5. ASSUME NEW D, QuietFor(D, r) PROVE QuietFor(D, r)'
    <3>1. \A l \in OpenOf(PrintOf(r))' : leads'[l].last <= leads'[req'[r].lead].last BY <1>3, <1>10, <2>1, <2>2, <2>3
    <3>2. \A l \in DOMAIN leads' : leads'[l].fingerprint # None => leads'[l].last <= req'[r].at BY <1>2, <1>3, <2>5 DEF QuietFor
    <3>3. \A d \in Due' : d.at <= req'[r].at BY <1>2, <1>4, <2>5 DEF QuietFor
    <3> QED BY <1>13, <3>1, <3>2, <3>3 DEF QuietFor, At, Looking
  <2> QED BY <1>12, <2>1, <2>4, <2>5
<1>14. CASE req'[r].pc = "open" /\ ~Repeats(r) /\ UNCHANGED faults
  <2>1. \A l \in OpenOf(PrintOf(r)) : ~Repeatable(l, req[r].at) BY <1>14, NoneRepeatable
  <2>2. ASSUME NEW D, Covers(D) PROVE CoversRequest(D, r)'
    <3>1. \A l \in req[r].repeated : leads[l].open => l \in D BY <1>9, <2>1, <2>2, RepeatedIsLast DEF Covers
    <3> QED BY <1>2, <1>3, <1>14, <3>1 DEF CoversRequest, At, Looking
  <2>3. ASSUME NEW D, QuietFor(D, r) PROVE QuietFor(D, r)'
    <3>1. \A l \in OpenOf(PrintOf(r))' : ~Repeatable(l, req[r].at)' BY <1>2, <1>3, <1>10, <2>1 DEF Repeatable
    <3>2. \A l \in DOMAIN leads' : leads'[l].fingerprint # None => leads'[l].last <= req'[r].at BY <1>2, <1>3, <2>3 DEF QuietFor
    <3>3. \A d \in Due' : d.at <= req'[r].at BY <1>2, <1>4, <2>3 DEF QuietFor
    <3> QED BY <1>2, <1>14, <3>1, <3>2, <3>3 DEF QuietFor, At, Looking
  <2> QED BY <1>12, <1>14, <2>2, <2>3
\* The read failed: the one lead the form would have joined, if any, is now in D.
<1>15. CASE req'[r].pc = "open" /\ faults' = faults + 1
  <2>1. PICK D \in SUBSET DOMAIN leads : Covers(D) /\ Affords(D) BY DEF BypassedInv
  <2> DEFINE Lost == IF Quiet(D) THEN { l \in OpenOf(PrintOf(r)) : l \notin D /\ Repeatable(l, req[r].at) }
                     ELSE { l \in req[r].repeated : l \notin D /\ leads[l].open }
  <2>2. \A l, m \in Lost : l = m
    <3>1. CASE Quiet(D)
      <4>1. QuietFor(D, r) BY <1>9, <3>1 DEF Quiet
      <4> QED BY <1>9, <3>1, <4>1 DEF QuietFor
    <3>2. CASE ~Quiet(D)
      <4>1. CoversRequest(D, r) BY <2>1 DEF Covers
      <4> QED BY <1>9, <3>2, <4>1 DEF CoversRequest
    <3> QED BY <3>1, <3>2
  <2>3. \A l \in req[r].repeated : leads[l].open => l \in D \cup Lost BY <1>9, <2>1, RepeatedIsLast DEF Covers
  <2>4. Quiet(D) => \A l \in OpenOf(PrintOf(r)) : Repeatable(l, req[r].at) => l \in D \cup Lost OBVIOUS
  <2>5. Lost \subseteq DOMAIN leads BY DEF OpenOf, TypeInv, Refers, Equipped
  <2>6. PICK E \in SUBSET DOMAIN leads :
          /\ E = D \cup Lost /\ Cardinality(E) \in Nat /\ Cardinality(E) <= Cardinality(D) + 1
    <3>1. IsFiniteSet(D) /\ Cardinality(D) \in Nat BY SubsetsCount
    <3>2. \E x : D \cup Lost \subseteq D \cup {x} BY <2>2
    <3>3. Cardinality(D \cup Lost) \in Nat /\ Cardinality(D \cup Lost) <= Cardinality(D) + 1 BY <3>1, <3>2, OneMore
    <3> QED BY <2>5, <3>3
  <2> HIDE DEF Lost
  <2>7. CoversRows(E) BY <2>1, <2>6 DEF Covers, CoversRows
  <2>8. CoversRows(E)' /\ E \in SUBSET DOMAIN leads' BY <1>5, <2>7, RowsCovered
  <2>9. ASSUME NEW p \in Request PROVE CoversRequest(E, p)'
    <3>1. CASE p = r BY <1>2, <1>3, <1>15, <2>3, <2>6, <3>1 DEF CoversRequest, At, Looking
    <3>2. CASE p # r
      <4>1. CoversRequest(D, p) BY <2>1 DEF Covers
      <4>2. CoversRequest(E, p) BY <2>6, <4>1 DEF CoversRequest
      <4> QED BY <1>5, <1>8, <3>2, <4>2, RequestCovered
    <3> QED BY <3>1, <3>2
  <2>10. Covers(E)' BY <2>8, <2>9 DEF Covers
  <2>11. Quiet(D) => Quiet(E)'
    <3> SUFFICES ASSUME Quiet(D) PROVE Quiet(E)' OBVIOUS
    <3>1. ASSUME NEW p \in Unled PROVE QuietFor(E, p)'
      <4>1. QuietFor(D, p) BY DEF Quiet
      <4>2. CASE p = r
        <5>1. \A l \in OpenOf(PrintOf(r))' : Repeatable(l, req[r].at)' => l \in E BY <1>2, <1>3, <1>10, <2>4, <2>6 DEF Repeatable
        <5>2. \A l \in DOMAIN leads' : leads'[l].fingerprint # None => leads'[l].last <= req'[r].at BY <1>2, <1>3, <4>1, <4>2 DEF QuietFor
        <5>3. \A d \in Due' : d.at <= req'[r].at BY <1>2, <1>4, <4>1, <4>2 DEF QuietFor
        <5> QED BY <1>15, <4>2, <5>1, <5>2, <5>3 DEF QuietFor, At, Looking
      <4>3. CASE p # r
        <5>1. QuietFor(E, p) BY <2>6, <4>1 DEF QuietFor
        <5>2. Follows(p) /\ p \in Unled' BY <1>7, <1>8, <4>3 DEF Unled
        <5> QED BY <1>5, <5>1, <5>2, QuietStays
      <4> QED BY <4>2, <4>3
    <3> QED BY <1>7, <3>1 DEF Quiet
  <2>12. PICK c \in Nat, e \in Nat, u \in Nat, o \in Nat, f \in Nat :
           c = Cardinality(D) /\ e = Cardinality(E) /\ u = Cardinality(Unled) /\ o = overlaps /\ f = faults
    BY <1>11, <2>6, SubsetsCount, UnledIs DEF IntakeAssumption
  <2>13. e <= c + 1 /\ (c + u <= o + f \/ (c + u <= o + f + 1 /\ Quiet(D))) BY <2>1, <2>6, <2>12 DEF Affords
  <2>14. e + u <= o + (f + 1) \/ (e + u <= o + (f + 1) + 1 /\ Quiet(D)) BY ONLY <2>13
  <2>15. Affords(E)' BY <1>7, <1>11, <1>15, <2>11, <2>12, <2>14 DEF Affords
  <2> QED BY <1>6, <2>8, <2>10, <2>15 DEF BypassedInv
<1>16. req'[r].pc = "open" => (~Repeats(r) /\ UNCHANGED faults) \/ faults' = faults + 1
  BY RecentGoes, FaultType DEF bounds, TypeInv
<1> QED BY <1>2, <1>13, <1>14, <1>15, <1>16

\* A form comes in.
LEMMA BypassedSubmit ==
  ASSUME IntakeAssumption, TypeInv, TypeInv', BypassedInv, NEW r \in Request, NEW f \in Forms, Submit(r, f)
  PROVE  BypassedInv'
<1>1. /\ At(r, "idle") /\ \A p \in Request \ {r} : req'[p] = req[p]
      /\ At(r, "match")' /\ Input(r)' = f /\ req'[r].at = now
      /\ req'[r].repeated = { a.lead : a \in { b \in accepted : leads[b.lead].fingerprint = Fingerprint(f)
                                                               /\ now - b.at <= Window } }
      /\ Overlap /\ UNCHANGED << leads, now, accepted, bypassed, faults >>
  BY SubmitGoes DEF rows
<1>2. Due' \subseteq Due BY <1>1, DueStays, AcceptedDue DEF At
<1>3. LeadsKept BY <1>1, <1>2, LeadsKeep DEF TypeInv, TypeOK
<1>4. PrintOf(r)' = Fingerprint(f) /\ Fingerprint(f) # None
  BY <1>1 DEF PrintOf, Fingerprint, normalizePhone, IntakeAssumption
<1>5. \A p \in Request : Promised(p)'
  <2> SUFFICES ASSUME NEW p \in Request PROVE Promised(p)' OBVIOUS
  <2>1. CASE p = r BY <1>1, <1>4, <2>1 DEF Promised
  <2>2. CASE p # r
    <3>1. Promised(p) BY DEF BypassedInv
    <3> QED BY <1>1, <2>2, <3>1, PromiseKept DEF Input
  <2> QED BY <2>1, <2>2
<1>6. r \notin Unled /\ Unled' \subseteq Unled \cup {r} /\ r \in Unled' BY <1>1 DEF Unled, At
<1>7. \A p \in Unled : p \in Unled' /\ p \in Request \ {r} BY <1>1, <1>6 DEF Unled
<1>8. \A p \in Request \ {r} : Follows(p) BY <1>1 DEF Follows
<1>9. PICK D \in SUBSET DOMAIN leads : Covers(D) /\ Affords(D) BY DEF BypassedInv
<1>10. CoversRows(D)' /\ D \in SUBSET DOMAIN leads' BY <1>3, <1>9, RowsCovered DEF Covers
\* Of the leads the form may repeat all but one are in D.
<1>11. ASSUME NEW l \in DOMAIN leads, NEW m \in DOMAIN leads, l \notin D, m \notin D, Repeatable(l, now), Repeatable(m, now),
              leads[l].fingerprint = Fingerprint(f), leads[m].fingerprint = Fingerprint(f)
       PROVE  l = m
  BY <1>4, <1>9, <1>11 DEF Covers, CoversRows
<1>12. CoversRequest(D, r)'
  <2>1. ASSUME NEW l \in req'[r].repeated, l \notin D, leads[l].open
        PROVE  l \in DOMAIN leads /\ Repeatable(l, now) /\ leads[l].fingerprint = Fingerprint(f)
    <3>1. PICK a \in accepted : a.lead = l /\ leads[l].fingerprint = Fingerprint(f) /\ now - a.at <= Window BY <1>1, <2>1
    <3>2. a.at <= leads[l].last BY <1>9, <2>1, <3>1, AcceptedDue DEF Covers, CoversRows
    <3>3. l \in DOMAIN leads BY <3>1, LeadsAre, AcceptedDue
    <3>4. PICK t \in Nat, n \in Nat, m \in Nat, w \in Nat : t = now /\ n = a.at /\ m = leads[l].last /\ w = Window
      BY <3>1, <3>3, LeadsAre, AcceptedDue DEF IntakeAssumption
    <3>5. t - n <= w /\ n <= m BY <3>1, <3>2, <3>4
    <3>6. t - m <= w BY ONLY <3>5
    <3> QED BY <2>1, <3>1, <3>3, <3>4, <3>6 DEF Repeatable
  <2>2. \A l, m \in req'[r].repeated : l \notin D /\ m \notin D /\ leads'[l].open /\ leads'[m].open => l = m
    BY <1>1, <1>11, <2>1
  <2> QED BY <1>1, <2>2 DEF CoversRequest, At
<1>13. \A p \in Request \ {r} : CoversRequest(D, p)' BY <1>3, <1>8, <1>9, RequestCovered DEF Covers
<1>14. Covers(D)' BY <1>10, <1>12, <1>13 DEF Covers
<1>15. QuietFor(D, r)'
  <2>1. \A l \in DOMAIN leads' : leads'[l].last <= req'[r].at BY <1>1 DEF TypeInv, Refers
  <2>2. \A d \in Due' : d.at <= req'[r].at BY <1>1, <1>2, LeadsAre
  <2>3. \A l \in OpenOf(PrintOf(r))' : l \in DOMAIN leads /\ leads[l].fingerprint = Fingerprint(f) BY <1>1, <1>4 DEF OpenOf
  <2>4. \A l \in DOMAIN leads : Repeatable(l, req[r].at)' => Repeatable(l, now) BY <1>1 DEF Repeatable
  <2>5. \A l, m \in OpenOf(PrintOf(r))' :
          l \notin D /\ m \notin D /\ Repeatable(l, req[r].at)' /\ Repeatable(m, req[r].at)' => l = m
    BY <1>11, <2>3, <2>4
  <2> QED BY <1>1, <2>1, <2>2, <2>5 DEF QuietFor, At
<1>16. /\ IsFiniteSet(Unled) /\ Cardinality(Unled) \in Nat
       /\ Cardinality(Unled') \in Nat /\ Cardinality(Unled') <= Cardinality(Unled) + 1
  BY <1>6, UnledIs, OneMore DEF IntakeAssumption
<1>17. PICK c \in Nat, u \in Nat, u2 \in Nat, o \in Nat, o2 \in Nat, k \in Nat :
         /\ c = Cardinality(D) /\ u = Cardinality(Unled) /\ u2 = Cardinality(Unled')
         /\ o = overlaps /\ o2 = overlaps' /\ k = faults
  BY <1>9, <1>16, SubsetsCount DEF TypeInv, TypeOK
<1>18. u2 <= u + 1 /\ faults' = k BY <1>1, <1>16, <1>17
<1>19. CASE Running = {}
  <2>1. Unled = {} BY <1>19 DEF Unled, Running, At
  <2>2. u = 0 /\ ~Quiet(D) BY <1>17, <2>1, NoneCount DEF Quiet
  <2>3. c + u <= o + k BY <1>9, <1>17, <2>2 DEF Affords
  <2>4. o2 = o BY <1>1, <1>17, <1>19, OverlapType DEF TypeInv
  <2>5. c + u2 <= o2 + k + 1 BY ONLY <1>18, <2>3, <2>4
  <2>6. Quiet(D)' BY <1>6, <1>15, <2>1 DEF Quiet
  <2>7. Affords(D)' BY <1>17, <1>18, <2>5, <2>6 DEF Affords
  <2> QED BY <1>5, <1>10, <1>14, <2>7 DEF BypassedInv
<1>20. CASE Running # {}
  <2>1. o2 = o + 1 BY <1>1, <1>17, <1>20, OverlapType DEF TypeInv
  <2>2. c + u <= o + k \/ (c + u <= o + k + 1 /\ Quiet(D)) BY <1>9, <1>17 DEF Affords
  <2>3. c + u2 <= o2 + k \/ (c + u2 <= o2 + k + 1 /\ Quiet(D)) BY ONLY <1>18, <2>1, <2>2
  <2>4. Quiet(D) => Quiet(D)'
    <3> SUFFICES ASSUME Quiet(D) PROVE Quiet(D)' OBVIOUS
    <3>1. ASSUME NEW p \in Unled PROVE QuietFor(D, p)'
      <4>1. QuietFor(D, p) BY DEF Quiet
      <4>2. Follows(p) /\ p \in Unled' BY <1>7, <1>8
      <4> QED BY <1>3, <4>1, <4>2, QuietStays
    <3> QED BY <1>6, <1>15, <3>1 DEF Quiet
  <2>5. Affords(D)' BY <1>17, <1>18, <2>3, <2>4 DEF Affords
  <2> QED BY <1>5, <1>10, <1>14, <2>5 DEF BypassedInv
<1> QED BY <1>19, <1>20

\* A form writes its lead, n, which D gets unless all is quiet.
LEMMA BypassedWrites ==
  ASSUME IntakeAssumption, TypeInv, TypeInv', BypassedInv, NEW r \in Unled, Goes(r, { "alert" }), NEW n \in DOMAIN leads',
         DOMAIN leads \subseteq DOMAIN leads', UNCHANGED << accepted, overlaps, faults >>,
         \A l \in DOMAIN leads : leads'[l].fingerprint = leads[l].fingerprint /\ leads'[l].open = leads[l].open,
         \A D \in SUBSET DOMAIN leads : \A E \in SUBSET DOMAIN leads' :
           Covers(D) /\ (E = D \cup {n} \/ (E = D /\ QuietFor(D, r))) => CoversRows(E)'
  PROVE  BypassedInv'
<1>1. /\ \A p \in Request \ {r} : req'[p] = req[p]
      /\ req'[r].pc = "alert" /\ Input(r)' = Input(r) /\ req'[r].at = req[r].at /\ req'[r].repeated = req[r].repeated
  BY DEF Goes, Input
<1>2. r \in Request /\ req[r].pc \in FormPC BY DEF Unled, FormPC
<1>3. \A p \in Request : Promised(p)'
  <2> SUFFICES ASSUME NEW p \in Request PROVE Promised(p)' OBVIOUS
  <2>1. Promised(p) BY DEF BypassedInv
  <2>2. CASE p = r BY <1>1, <1>2, <2>1, <2>2, PromiseKept
  <2>3. CASE p # r BY <1>1, <2>1, <2>3, PromiseKept DEF Input
  <2> QED BY <2>2, <2>3
<1>4. Unled' \subseteq Unled \ {r} BY <1>1 DEF Unled
<1>5. IsFiniteSet(Unled) /\ Cardinality(Unled) \in Nat BY UnledIs DEF IntakeAssumption
<1>6. Cardinality(Unled') \in Nat /\ Cardinality(Unled') + 1 <= Cardinality(Unled) BY <1>4, <1>5, OneLess
<1>7. PICK D \in SUBSET DOMAIN leads : Covers(D) /\ Affords(D) BY DEF BypassedInv
<1>8. IsFiniteSet(D) /\ Cardinality(D) \in Nat BY SubsetsCount
<1>9. PICK c \in Nat, u \in Nat, u2 \in Nat, o \in Nat, f \in Nat :
        /\ c = Cardinality(D) /\ u = Cardinality(Unled) /\ u2 = Cardinality(Unled')
        /\ o = overlaps /\ f = faults /\ o = overlaps' /\ f = faults'
  BY <1>5, <1>6, <1>8 DEF TypeInv, TypeOK
<1>10. u2 + 1 <= u BY <1>6, <1>9
<1>11. ASSUME NEW E \in SUBSET DOMAIN leads', D \subseteq E PROVE \A p \in Request : CoversRequest(E, p)'
  <2> SUFFICES ASSUME NEW p \in Request PROVE CoversRequest(E, p)' OBVIOUS
  <2>1. CASE p = r BY <1>1, <2>1 DEF CoversRequest, At, Looking
  <2>2. CASE p # r
    <3>1. CoversRequest(D, p) /\ req'[p] = req[p] BY <1>1, <1>7, <2>2 DEF Covers
    <3>2. \A l \in req[p].repeated : l \in DOMAIN leads BY DEF TypeInv, Refers, Equipped
    <3>3. \A l \in req[p].repeated : leads'[l].open = leads[l].open BY <3>2
    <3> QED BY <1>11, <3>1, <3>3 DEF CoversRequest, At
  <2> QED BY <2>1, <2>2
<1>12. CASE c + u <= o + f
  <2>1. PICK E \in SUBSET DOMAIN leads' : E = D \cup {n} OBVIOUS
  <2>2. Covers(E)' BY <1>7, <1>11, <2>1 DEF Covers
  <2>3. PICK e \in Nat : e = Cardinality(E) /\ e <= c + 1 BY <1>8, <1>9, <2>1, OneMore
  <2>4. e + u2 <= o + f BY ONLY <1>10, <1>12, <2>3
  <2>5. Affords(E)' BY <1>9, <2>3, <2>4 DEF Affords
  <2> QED BY <1>3, <2>2, <2>5 DEF BypassedInv
<1>13. CASE c + u <= o + f + 1 /\ Quiet(D)
  <2>1. QuietFor(D, r) BY <1>13 DEF Quiet
  <2>2. PICK E \in SUBSET DOMAIN leads' : E = D OBVIOUS
  <2>3. Covers(E)' BY <1>7, <1>11, <2>1, <2>2 DEF Covers
  <2>4. c + u2 <= o + f BY ONLY <1>10, <1>13
  <2>5. Affords(E)' BY <1>9, <2>2, <2>4 DEF Affords
  <2> QED BY <1>3, <2>3, <2>5 DEF BypassedInv
<1>14. c + u <= o + f \/ (c + u <= o + f + 1 /\ Quiet(D)) BY <1>7, <1>9 DEF Affords
<1> QED BY <1>12, <1>13, <1>14

LEMMA BypassedOpen ==
  ASSUME IntakeAssumption, TypeInv, TypeInv', BypassedInv, NEW r \in Request, OpenLead(r)
  PROVE  BypassedInv'
<1>1. PICK n : n = Len(leads) + 1 OBVIOUS
<1>2. At(r, "open") /\ Goes(r, { "alert" }) /\ req'[r].lead = n BY <1>1, OpenGoes
<1>3. /\ n \notin DOMAIN leads /\ DOMAIN leads' = DOMAIN leads \cup { n } /\ \A l \in DOMAIN leads : leads'[l] = leads[l]
      /\ leads'[n].fingerprint = PrintOf(r) /\ leads'[n].last = req[r].at
  BY <1>1, OpenGoes DEF PrintOf
<1>4. UNCHANGED << now, accepted, overlaps, faults >> BY OpenGoes
<1>5. r \in Unled /\ bypassed' = bypassed \cup { l \in req[r].repeated : leads[l].open } BY <1>2 DEF Unled, At, OpenLead
<1>6. /\ \A p \in Request \ {r} : req'[p] = req[p]
      /\ req'[r].pc = "alert" /\ req'[r].at = req[r].at
  BY <1>2 DEF Goes
<1>7. ASSUME NEW d \in Due' PROVE d \in Due \/ d = [lead |-> n, at |-> req[r].at]
  <2>1. CASE d \in accepted' BY <1>4, <2>1 DEF Due
  <2>2. ASSUME NEW p \in Request, req'[p].pc \in { "alert", "sms" }, d = [lead |-> req'[p].lead, at |-> req'[p].at]
        PROVE  d \in Due \/ d = [lead |-> n, at |-> req[r].at]
    <3>1. CASE p = r BY <1>2, <1>6, <2>2, <3>1
    <3>2. CASE p # r BY <1>6, <2>2, <3>2 DEF Due
    <3> QED BY <3>1, <3>2
  <2> QED BY <2>1, <2>2 DEF Due
<1>8. ASSUME NEW D \in SUBSET DOMAIN leads, NEW E \in SUBSET DOMAIN leads', Covers(D), E = D \cup {n} \/ (E = D /\ QuietFor(D, r))
      PROVE  CoversRows(E)'
  <2>1. bypassed' \subseteq E BY <1>2, <1>5, <1>8 DEF Covers, CoversRows, CoversRequest
  <2>2. ASSUME NEW d \in Due' PROVE d.lead \in E \/ d.at <= leads'[d.lead].last
    <3>1. CASE d \in Due BY <1>3, <1>8, <3>1, LeadsAre DEF Covers, CoversRows
    <3>2. CASE d = [lead |-> n, at |-> req[r].at] BY <1>2, <1>3, <3>2, LeadsAre
    <3> QED BY <1>7, <3>1, <3>2
  <2>3. \A l \in DOMAIN leads : Repeatable(l, now)' => Repeatable(l, now) BY <1>3, <1>4 DEF Repeatable
  \* No lead that may be repeated now is beside the new one.
  <2>4. ASSUME NEW l \in DOMAIN leads, l \notin E, n \notin E, Repeatable(l, now)', leads'[l].fingerprint = leads'[n].fingerprint
        PROVE  FALSE
    <3>1. QuietFor(D, r) /\ l \notin D BY <1>8, <2>4
    <3>2. leads[l].fingerprint = PrintOf(r) /\ leads[l].open /\ now - leads[l].last <= Window
      BY <1>3, <2>3, <2>4 DEF Repeatable
    <3>3. PICK t \in Nat, k \in Nat, m \in Nat, w \in Nat : t = req[r].at /\ k = now /\ m = leads[l].last /\ w = Window
      BY LeadsAre DEF IntakeAssumption
    <3>4. t <= k /\ k - m <= w BY <3>2, <3>3, LeadsAre
    <3>5. t - m <= w BY ONLY <3>4
    <3>6. l \in OpenOf(PrintOf(r)) /\ Repeatable(l, req[r].at) BY <3>2, <3>3, <3>5 DEF OpenOf, Repeatable
    <3> QED BY <1>2, <3>1, <3>6 DEF QuietFor
  <2>5. ASSUME NEW l \in DOMAIN leads', NEW m \in DOMAIN leads', l \notin E, m \notin E, Repeatable(l, now)', Repeatable(m, now)',
               leads'[l].fingerprint = leads'[m].fingerprint, leads'[l].fingerprint # None
        PROVE  l = m
    <3>1. CASE l = n /\ m = n BY <3>1
    <3>2. CASE l = n /\ m \in DOMAIN leads BY <2>4, <2>5, <3>2
    <3>3. CASE l \in DOMAIN leads /\ m = n BY <2>4, <2>5, <3>3
    <3>4. CASE l \in DOMAIN leads /\ m \in DOMAIN leads
      <4>1. leads'[l] = leads[l] /\ leads'[m] = leads[m] BY <1>3, <3>4
      <4>2. Repeatable(l, now) /\ Repeatable(m, now) /\ l \notin D /\ m \notin D BY <1>8, <2>3, <2>5, <3>4
      <4> QED BY <1>8, <2>5, <3>4, <4>1, <4>2 DEF Covers, CoversRows
    <3> QED BY <1>3, <3>1, <3>2, <3>3, <3>4
  <2> QED BY <2>1, <2>2, <2>5 DEF CoversRows
<1> QED BY <1>2, <1>3, <1>4, <1>5, <1>8, BypassedWrites

LEMMA BypassedJoin ==
  ASSUME IntakeAssumption, TypeInv, TypeInv', BypassedInv, NEW r \in Request, JoinLead(r)
  PROVE  BypassedInv'
<1>1. PICK t : t = req[r].lead OBVIOUS
<1>2. At(r, "join") /\ Goes(r, { "alert" }) /\ req'[r].lead = t BY <1>1, JoinGoes
<1>3. /\ t \in DOMAIN leads /\ DOMAIN leads' = DOMAIN leads /\ leads[t].fingerprint = PrintOf(r)
      /\ \A k \in DOMAIN leads : leads'[k].fingerprint = leads[k].fingerprint /\ leads'[k].open = leads[k].open
      /\ \A k \in DOMAIN leads \ {t} : leads'[k] = leads[k]
      /\ leads'[t].last = req[r].at
  BY <1>1, JoinIs DEF PrintOf
<1>4. UNCHANGED << now, accepted, bypassed, overlaps, faults >> BY JoinGoes DEF history
<1>5. r \in Unled BY <1>2 DEF Unled, At
<1>6. /\ \A p \in Request \ {r} : req'[p] = req[p]
      /\ req'[r].pc = "alert" /\ req'[r].at = req[r].at
  BY <1>2 DEF Goes
<1>7. ASSUME NEW d \in Due' PROVE d \in Due \/ d = [lead |-> t, at |-> req[r].at]
  <2>1. CASE d \in accepted' BY <1>4, <2>1 DEF Due
  <2>2. ASSUME NEW p \in Request, req'[p].pc \in { "alert", "sms" }, d = [lead |-> req'[p].lead, at |-> req'[p].at]
        PROVE  d \in Due \/ d = [lead |-> t, at |-> req[r].at]
    <3>1. CASE p = r BY <1>2, <1>6, <2>2, <3>1
    <3>2. CASE p # r BY <1>6, <2>2, <3>2 DEF Due
    <3> QED BY <3>1, <3>2
  <2> QED BY <2>1, <2>2 DEF Due
<1>8. ASSUME NEW D \in SUBSET DOMAIN leads, NEW E \in SUBSET DOMAIN leads', Covers(D), E = D \cup {t} \/ (E = D /\ QuietFor(D, r))
      PROVE  CoversRows(E)'
  <2>1. bypassed' \subseteq E BY <1>4, <1>8 DEF Covers, CoversRows
  <2>2. ASSUME NEW d \in Due' PROVE d.lead \in E \/ d.at <= leads'[d.lead].last
    <3>1. CASE d.lead = t /\ t \notin E
      <4>1. QuietFor(D, r) BY <1>8, <3>1
      <4>2. d.at <= req[r].at
        <5>1. CASE d \in Due BY <4>1, <5>1 DEF QuietFor
        <5>2. CASE d = [lead |-> t, at |-> req[r].at] BY <5>2, LeadsAre
        <5> QED BY <1>7, <5>1, <5>2
      <4> QED BY <1>3, <3>1, <4>2
    <3>2. CASE d.lead # t
      <4>1. d \in Due BY <1>7, <3>2
      <4>2. d.lead \in DOMAIN leads \ {t} BY <3>2, <4>1, LeadsAre
      <4> QED BY <1>3, <1>8, <4>1, <4>2 DEF Covers, CoversRows
    <3> QED BY <3>1, <3>2
  <2>3. \A l \in DOMAIN leads \ {t} : Repeatable(l, now)' => Repeatable(l, now) BY <1>3, <1>4 DEF Repeatable
  \* Where another lead may be repeated, the one that is joined might have been, too.
  <2>4. ASSUME NEW l \in DOMAIN leads \ {t}, l \notin E, t \notin E, Repeatable(l, now)', Repeatable(t, now)',
               leads'[l].fingerprint = leads'[t].fingerprint, leads'[l].fingerprint # None
        PROVE  FALSE
    <3>1. QuietFor(D, r) /\ l \notin D /\ t \notin D BY <1>8, <2>4
    <3>2. leads[l].fingerprint = PrintOf(r) /\ Repeatable(l, now) /\ leads[t].open /\ leads[l].fingerprint # None
      BY <1>3, <2>3, <2>4 DEF Repeatable
    <3>3. leads[l].last <= leads[t].last BY <1>1, <1>2, <3>1, <3>2 DEF QuietFor, OpenOf, Repeatable
    <3>4. PICK k \in Nat, m \in Nat, q \in Nat, w \in Nat : k = now /\ m = leads[l].last /\ q = leads[t].last /\ w = Window
      BY <1>3, LeadsAre DEF IntakeAssumption
    <3>5. m <= q /\ k - m <= w BY <3>2, <3>3, <3>4 DEF Repeatable
    <3>6. k - q <= w BY ONLY <3>5
    <3>7. Repeatable(t, now) BY <3>2, <3>4, <3>6 DEF Repeatable
    <3> QED BY <1>3, <1>8, <3>1, <3>2, <3>7 DEF Covers, CoversRows
  <2>5. ASSUME NEW l \in DOMAIN leads', NEW m \in DOMAIN leads', l \notin E, m \notin E, Repeatable(l, now)', Repeatable(m, now)',
               leads'[l].fingerprint = leads'[m].fingerprint, leads'[l].fingerprint # None
        PROVE  l = m
    <3>1. CASE l = t /\ m = t BY <3>1
    <3>2. CASE l = t /\ m # t BY <1>3, <2>4, <2>5, <3>2
    <3>3. CASE l # t /\ m = t BY <1>3, <2>4, <2>5, <3>3
    <3>4. CASE l # t /\ m # t
      <4>1. l \in DOMAIN leads \ {t} /\ m \in DOMAIN leads \ {t} BY <1>3, <3>4
      <4>2. leads'[l] = leads[l] /\ leads'[m] = leads[m] BY <1>3, <4>1
      <4>3. Repeatable(l, now) /\ Repeatable(m, now) /\ l \notin D /\ m \notin D BY <1>8, <2>3, <2>5, <4>1
      <4> QED BY <1>8, <2>5, <4>1, <4>2, <4>3 DEF Covers, CoversRows
    <3> QED BY <3>1, <3>2, <3>3, <3>4
  <2> QED BY <2>1, <2>2, <2>5 DEF CoversRows
<1> QED BY <1>2, <1>3, <1>4, <1>5, <1>8, BypassedWrites

LEMMA BypassedInit == ASSUME IntakeAssumption, Init PROVE BypassedInv
<1>1. \A r \in Request : req[r].pc = "idle" BY DEF Init, Idle
<1>2. Due = {} /\ Unled = {} BY <1>1 DEF Init, Due, Unled
<1>3. DOMAIN leads = {} /\ bypassed = {} /\ overlaps = 0 /\ faults = 0 BY DEF Init
<1>4. Covers({}) BY <1>1, <1>2, <1>3 DEF Covers, CoversRows, CoversRequest, At, Looking
<1>5. Affords({}) BY <1>2, <1>3, NoneCount DEF Affords
<1>6. \A r \in Request : Promised(r) BY <1>1 DEF Promised, FormPC
<1>7. {} \in SUBSET DOMAIN leads OBVIOUS
<1> QED BY <1>4, <1>5, <1>6, <1>7 DEF BypassedInv

LEMMA BypassedFormStep ==
  ASSUME IntakeAssumption, TypeInv, TypeInv', BypassedInv, NEW r \in Request, FormStep(r)
  PROVE  BypassedInv'
<1>1. CASE OpenLead(r) BY <1>1, BypassedOpen
<1>2. CASE JoinLead(r) BY <1>2, BypassedJoin
<1>3. CASE Recent(r) BY <1>3, BypassedRecent
<1>4. CASE Match(r) \/ CreateCustomer(r) \/ FillCustomer(r)
  <2>1. /\ Goes(r, { "fill", "create", "recent" }) /\ req[r].pc \in { "match", "create", "fill" }
        /\ UNCHANGED << leads, now, accepted, bypassed, overlaps >> /\ (UNCHANGED bounds \/ Fault)
    BY <1>4, MatchGoes, CreateGoes, FillGoes DEF At, rows, history, Goes
  <2>2. Due' \subseteq Due
    <3>1. req'[r].pc \notin { "alert", "sms" } /\ \A p \in Request \ {r} : req'[p] = req[p] BY <2>1 DEF Goes
    <3> QED BY <2>1, <3>1, DueStays, AcceptedDue
  <2>3. LeadsKept /\ overlaps <= overlaps' BY <2>1, <2>2, LeadsKeep DEF TypeInv, TypeOK
  <2>4. faults' = faults \/ faults' = faults + 1 BY <2>1, FaultType DEF bounds, TypeInv
  <2>5. req[r].pc \in Looking /\ { "fill", "create", "recent" } \subseteq Looking BY <2>1 DEF Looking
  <2> QED BY <2>1, <2>3, <2>4, <2>5, BypassedGoes
<1>5. CASE Reserve(r) \/ Sms(r)
  <2>1. /\ Goes(r, { "sms", "idle" }) /\ req[r].pc \in { "alert", "sms" }
        /\ UNCHANGED << leads, now, bypassed, overlaps >> /\ (UNCHANGED bounds \/ Fault)
        /\ req'[r].pc = "sms" => req'[r].lead = req[r].lead /\ UNCHANGED accepted
        /\ req'[r].pc = "idle" => accepted' = accepted \cup { [lead |-> req[r].lead, at |-> req[r].at] }
    BY <1>5, ReserveGoes, SmsGoes DEF At, Goes
  <2>2. /\ \A p \in Request \ {r} : req'[p] = req[p]
        /\ req'[r].pc \in { "sms", "idle" }
        /\ req'[r].pc = "sms" => req'[r].lead = req[r].lead /\ req'[r].at = req[r].at
    BY <2>1 DEF Goes
  <2>3. accepted' \subseteq Due /\ accepted \subseteq accepted' BY <2>1, <2>2, AnsweredDue, AcceptedDue
  <2>4. Due' \subseteq Due BY <2>1, <2>2, <2>3, DueStays
  <2>5. now <= now' /\ overlaps <= overlaps' BY <2>1 DEF TypeInv, TypeOK
  <2>6. LeadsKept BY <2>1, <2>3, <2>4, <2>5, LeadsKeep
  <2>7. faults' = faults \/ faults' = faults + 1 BY <2>1, FaultType DEF bounds, TypeInv
  <2>8. { "sms", "idle" } \cap Looks = {} /\ req[r].pc \notin Looks /\ req[r].pc \in FormPC
    BY <2>1 DEF Looks, Looking, FormPC
  <2> QED BY <2>1, <2>5, <2>6, <2>7, <2>8, BypassedGoes
<1> QED BY <1>1, <1>2, <1>3, <1>4, <1>5 DEF FormStep

LEMMA BypassedMessageStep ==
  ASSUME IntakeAssumption, TypeInv, TypeInv', BypassedInv, NEW r \in Request, MessageStep(r)
  PROVE  BypassedInv'
<1>1. /\ Goes(r, { "capture", "idle", "byEmail", "introduce", "thread", "upsert" }) /\ req[r].pc \in MessagePC
      /\ UNCHANGED << now, accepted, bypassed, overlaps, faults >>
  BY FindGoes, IntroduceGoes, CaptureGoes, FindThreadGoes, UpsertGoes DEF MessageStep, rows, history, bounds, Goes, At, MessagePC
<1>2. /\ \A l \in DOMAIN leads : l \in DOMAIN leads' /\ leads'[l] = leads[l]
      /\ \A l \in DOMAIN leads' : l \in DOMAIN leads \/ leads'[l].fingerprint = None
  <2>1. CASE CaptureLead(r) BY <2>1, CaptureGoes
  <2>2. CASE ~CaptureLead(r)
    <3>1. UNCHANGED leads BY <2>2, FindGoes, IntroduceGoes, FindThreadGoes, UpsertGoes DEF MessageStep, rows
    <3> QED BY <3>1
  <2> QED BY <2>1, <2>2
<1>3. req'[r].pc \notin { "alert", "sms" } /\ \A p \in Request \ {r} : req'[p] = req[p] BY <1>1 DEF Goes
<1>4. Due' \subseteq Due BY <1>1, <1>3, DueStays, AcceptedDue
<1>5. LeadsKept /\ overlaps <= overlaps' BY <1>1, <1>2, <1>4 DEF LeadsKept, TypeInv, TypeOK
<1>6. /\ { "capture", "idle", "byEmail", "introduce", "thread", "upsert" } \cap Looks = {}
      /\ { "capture", "idle", "byEmail", "introduce", "thread", "upsert" } \cap FormPC = {}
      /\ req[r].pc \notin Looks
  BY <1>1 DEF Looks, Looking, FormPC, MessagePC
<1> QED BY <1>1, <1>5, <1>6, BypassedGoes

LEMMA BypassedStep ==
  ASSUME IntakeAssumption, TypeInv, TypeInv', BypassedInv, [Next]_vars
  PROVE  BypassedInv'
<1>1. ASSUME NEW r \in Request, NEW f \in Forms, Submit(r, f) PROVE BypassedInv' BY <1>1, BypassedSubmit
<1>2. ASSUME NEW r \in Request, NEW m \in Messages, Receive(r, m) PROVE BypassedInv'
  <2>1. /\ At(r, "idle") /\ \A p \in Request \ {r} : req'[p] = req[p]
        /\ req'[r].pc \in { "byPhone", "byEmail" }
        /\ Overlap /\ UNCHANGED << leads, now, accepted, bypassed, faults >>
    BY <1>2, ReceiveGoes DEF rows
  <2>2. Due' \subseteq Due BY <2>1, DueStays, AcceptedDue
  <2>3. now <= now' BY <2>1 DEF TypeInv, TypeOK
  <2>4. LeadsKept /\ overlaps <= overlaps' BY <2>1, <2>2, <2>3, LeadsKeep, OverlapGrows
  <2>5. \A p \in Request : Follows(p) BY <2>1 DEF Follows, Looking
  <2>6. \A p \in Request : Promised(p)'
    <3> SUFFICES ASSUME NEW p \in Request PROVE Promised(p)' OBVIOUS
    <3>1. CASE p = r BY <2>1, <3>1 DEF Promised, FormPC
    <3>2. CASE p # r
      <4>1. Promised(p) BY DEF BypassedInv
      <4> QED BY <2>1, <3>2, <4>1, PromiseKept DEF Input
    <3> QED BY <3>1, <3>2
  <2>7. Unled' = Unled BY <2>1 DEF Unled, At
  <2> QED BY <2>1, <2>4, <2>5, <2>6, <2>7, BypassedFollows
<1>3. ASSUME NEW r \in Request, FormStep(r) PROVE BypassedInv' BY <1>3, BypassedFormStep
<1>4. ASSUME NEW r \in Request, MessageStep(r) PROVE BypassedInv' BY <1>4, BypassedMessageStep
<1>5. ASSUME NEW r \in Request, Drop(r) PROVE BypassedInv'
  <2>1. Goes(r, { "idle" }) /\ Fault /\ UNCHANGED << leads, now, accepted, bypassed, overlaps >>
    BY <1>5, DropGoes DEF rows, history
  <2>2. req'[r].pc \notin { "alert", "sms" } /\ \A p \in Request \ {r} : req'[p] = req[p] BY <2>1 DEF Goes
  <2>3. Due' \subseteq Due BY <2>1, <2>2, DueStays, AcceptedDue
  <2>4. LeadsKept /\ overlaps <= overlaps' BY <2>1, <2>3, LeadsKeep DEF TypeInv, TypeOK
  <2>5. faults' = faults + 1 BY <2>1, FaultType DEF TypeInv
  <2>6. { "idle" } \cap Looks = {} /\ { "idle" } \cap FormPC = {} BY DEF Looks, Looking, FormPC
  <2> QED BY <2>1, <2>4, <2>5, <2>6, BypassedGoes
<1>6. ASSUME NEW k \in DOMAIN customers, ArchiveCustomer(k) \/ \E e \in Emails : EditCustomer(k, e) PROVE BypassedInv'
  <2>1. UNCHANGED << req, leads, now, accepted, bypassed, faults >> /\ (Overlap \/ UNCHANGED overlaps)
    BY <1>6 DEF ArchiveCustomer, EditCustomer, history
  <2>2. Due' = Due BY <2>1 DEF Due
  <2>3. now <= now' BY <2>1 DEF TypeInv, TypeOK
  <2>4. LeadsKept /\ overlaps <= overlaps' BY <2>1, <2>2, <2>3, LeadsKeep, OverlapGrows
  <2> QED BY <2>1, <2>4, BypassedStill
<1>7. ASSUME NEW l \in DOMAIN leads, CloseLead(l) PROVE BypassedInv'
  <2>1. UNCHANGED << req, now, accepted, bypassed, faults, overlaps >> BY <1>7 DEF CloseLead, history
  <2>2. Due' = Due BY <2>1 DEF Due
  <2>3. /\ DOMAIN leads' = DOMAIN leads
        /\ \A k \in DOMAIN leads : /\ leads'[k].fingerprint = leads[k].fingerprint /\ leads'[k].last = leads[k].last
                                   /\ leads'[k].open => leads[k].open
    BY <1>7, CloseIs
  <2>4. LeadsKept /\ overlaps <= overlaps' BY <2>1, <2>2, <2>3 DEF LeadsKept, TypeInv, TypeOK
  <2> QED BY <2>1, <2>4, BypassedStill
<1>8. CASE Tick \/ UNCHANGED vars
  <2>1. UNCHANGED << req, leads, accepted, bypassed, faults, overlaps >> /\ now <= now'
    BY <1>8 DEF Tick, vars, rows, history, TypeInv, TypeOK
  <2>2. Due' = Due BY <2>1 DEF Due
  <2>3. LeadsKept /\ overlaps <= overlaps' BY <2>1, <2>2, LeadsKeep DEF TypeInv, TypeOK
  <2> QED BY <2>1, <2>3, BypassedStill
<1> QED BY <1>1, <1>2, <1>3, <1>4, <1>5, <1>6, <1>7, <1>8 DEF Next

\* A lead is bypassed by a form that repeats one of its own only where requests overlapped
\* or calls failed, and by no more of them than that.
THEOREM BypassedCorrect == IntakeAssumption => (Spec => []BypassedBounded)
<1> SUFFICES ASSUME IntakeAssumption PROVE Spec => []BypassedBounded OBVIOUS
<1>1. Init => BypassedInv BY BypassedInit
<1>2. TypeInv /\ TypeInv' /\ BypassedInv /\ [Next]_vars => BypassedInv' BY BypassedStep
<1>3. TypeInv /\ BypassedInv => BypassedBounded
  <2> SUFFICES ASSUME TypeInv, BypassedInv PROVE BypassedBounded OBVIOUS
  <2>1. PICK D \in SUBSET DOMAIN leads : Covers(D) /\ Affords(D) BY DEF BypassedInv
  <2>2. IsFiniteSet(D) /\ Cardinality(D) \in Nat BY SubsetsCount
  <2>3. Cardinality(bypassed) \in Nat /\ Cardinality(bypassed) <= Cardinality(D)
    BY <2>1, <2>2, Fewer DEF Covers, CoversRows
  <2>4. PICK b \in Nat, c \in Nat, u \in Nat, o \in Nat, f \in Nat :
          b = Cardinality(bypassed) /\ c = Cardinality(D) /\ u = Cardinality(Unled) /\ o = overlaps /\ f = faults
    BY <2>2, <2>3, UnledIs, LeadsAre DEF IntakeAssumption
  <2>5. b <= c BY <2>3, <2>4
  <2>6. CASE c + u <= o + f
    <3>1. b <= o + f BY ONLY <2>5, <2>6
    <3> QED BY <2>4, <3>1 DEF BypassedBounded
  <2>7. CASE c + u <= o + f + 1 /\ Quiet(D)
    <3>1. Unled # {} BY <2>7 DEF Quiet
    <3>2. u # 0 BY <2>4, <3>1, UnledIs, FS_EmptySet DEF IntakeAssumption
    <3>3. b <= o + f BY ONLY <2>5, <2>7, <3>2
    <3> QED BY <2>4, <3>3 DEF BypassedBounded
  <2> QED BY <2>1, <2>4, <2>6, <2>7 DEF Affords
<1>4. Spec => []TypeInv BY TypeCorrect
<1> QED BY <1>1, <1>2, <1>3, <1>4, PTL DEF Spec

=============================================================================
