---------------------------- MODULE Sweeps_proofs ----------------------------
(***************************************************************************)
(* Proofs about CronRegistry, for any number of jobs, cadences and         *)
(* overlapping calls, and about the sweeps over Enquiries that two of its  *)
(* jobs are, for any numbers of leads, requests, runs, texts and faults:   *)
(* the types, what the sweeps act on, and what is left over by failed      *)
(* confirmations, booked and asked too often.                              *)
(***************************************************************************)
EXTENDS CronRegistry, Enquiries, FiniteSetTheorems, TLAPS

-----------------------------------------------------------------------------
(* The registry.                                                           *)


\* r has claimed the window of its job and not yet settled it.
Owns(r) == runner[r].pc \in { "run", "finish", "fail" }
Claimed(r) == log[runner[r].job][Window(r)]
SameWindow(r, q) == runner[r].job = runner[q].job /\ Window(r) = Window(q)

\* The row of a window is in the hands of one call, from its claim to its end.
OwnersExclude ==
  /\ \A r \in Runners : Owns(r) => Claimed(r) = "running"
  /\ \A r, q \in Runners : Owns(r) /\ Owns(q) /\ SameWindow(r, q) => r = q

\* What the row, and the call that holds it, say of the runs.
RunsCounted ==
  /\ \A j \in Jobs : \A w \in CronTimes :
       /\ runs[j][w] <= 1
       /\ log[j][w] = "absent" => runs[j][w] = 0 /\ done[j][w] = 0
       /\ log[j][w] = "succeeded" => done[j][w] = 1
  /\ \A r \in Runners :
       /\ CallAt(r, "run") => runs[runner[r].job][Window(r)] = 0 /\ done[runner[r].job][Window(r)] = 0
       /\ CallAt(r, "finish") => done[runner[r].job][Window(r)] = 1

CronInv == CronTypeOK /\ OwnersExclude /\ RunsCounted

-----------------------------------------------------------------------------
\* A time rounded down to a cadence is a time again.
LEMMA WindowInTimes ==
  ASSUME NEW t \in CronTimes, NEW j \in Jobs PROVE WindowStart(t, j) \in CronTimes
<1> DEFINE c == Cadence[j]
<1>1. c \in Nat /\ c > 0 /\ t \in Nat /\ t <= MaxTime /\ MaxTime \in Nat
  BY CronAssumption DEF CronTimes
<1> HIDE DEF c
<1>2. t \div c \in Nat /\ (t \div c) * c <= t /\ (t \div c) * c \in Nat
  BY <1>1, SMTT(60)
<1> QED BY <1>1, <1>2 DEF WindowStart, CronTimes, c

\* A call that is not idle has a job and a window.
LEMMA BusyRunner ==
  ASSUME CronTypeOK, NEW r \in Runners, runner[r].pc # "idle"
  PROVE  /\ runner[r] \in Runner
         /\ runner[r].job \in Jobs /\ runner[r].time \in CronTimes /\ Window(r) \in CronTimes
<1>1. runner[r] \in Runner BY DEF CronTypeOK, NoCall
<1>2. runner[r].job \in Jobs /\ runner[r].time \in CronTimes BY <1>1 DEF Runner
<1> QED BY <1>1, <1>2, WindowInTimes DEF Window

\* The three ways a call moves: to another await, to the next job, to its end.
LEMMA GotoMoves ==
  ASSUME CronTypeOK, NEW r \in Runners, runner[r] \in Runner, NEW pc \in PC, CallGoto(r, pc)
  PROVE  /\ runner' \in [Runners -> Runner \cup {NoCall}]
         /\ \A q \in Runners \ {r} : runner'[q] = runner[q]
         /\ runner'[r].pc = pc /\ runner'[r].job = runner[r].job
         /\ Window(r)' = Window(r)
<1>1. [runner[r] EXCEPT !.pc = pc] \in Runner BY DEF Runner
<1>2. runner' = [runner EXCEPT ![r].pc = pc] BY DEF CallGoto
<1>3. runner'[r] = [runner[r] EXCEPT !.pc = pc] BY <1>2 DEF CronTypeOK
<1>4. /\ runner'[r].pc = pc /\ runner'[r].job = runner[r].job
      /\ runner'[r].time = runner[r].time
  BY <1>3 DEF Runner
<1>5. runner' \in [Runners -> Runner \cup {NoCall}] BY <1>1, <1>2 DEF CronTypeOK
<1>6. \A q \in Runners \ {r} : runner'[q] = runner[q] BY <1>2 DEF CronTypeOK
<1> QED BY <1>4, <1>5, <1>6 DEF Window, WindowStart

LEMMA StopMoves ==
  ASSUME CronTypeOK, NEW r \in Runners, EndCall(r)
  PROVE  /\ runner' \in [Runners -> Runner \cup {NoCall}]
         /\ \A q \in Runners \ {r} : runner'[q] = runner[q]
         /\ runner'[r].pc = "idle"
BY DEF CronTypeOK, EndCall, NoCall

LEMMA NextJobMoves ==
  ASSUME CronTypeOK, NEW r \in Runners, runner[r] \in Runner, NextJob(r)
  PROVE  /\ runner' \in [Runners -> Runner \cup {NoCall}]
         /\ \A q \in Runners \ {r} : runner'[q] = runner[q]
         /\ runner'[r].pc \in { "idle", "claim" }
<1>1. CASE runner[r].only \/ runner[r].job = NumJobs
  BY <1>1, StopMoves DEF NextJob
<1>2. CASE ~(runner[r].only \/ runner[r].job = NumJobs)
  <2>1. runner' = [runner EXCEPT ![r].pc = "claim", ![r].job = @ + 1]
    BY <1>2 DEF NextJob
  <2>2. runner[r].job + 1 \in Jobs
    BY <1>2, CronAssumption DEF Runner, Jobs
  <2>3. [runner[r] EXCEPT !.pc = "claim", !.job = @ + 1] \in Runner
    BY <2>2 DEF Runner, PC
  <2>4. runner'[r] = [runner[r] EXCEPT !.pc = "claim", !.job = @ + 1]
    BY <2>1 DEF CronTypeOK
  <2>5. runner'[r].pc = "claim" BY <2>4 DEF Runner
  <2>6. runner' \in [Runners -> Runner \cup {NoCall}] BY <2>1, <2>3 DEF CronTypeOK
  <2>7. \A q \in Runners \ {r} : runner'[q] = runner[q] BY <2>1 DEF CronTypeOK
  <2> QED BY <2>5, <2>6, <2>7
<1> QED BY <1>1, <1>2

-----------------------------------------------------------------------------
\* What a step of one call leaves alone: the others, and every row but its own.
Others(r) == \A q \in Runners \ {r} : runner'[q] = runner[q]
OnlyRow(r) ==
  \A j \in Jobs : \A w \in CronTimes :
    ~(j = runner[r].job /\ w = Window(r)) =>
      log'[j][w] = log[j][w] /\ runs'[j][w] = runs[j][w] /\ done'[j][w] = done[j][w]

\* A call that gives its window up, having claimed it or not, keeps the invariant
\* if the row and the counters it leaves agree.
LEMMA Released ==
  ASSUME CronInv, CronTypeOK', NEW r \in Runners, Others(r), OnlyRow(r),
         runner'[r].pc \in { "idle", "claim" },
         runner[r] \in Runner, Owns(r),
         LET j == runner[r].job  w == Window(r) IN
           /\ runs'[j][w] <= 1
           /\ log'[j][w] # "absent"
           /\ log'[j][w] = "succeeded" => done'[j][w] = 1
  PROVE  OwnersExclude' /\ RunsCounted'
<1> USE DEF CronInv
<1>1. ~Owns(r)' BY DEF Owns
<1>2. ASSUME NEW q \in Runners, Owns(q)'
      PROVE  /\ q # r /\ runner'[q] = runner[q] /\ Owns(q)
             /\ Window(q)' = Window(q) /\ Window(q) \in CronTimes /\ runner[q].job \in Jobs
             /\ ~SameWindow(q, r)
             /\ log'[runner[q].job][Window(q)] = log[runner[q].job][Window(q)]
             /\ runs'[runner[q].job][Window(q)] = runs[runner[q].job][Window(q)]
             /\ done'[runner[q].job][Window(q)] = done[runner[q].job][Window(q)]
  <2>1. q # r /\ runner'[q] = runner[q] BY <1>1, <1>2 DEF Others
  <2>2. Owns(q) /\ Window(q)' = Window(q)
    BY <1>2, <2>1 DEF Owns, Window, WindowStart
  <2>3. Window(q) \in CronTimes /\ runner[q].job \in Jobs
    BY <2>2, BusyRunner DEF Owns
  <2>4. ~SameWindow(q, r) BY <2>1, <2>2 DEF OwnersExclude
  <2> QED BY <2>1, <2>2, <2>3, <2>4 DEF OnlyRow, SameWindow
<1>3. OwnersExclude'
  <2>1. ASSUME NEW q \in Runners, Owns(q)' PROVE Claimed(q)' = "running"
    BY <2>1, <1>2 DEF OwnersExclude, Claimed
  <2>2. ASSUME NEW q \in Runners, NEW p \in Runners, Owns(q)', Owns(p)', SameWindow(q, p)'
        PROVE  q = p
    BY <2>2, <1>2 DEF OwnersExclude, SameWindow
  <2> QED BY <2>1, <2>2 DEF OwnersExclude
<1>4. ASSUME NEW j \in Jobs, NEW w \in CronTimes
      PROVE  /\ runs'[j][w] <= 1
             /\ log'[j][w] = "absent" => runs'[j][w] = 0 /\ done'[j][w] = 0
             /\ log'[j][w] = "succeeded" => done'[j][w] = 1
  BY DEF RunsCounted, OnlyRow
<1>5. ASSUME NEW q \in Runners
      PROVE  /\ CallAt(q, "run")' => /\ runs'[runner'[q].job][Window(q)'] = 0
                                 /\ done'[runner'[q].job][Window(q)'] = 0
             /\ CallAt(q, "finish")' => done'[runner'[q].job][Window(q)'] = 1
  <2>1. CASE ~Owns(q)' BY <2>1 DEF Owns, CallAt
  <2>2. CASE Owns(q)' BY <2>2, <1>2 DEF RunsCounted, CallAt
  <2> QED BY <2>1, <2>2
<1> QED BY <1>3, <1>4, <1>5 DEF RunsCounted

\* So does a call that takes a free window or goes on with the one it holds.
LEMMA Kept ==
  ASSUME CronInv, CronTypeOK', NEW r \in Runners, Others(r), OnlyRow(r),
         runner[r] \in Runner, Owns(r) \/ Claimed(r) = "absent",
         Owns(r)', runner'[r].job = runner[r].job, Window(r)' = Window(r),
         LET j == runner[r].job  w == Window(r) IN
           /\ runs'[j][w] <= 1
           /\ log'[j][w] = "running"
           /\ CallAt(r, "run")' => runs'[j][w] = 0 /\ done'[j][w] = 0
           /\ CallAt(r, "finish")' => done'[j][w] = 1
  PROVE  OwnersExclude' /\ RunsCounted'
<1> USE DEF CronInv
<1>1. ASSUME NEW q \in Runners, Owns(q)', q # r
      PROVE  /\ runner'[q] = runner[q] /\ Owns(q)
             /\ Window(q)' = Window(q) /\ Window(q) \in CronTimes /\ runner[q].job \in Jobs
             /\ ~SameWindow(q, r)
             /\ log'[runner[q].job][Window(q)] = log[runner[q].job][Window(q)]
             /\ runs'[runner[q].job][Window(q)] = runs[runner[q].job][Window(q)]
             /\ done'[runner[q].job][Window(q)] = done[runner[q].job][Window(q)]
  <2>1. runner'[q] = runner[q] BY <1>1 DEF Others
  <2>2. Owns(q) /\ Window(q)' = Window(q)
    BY <1>1, <2>1 DEF Owns, Window, WindowStart
  <2>3. Window(q) \in CronTimes /\ runner[q].job \in Jobs
    BY <2>2, BusyRunner DEF Owns
  <2>4. ~SameWindow(q, r)
    <3>1. CASE Owns(r) BY <3>1, <1>1, <2>2 DEF OwnersExclude
    <3>2. CASE Claimed(r) = "absent" BY <3>2, <2>2 DEF OwnersExclude, SameWindow, Claimed
    <3> QED BY <3>1, <3>2
  <2> QED BY <2>1, <2>2, <2>3, <2>4 DEF OnlyRow, SameWindow
<1>2. OwnersExclude'
  <2>1. ASSUME NEW q \in Runners, Owns(q)' PROVE Claimed(q)' = "running"
    BY <2>1, <1>1 DEF OwnersExclude, Claimed
  <2>2. ASSUME NEW q \in Runners, NEW p \in Runners, Owns(q)', Owns(p)', SameWindow(q, p)', q # p
        PROVE  FALSE
    <3>1. CASE q # r /\ p # r BY <3>1, <2>2, <1>1 DEF OwnersExclude, SameWindow
    <3>2. CASE q = r \/ p = r BY <3>2, <2>2, <1>1 DEF SameWindow
    <3> QED BY <3>1, <3>2
  <2> QED BY <2>1, <2>2 DEF OwnersExclude
<1>3. ASSUME NEW j \in Jobs, NEW w \in CronTimes
      PROVE  /\ runs'[j][w] <= 1
             /\ log'[j][w] = "absent" => runs'[j][w] = 0 /\ done'[j][w] = 0
             /\ log'[j][w] = "succeeded" => done'[j][w] = 1
  BY DEF RunsCounted, OnlyRow
<1>4. ASSUME NEW q \in Runners
      PROVE  /\ CallAt(q, "run")' => /\ runs'[runner'[q].job][Window(q)'] = 0
                                 /\ done'[runner'[q].job][Window(q)'] = 0
             /\ CallAt(q, "finish")' => done'[runner'[q].job][Window(q)'] = 1
  <2>1. CASE ~Owns(q)' BY <2>1 DEF Owns, CallAt
  <2>2. CASE Owns(q)' /\ q # r BY <2>2, <1>1 DEF RunsCounted, CallAt
  <2>3. CASE q = r BY <2>3 DEF CallAt
  <2> QED BY <2>1, <2>2, <2>3
<1> QED BY <1>2, <1>3, <1>4 DEF RunsCounted

\* And a step that touches neither a row nor a call that holds one.
LEMMA Untouched ==
  ASSUME CronInv, UNCHANGED << log, runs, done >>, NEW r,
         \A q \in Runners : q # r => runner'[q] = runner[q],
         r \in Runners => ~Owns(r)'
  PROVE  OwnersExclude' /\ RunsCounted'
<1> USE DEF CronInv
<1>1. ASSUME NEW q \in Runners, Owns(q)'
      PROVE  runner'[q] = runner[q] /\ Owns(q) /\ Window(q)' = Window(q)
  BY <1>1 DEF Owns, Window, WindowStart
<1>2. OwnersExclude'
  BY <1>1 DEF OwnersExclude, Claimed, SameWindow
<1>3. ASSUME NEW q \in Runners
      PROVE  /\ CallAt(q, "run")' => /\ runs'[runner'[q].job][Window(q)'] = 0
                                 /\ done'[runner'[q].job][Window(q)'] = 0
             /\ CallAt(q, "finish")' => done'[runner'[q].job][Window(q)'] = 1
  <2>1. CASE ~Owns(q)' BY <2>1 DEF Owns, CallAt
  <2>2. CASE Owns(q)' BY <2>2, <1>1 DEF RunsCounted, CallAt
  <2> QED BY <2>1, <2>2
<1> QED BY <1>2, <1>3 DEF RunsCounted

-----------------------------------------------------------------------------
\* Writing a row writes one of the statuses of the log, and that row alone.
LEMMA SetLogMoves ==
  ASSUME CronTypeOK, NEW r \in Runners, runner[r].pc # "idle",
         NEW s \in { "absent", "running", "succeeded", "failed" }, SetLog(r, s)
  PROVE  /\ log' \in [Jobs -> [CronTimes -> { "absent", "running", "succeeded", "failed" }]]
         /\ log'[runner[r].job][Window(r)] = s
         /\ \A j \in Jobs : \A w \in CronTimes :
              ~(j = runner[r].job /\ w = Window(r)) => log'[j][w] = log[j][w]
BY BusyRunner DEF CronTypeOK, SetLog

\* Counting in a cell counts there and nowhere else.
LEMMA CountMoves ==
  ASSUME NEW f \in [Jobs -> [CronTimes -> Nat]], NEW g, NEW j \in Jobs, NEW w \in CronTimes,
         g = [f EXCEPT ![j][w] = @ + 1]
  PROVE  /\ g \in [Jobs -> [CronTimes -> Nat]]
         /\ g[j][w] = f[j][w] + 1
         /\ \A i \in Jobs : \A v \in CronTimes : ~(i = j /\ v = w) => g[i][v] = f[i][v]
OBVIOUS

LEMMA CronInitInv == CronInit => CronInv
<1> SUFFICES ASSUME CronInit PROVE CronInv OBVIOUS
<1>1. CronTypeOK BY CronAssumption DEF CronInit, CronTypeOK, CronTimes
<1>2. \A r \in Runners : runner[r].pc = "idle" BY DEF CronInit, NoCall
<1> QED BY <1>1, <1>2 DEF CronInit, CronInv, OwnersExclude, RunsCounted, Owns, CallAt

LEMMA ClaimInv == ASSUME CronInv, NEW r \in Runners, Claim(r) PROVE CronInv'
<1> USE DEF CronInv
<1>1. runner[r] \in Runner /\ runner[r].job \in Jobs /\ Window(r) \in CronTimes
  BY BusyRunner DEF Claim, CallAt
<1>2. CASE Claimed(r) = "absent"
  <2>1. SetLog(r, "running") /\ CallGoto(r, "run") /\ UNCHANGED << now, runs, done, cronFaults >>
    BY <1>2 DEF Claim, Claimed
  <2>2. runner[r].pc # "idle" BY DEF Claim, CallAt
  <2>3. /\ runner' \in [Runners -> Runner \cup {NoCall}]
        /\ \A q \in Runners \ {r} : runner'[q] = runner[q]
        /\ runner'[r].pc = "run" /\ runner'[r].job = runner[r].job
        /\ Window(r)' = Window(r)
    BY <1>1, <2>1, GotoMoves DEF PC
  <2>4. CronTypeOK' BY <2>1, <2>2, <2>3, SetLogMoves DEF CronTypeOK
  <2>5. OnlyRow(r) /\ log'[runner[r].job][Window(r)] = "running"
    BY <2>1, <2>2, SetLogMoves DEF OnlyRow
  <2>6. runs[runner[r].job][Window(r)] = 0 /\ done[runner[r].job][Window(r)] = 0
    BY <1>1, <1>2 DEF RunsCounted, Claimed
  <2> QED BY <1>1, <1>2, <2>1, <2>3, <2>4, <2>5, <2>6, Kept DEF Others, Owns, CallAt
<1>3. CASE Claimed(r) # "absent"
  <2>1. NextJob(r) /\ UNCHANGED << now, log, runs, done, cronFaults >>
    BY <1>3 DEF Claim, Claimed
  <2>2. /\ runner' \in [Runners -> Runner \cup {NoCall}]
        /\ \A q \in Runners \ {r} : runner'[q] = runner[q]
        /\ runner'[r].pc \in { "idle", "claim" }
    BY <1>1, <2>1, NextJobMoves
  <2>3. CronTypeOK' BY <2>1, <2>2 DEF CronTypeOK
  <2> QED BY <2>1, <2>2, <2>3, Untouched DEF Owns
<1> QED BY <1>2, <1>3

LEMMA RunInv == ASSUME CronInv, NEW r \in Runners, Run(r) PROVE CronInv'
<1> USE DEF CronInv
<1> DEFINE j == runner[r].job
           w == Window(r)
<1>1. runner[r] \in Runner /\ j \in Jobs /\ w \in CronTimes
  BY BusyRunner DEF Run, CallAt
<1>2. /\ runs' \in [Jobs -> [CronTimes -> Nat]] /\ runs'[j][w] = runs[j][w] + 1
      /\ \A i \in Jobs : \A v \in CronTimes : ~(i = j /\ v = w) => runs'[i][v] = runs[i][v]
  <2>1. runs' = [runs EXCEPT ![j][w] = @ + 1] BY DEF Run
  <2> QED BY <1>1, <2>1, CountMoves DEF CronTypeOK
<1>3. runs[j][w] = 0 /\ done[j][w] = 0 /\ log[j][w] = "running"
  BY DEF Run, RunsCounted, OwnersExclude, Owns, CallAt, Claimed
<1>4. ASSUME NEW pc \in { "finish", "fail" }, CallGoto(r, pc)
      PROVE  /\ runner' \in [Runners -> Runner \cup {NoCall}]
             /\ \A q \in Runners \ {r} : runner'[q] = runner[q]
             /\ runner'[r].pc = pc /\ runner'[r].job = runner[r].job
             /\ Window(r)' = Window(r)
  BY <1>1, <1>4, GotoMoves DEF PC
<1>5. CASE done' = [done EXCEPT ![j][w] = @ + 1] /\ CallGoto(r, "finish") /\ UNCHANGED cronFaults
  <2>1. /\ done' \in [Jobs -> [CronTimes -> Nat]] /\ done'[j][w] = done[j][w] + 1
        /\ \A i \in Jobs : \A v \in CronTimes : ~(i = j /\ v = w) => done'[i][v] = done[i][v]
    BY <1>1, <1>5, CountMoves DEF CronTypeOK
  <2>2. UNCHANGED << now, log, cronFaults >> BY <1>5 DEF Run
  <2>3. CronTypeOK' BY <1>2, <1>4, <1>5, <2>1, <2>2 DEF CronTypeOK
  <2>4. OnlyRow(r) BY <1>2, <2>1, <2>2 DEF OnlyRow
  <2>5. runner'[r].pc = "finish" /\ Others(r) BY <1>4, <1>5 DEF Others
  <2>6. Owns(r) /\ Owns(r)' /\ ~CallAt(r, "run")' BY <2>5 DEF Owns, Run, CallAt
  <2> QED BY <1>1, <1>2, <1>3, <1>4, <1>5, <2>1, <2>2, <2>3, <2>4, <2>5, <2>6, Kept
<1>6. CASE CronFault /\ CallGoto(r, "fail") /\ UNCHANGED done
  <2>1. UNCHANGED << now, log, done >> BY <1>6 DEF Run
  <2>2. cronFaults' \in 0 .. MaxCronFaults BY <1>6, CronAssumption DEF CronFault, CronTypeOK
  <2>3. CronTypeOK' BY <1>2, <1>4, <1>6, <2>1, <2>2 DEF CronTypeOK
  <2>4. OnlyRow(r) BY <1>2, <2>1 DEF OnlyRow
  <2>5. runner'[r].pc = "fail" /\ Others(r) BY <1>4, <1>6 DEF Others
  <2>6. Owns(r) /\ Owns(r)' /\ ~CallAt(r, "run")' /\ ~CallAt(r, "finish")'
    BY <2>5 DEF Owns, Run, CallAt
  <2> QED BY <1>1, <1>2, <1>3, <1>4, <1>6, <2>1, <2>3, <2>4, <2>5, <2>6, Kept
<1> QED BY <1>5, <1>6 DEF Run

\* The two ways a run's outcome is recorded.
LEMMA SettleInv ==
  ASSUME CronInv, NEW r \in Runners, NEW s \in { "succeeded", "failed" }, Owns(r),
         s = "succeeded" => CallAt(r, "finish"),
         SetLog(r, s), NextJob(r), UNCHANGED << now, runs, done, cronFaults >>
  PROVE  CronInv'
<1> USE DEF CronInv
<1>1. runner[r].pc # "idle" BY DEF Owns
<1>2. runner[r] \in Runner /\ runner[r].job \in Jobs /\ Window(r) \in CronTimes
  BY <1>1, BusyRunner
<1>3. /\ runner' \in [Runners -> Runner \cup {NoCall}]
      /\ \A q \in Runners \ {r} : runner'[q] = runner[q]
      /\ runner'[r].pc \in { "idle", "claim" }
  BY <1>2, NextJobMoves
<1>4. /\ log' \in [Jobs -> [CronTimes -> { "absent", "running", "succeeded", "failed" }]]
      /\ log'[runner[r].job][Window(r)] = s
      /\ OnlyRow(r)
  BY <1>1, SetLogMoves DEF OnlyRow
<1>5. CronTypeOK' BY <1>3, <1>4 DEF CronTypeOK
<1>6. runs[runner[r].job][Window(r)] <= 1 /\ (s = "succeeded" => done[runner[r].job][Window(r)] = 1)
  BY <1>2 DEF RunsCounted
<1> QED BY <1>2, <1>3, <1>4, <1>5, <1>6, Released DEF Others

LEMMA FinishFailsInv == ASSUME CronInv, NEW r \in Runners, FinishFails(r) PROVE CronInv'
<1> USE DEF CronInv
<1>1. runner[r] \in Runner /\ runner[r].job \in Jobs /\ Window(r) \in CronTimes /\ Owns(r)
  BY BusyRunner DEF FinishFails, CallAt, Owns
<1>2. /\ runner' \in [Runners -> Runner \cup {NoCall}]
      /\ \A q \in Runners \ {r} : runner'[q] = runner[q]
      /\ runner'[r].pc = "fail" /\ runner'[r].job = runner[r].job
      /\ Window(r)' = Window(r)
  BY <1>1, GotoMoves DEF FinishFails, PC
<1>3. UNCHANGED << now, log, runs, done >> /\ cronFaults' \in 0 .. MaxCronFaults
  BY CronAssumption DEF FinishFails, CronFault, CronTypeOK
<1>4. CronTypeOK' BY <1>2, <1>3 DEF CronTypeOK
<1>5. OnlyRow(r) /\ Others(r) BY <1>2, <1>3 DEF OnlyRow, Others
<1>6. Owns(r)' /\ ~CallAt(r, "run")' /\ ~CallAt(r, "finish")' BY <1>2 DEF Owns, CallAt
<1>7. runs[runner[r].job][Window(r)] <= 1 /\ log[runner[r].job][Window(r)] = "running"
  BY <1>1 DEF RunsCounted, OwnersExclude, Claimed
<1> QED BY <1>1, <1>2, <1>3, <1>4, <1>5, <1>6, <1>7, Kept

LEMMA AbortInv == ASSUME CronInv, NEW r \in Runners, AbortCall(r) PROVE CronInv'
<1> USE DEF CronInv
<1>1. runner[r] \in Runner /\ runner[r].job \in Jobs /\ Window(r) \in CronTimes
  BY BusyRunner DEF AbortCall, NoCall, CronTypeOK, Runner, PC
<1>2. /\ runner' \in [Runners -> Runner \cup {NoCall}]
      /\ \A q \in Runners \ {r} : runner'[q] = runner[q]
      /\ runner'[r].pc = "idle"
  BY StopMoves DEF AbortCall
<1>3. UNCHANGED << now, log, done >> /\ cronFaults' \in 0 .. MaxCronFaults
  BY CronAssumption DEF AbortCall, CronFault, CronTypeOK
<1>4. CASE UNCHANGED runs
  <2>1. CronTypeOK' BY <1>2, <1>3, <1>4 DEF CronTypeOK
  <2> QED BY <1>2, <1>3, <1>4, <2>1, Untouched DEF Owns
<1>5. CASE CallAt(r, "run") /\ runs' = [runs EXCEPT ![runner[r].job][Window(r)] = @ + 1]
  <2>1. /\ runs' \in [Jobs -> [CronTimes -> Nat]]
        /\ runs'[runner[r].job][Window(r)] = runs[runner[r].job][Window(r)] + 1
        /\ \A i \in Jobs : \A v \in CronTimes :
             ~(i = runner[r].job /\ v = Window(r)) => runs'[i][v] = runs[i][v]
    BY <1>1, <1>5, CountMoves DEF CronTypeOK
  <2>2. CronTypeOK' BY <1>2, <1>3, <2>1 DEF CronTypeOK
  <2>3. OnlyRow(r) /\ Others(r) BY <1>2, <1>3, <2>1 DEF OnlyRow, Others
  <2>4. Owns(r) /\ Claimed(r) = "running" /\ runs[runner[r].job][Window(r)] = 0
    BY <1>5 DEF Owns, CallAt, RunsCounted, OwnersExclude
  <2> QED BY <1>1, <1>2, <1>3, <2>1, <2>2, <2>3, <2>4, Released DEF Claimed
<1> QED BY <1>4, <1>5 DEF AbortCall

LEMMA InvokeInv ==
  ASSUME CronInv, NEW r \in Runners, NEW j \in Jobs, NEW only \in BOOLEAN, Invoke(r, j, only)
  PROVE  CronInv'
<1> USE DEF CronInv
<1>1. [pc |-> "claim", job |-> j, only |-> only, time |-> now] \in Runner
  BY DEF Runner, PC, CronTypeOK
<1>2. /\ runner' \in [Runners -> Runner \cup {NoCall}]
      /\ \A q \in Runners \ {r} : runner'[q] = runner[q]
      /\ runner'[r].pc = "claim"
  BY <1>1 DEF Invoke, CronTypeOK
<1>3. CronTypeOK' BY <1>2 DEF Invoke, CronTypeOK
<1> QED BY <1>2, <1>3, Untouched DEF Invoke, Owns

LEMMA TickInv == ASSUME CronInv, Tick \/ UNCHANGED cronVars PROVE CronInv'
<1> USE DEF CronInv
<1>1. UNCHANGED << log, runner, runs, done, cronFaults >> BY DEF Tick, cronVars
<1>2. now' \in CronTimes BY CronAssumption DEF Tick, cronVars, CronTypeOK, CronTimes
<1>3. CronTypeOK' BY <1>1, <1>2 DEF CronTypeOK
<1>4. OwnersExclude' BY <1>1 DEF OwnersExclude, Owns, Claimed, SameWindow, Window, WindowStart
<1>5. RunsCounted' BY <1>1 DEF RunsCounted, CallAt, Window, WindowStart
<1> QED BY <1>3, <1>4, <1>5

-----------------------------------------------------------------------------
LEMMA CronInductive == CronSpec => []CronInv
<1>1. CronInv /\ [CronNext]_cronVars => CronInv'
  <2> SUFFICES ASSUME CronInv, [CronNext]_cronVars PROVE CronInv' OBVIOUS
  <2>1. CASE Tick \/ UNCHANGED cronVars BY <2>1, TickInv
  <2>2. ASSUME NEW r \in Runners, InvokeAll(r) PROVE CronInv'
    <3>1. 1 \in Jobs BY CronAssumption DEF Jobs
    <3> QED BY <2>2, <3>1, InvokeInv DEF InvokeAll
  <2>3. ASSUME NEW r \in Runners, InvokeOne(r) PROVE CronInv'
    BY <2>3, InvokeInv DEF InvokeOne
  <2>4. ASSUME NEW r \in Runners, Claim(r) PROVE CronInv' BY <2>4, ClaimInv
  <2>5. ASSUME NEW r \in Runners, Run(r) PROVE CronInv' BY <2>5, RunInv
  <2>6. ASSUME NEW r \in Runners, Finish(r) PROVE CronInv'
    BY <2>6, SettleInv DEF Finish, CallAt, Owns
  <2>7. ASSUME NEW r \in Runners, Fail(r) PROVE CronInv'
    BY <2>7, SettleInv DEF Fail, CallAt, Owns
  <2>8. ASSUME NEW r \in Runners, FinishFails(r) PROVE CronInv' BY <2>8, FinishFailsInv
  <2>9. ASSUME NEW r \in Runners, AbortCall(r) PROVE CronInv' BY <2>9, AbortInv
  <2> QED BY <2>1, <2>2, <2>3, <2>4, <2>5, <2>6, <2>7, <2>8, <2>9 DEF CronNext, CallStep
<1> QED BY <1>1, CronInitInv, PTL DEF CronSpec

\* The clock, the log, the calls and the counters keep their types.
THEOREM CronTypeCorrect == CronSpec => []CronTypeOK
<1>1. CronInv => CronTypeOK BY DEF CronInv
<1> QED BY <1>1, CronInductive, PTL

\* However many calls of the dispatch route overlap, fail or are killed, a job runs
\* at most once in a window of its cadence.
THEOREM OnceCorrect == CronSpec => []OncePerWindow
<1>1. CronInv => OncePerWindow BY WindowInTimes DEF CronInv, RunsCounted, OncePerWindow
<1> QED BY <1>1, CronInductive, PTL

\* A row of the log that says succeeded stands for a run that returned.
THEOREM SucceededCorrect == CronSpec => []SucceededRan
<1>1. CronInv => SucceededRan BY DEF CronInv, RunsCounted, SucceededRan
<1> QED BY <1>1, CronInductive, PTL

-----------------------------------------------------------------------------
(* Enquiries.                                                              *)


RequestPCs == { "idle", "job", "visit", "lead", "undovisit", "undojob" }
Call == [pc : RequestPCs, lead : Lead \cup { None }, full : BOOLEAN, job : BOOLEAN, visit : { "none", "on", "off" }]
ChasePCs == { "idle", "chase", "visits", "schedule", "clear" }
RecallPCs == { "idle", "recall", "mark" }
Walk == [pc : ChasePCs \cup RecallPCs, list : SUBSET Lead, cur : Lead \cup { None }, todo : SUBSET Step]
Entry == [status : Statuses \cup { "none" }, next : Nexts, recalled : BOOLEAN]
Bounds == [leads : SUBSET Lead, runs : SUBSET Runs, confirmations : Nat, edits : Nat, faults : Nat]

\* What a confirmation has made by the step it is at.
CallOK(q) ==
  /\ q.pc = "idle" => q = Free
  /\ q.pc # "idle" => q.lead \in Lead
  /\ q.pc = "job" => ~q.job
  /\ q.pc \in { "visit", "lead", "undovisit", "undojob" } => q.job
  /\ q.pc \in { "job", "visit", "undojob" } => q.visit = "none"
  /\ q.pc \in { "lead", "undovisit" } => q.visit # "none"

\* Each cron job is at its own steps, with one of its leads.
WalkOK(c, w) ==
  /\ w.pc \in (IF c \in Chaser THEN ChasePCs ELSE RecallPCs)
  /\ w.pc = "idle" => w = Asleep
  /\ w.pc \in { "chase", "recall" } => w.cur = None
  /\ w.pc \in { "visits", "schedule", "clear", "mark" } => w.cur \in w.list

\* The type invariant as it is inductive; that jobs and appointments are never
\* fewer than none needs the accounts below.
TypeInv ==
  /\ lead \in [Lead -> Entry]
  /\ jobs \in [Lead -> Int] /\ visits \in [Lead -> Int]
  /\ req \in [Request -> Call] /\ \A r \in Request : CallOK(req[r])
  /\ run \in [Runs -> Walk] /\ \A c \in Runs : WalkOK(c, run[c])
  /\ stale \in [Runs -> [listed : SUBSET Lead, looked : BOOLEAN]]
  /\ owed \in [Lead -> SUBSET Step] /\ asked \in [Lead -> Nat]
  /\ booked \in [Lead -> [all : Nat, full : Nat]] /\ opened \in [Lead -> Nat]
  /\ refused \in Nat /\ cut \in Nat /\ aborted \in Nat
  /\ budget \in Bounds

-----------------------------------------------------------------------------
(* What the pieces of an action do.                                        *)

LEMMA Spends ==
  ASSUME budget \in Bounds, NEW bound \in { "confirmations", "edits", "faults" }, Spend(bound)
  PROVE  budget' \in Bounds
BY DEF Bounds, Spend

\* A confirmation goes on as another record of its type.
LEMMA Moves ==
  ASSUME TypeInv, NEW r \in Request, NEW q \in Call, CallOK(q), req' = [req EXCEPT ![r] = q]
  PROVE  /\ req' \in [Request -> Call] /\ (\A p \in Request : CallOK(req'[p]))
         /\ req'[r] = q /\ \A p \in Request \ { r } : req'[p] = req[p]
<1>1. req' \in [Request -> Call] /\ req'[r] = q /\ \A p \in Request \ { r } : req'[p] = req[p] BY DEF TypeInv
<1>2. \A p \in Request : CallOK(req'[p])
  <2> SUFFICES ASSUME NEW p \in Request PROVE CallOK(req'[p]) OBVIOUS
  <2>1. CASE p = r BY <2>1, <1>1
  <2>2. CASE p # r
    <3>1. req'[p] = req[p] BY <2>2, <1>1
    <3>2. CallOK(req[p]) BY DEF TypeInv
    <3> QED BY <3>1, <3>2
  <2> QED BY <2>1, <2>2
<1> QED BY <1>1, <1>2

\* So does a run.
LEMMA Walks ==
  ASSUME TypeInv, NEW c \in Runs, NEW w \in Walk, WalkOK(c, w), run' = [run EXCEPT ![c] = w]
  PROVE  /\ run' \in [Runs -> Walk] /\ (\A d \in Runs : WalkOK(d, run'[d]))
         /\ run'[c] = w /\ \A d \in Runs \ { c } : run'[d] = run[d]
<1>1. run' \in [Runs -> Walk] /\ run'[c] = w /\ \A d \in Runs \ { c } : run'[d] = run[d] BY DEF TypeInv
<1>2. \A d \in Runs : WalkOK(d, run'[d])
  <2> SUFFICES ASSUME NEW d \in Runs PROVE WalkOK(d, run'[d]) OBVIOUS
  <2>1. CASE d = c BY <2>1, <1>1
  <2>2. CASE d # c
    <3>1. run'[d] = run[d] BY <2>2, <1>1
    <3>2. WalkOK(d, run[d]) BY DEF TypeInv
    <3> QED BY <3>1, <3>2
  <2> QED BY <2>1, <2>2
<1> QED BY <1>1, <1>2

LEMMA Rests ==
  /\ Free \in Call /\ CallOK(Free) /\ Free.pc = "idle" /\ Free.lead = None /\ ~Free.job /\ Free.visit = "none"
  /\ Asleep \in Walk /\ (\A c : WalkOK(c, Asleep)) /\ Asleep.pc = "idle" /\ Asleep.list = {} /\ Asleep.cur = None
  /\ Fresh \in [listed : SUBSET Lead, looked : BOOLEAN] /\ Fresh.listed = {} /\ ~Fresh.looked
<1>1. /\ Free \in Call /\ CallOK(Free) /\ Free.pc = "idle" /\ Free.lead = None /\ Free.visit = "none"
  BY DEF Free, Call, CallOK, RequestPCs
<1>1a. ~Free.job BY Zenon DEF Free
<1>2. Asleep \in Walk /\ (\A c : WalkOK(c, Asleep)) /\ Asleep.pc = "idle" /\ Asleep.list = {} /\ Asleep.cur = None
  BY DEF Asleep, Walk, WalkOK, ChasePCs, RecallPCs
<1>3. Fresh \in [listed : SUBSET Lead, looked : BOOLEAN] /\ Fresh.listed = {} BY DEF Fresh
<1>4. ~Fresh.looked BY Zenon DEF Fresh
<1> QED BY <1>1, <1>1a, <1>2, <1>3, <1>4

\* A lead is written; those that listed it or are at it are marked.
LEMMA Writes ==
  ASSUME TypeInv, NEW l \in Lead, NEW status \in Statuses, NEW next \in Nexts, Write(l, status, next)
  PROVE  /\ lead' \in [Lead -> Entry] /\ (\A m \in Lead \ { l } : lead'[m] = lead[m])
         /\ lead'[l].status = status /\ lead'[l].next = next /\ lead'[l].recalled = lead[l].recalled
         /\ opened' \in [Lead -> Nat] /\ owed' \in [Lead -> SUBSET Step]
         /\ (\A m \in Lead \ { l } : opened'[m] = opened[m])
         /\ opened'[l] = opened[l] + (IF lead[l].status \in { "none", "booked" } /\ status # "booked" THEN 1 ELSE 0)
         /\ stale' \in [Runs -> [listed : SUBSET Lead, looked : BOOLEAN]]
         /\ \A c \in Runs :
              /\ stale[c].listed \subseteq stale'[c].listed /\ (stale[c].looked => stale'[c].looked)
              /\ l \in run[c].list => l \in stale'[c].listed
              /\ run[c].cur = l => stale'[c].looked
<1>1. lead \in [Lead -> Entry] /\ lead[l] \in Entry BY DEF TypeInv
<1> DEFINE row == [lead[l] EXCEPT !.status = status, !.next = next]
<1>2. row \in Entry /\ row.status = status /\ row.next = next /\ row.recalled = lead[l].recalled
  BY <1>1 DEF Entry
<1>3. lead' = [lead EXCEPT ![l] = row] BY <1>1 DEF Write, Entry
<1> HIDE DEF row
<1>4. lead' \in [Lead -> Entry] /\ lead'[l] = row /\ \A m \in Lead \ { l } : lead'[m] = lead[m] BY <1>1, <1>2, <1>3
<1>5. /\ opened' \in [Lead -> Nat] /\ (\A m \in Lead \ { l } : opened'[m] = opened[m])
      /\ opened'[l] = opened[l] + (IF lead[l].status \in { "none", "booked" } /\ status # "booked" THEN 1 ELSE 0)
  BY DEF TypeInv, Write
<1>6. owed' \in [Lead -> SUBSET Step] BY DEF TypeInv, Write
<1>7. stale \in [Runs -> [listed : SUBSET Lead, looked : BOOLEAN]] BY DEF TypeInv
<1>8. stale' = [c \in Runs |-> [listed |-> stale[c].listed \cup ({ l } \cap run[c].list),
                                looked |-> stale[c].looked \/ run[c].cur = l]] BY DEF Write
<1>9. stale' \in [Runs -> [listed : SUBSET Lead, looked : BOOLEAN]] BY <1>7, <1>8
<1>10. \A c \in Runs : /\ stale'[c].listed = stale[c].listed \cup ({ l } \cap run[c].list)
                       /\ stale'[c].looked = (stale[c].looked \/ run[c].cur = l)
  BY <1>8, Zenon
<1> QED BY <1>2, <1>4, <1>5, <1>6, <1>9, <1>10

\* A run leaves a lead for the next or ends.
LEMMA Leaves ==
  ASSUME TypeInv, NEW c \in Runs, NEW l \in Lead, NEW pc \in { "chase", "recall" },
         pc = (IF c \in Chaser THEN "chase" ELSE "recall"), Leave(c, l, pc)
  PROVE  /\ run' \in [Runs -> Walk] /\ (\A d \in Runs : WalkOK(d, run'[d]))
         /\ stale' \in [Runs -> [listed : SUBSET Lead, looked : BOOLEAN]]
         /\ (\A d \in Runs \ { c } : run'[d] = run[d] /\ stale'[d] = stale[d])
         /\ run'[c].list = run[c].list \ { l } /\ run'[c].pc \in { "idle", pc } /\ run'[c].cur = None
         /\ (run'[c].list \cap stale[c].listed) \subseteq stale'[c].listed
<1> DEFINE left == run[c].list \ { l }
           more == [Asleep EXCEPT !.pc = pc, !.list = left]
           w == IF left = {} THEN Asleep ELSE more
           news == [listed |-> stale[c].listed \ { l }, looked |-> FALSE]
           t == IF left = {} THEN Fresh ELSE news
<1>1. run[c] \in Walk /\ stale[c] \in [listed : SUBSET Lead, looked : BOOLEAN] BY DEF TypeInv
<1>2. left \subseteq Lead BY <1>1 DEF Walk
<1>3. more \in Walk /\ more.list = left /\ more.pc = pc /\ more.cur = None
  BY <1>2 DEF Asleep, Walk, ChasePCs, RecallPCs
<1>4. WalkOK(c, more) BY <1>3 DEF WalkOK, ChasePCs, RecallPCs
<1>5. news \in [listed : SUBSET Lead, looked : BOOLEAN] /\ news.listed = stale[c].listed \ { l } BY <1>1
<1>6. run' = [run EXCEPT ![c] = w] /\ stale' = [stale EXCEPT ![c] = t] BY DEF Leave
<1> HIDE DEF more, news
<1>7. w \in Walk /\ WalkOK(c, w) /\ w.list = left /\ w.pc \in { "idle", pc } /\ w.cur = None
  BY <1>3, <1>4, Rests
<1>8. t \in [listed : SUBSET Lead, looked : BOOLEAN] /\ (left \cap stale[c].listed) \subseteq t.listed
  BY <1>5, Rests
<1> HIDE DEF w, t
<1>9. /\ run' \in [Runs -> Walk] /\ (\A d \in Runs : WalkOK(d, run'[d]))
      /\ run'[c] = w /\ \A d \in Runs \ { c } : run'[d] = run[d]
  BY <1>6, <1>7, Walks
<1>10. /\ stale' \in [Runs -> [listed : SUBSET Lead, looked : BOOLEAN]]
       /\ stale'[c] = t /\ \A d \in Runs \ { c } : stale'[d] = stale[d]
  BY <1>6, <1>8 DEF TypeInv
<1> QED BY <1>7, <1>8, <1>9, <1>10

-----------------------------------------------------------------------------
(* The record a confirmation goes on as, action by action.                 *)

Becomes(r, q) == q \in Call /\ CallOK(q) /\ req' = [req EXCEPT ![r] = q]

\* The same confirmation, further on.
Same(q, p) == q.lead = p.lead /\ q.full = p.full

LEMMA Looks ==
  ASSUME TypeInv, NEW r \in Request, NEW l \in Lead, NEW full \in BOOLEAN, Look(r, l, full)
  PROVE  \E q : Becomes(r, q) /\ q.pc = "job" /\ q.lead = l /\ q.full = full /\ ~q.job /\ q.visit = "none"
<1> DEFINE q == [Free EXCEPT !.pc = "job", !.lead = l, !.full = full]
<1>1. q \in Call /\ q.pc = "job" /\ q.lead = l /\ q.visit = "none" BY DEF Free, Call, RequestPCs
<1>2. ~q.job BY Zenon DEF Free
<1>3. q.full = full BY DEF Free
<1>4. CallOK(q) BY <1>1, <1>2 DEF CallOK
<1>5. req' = [req EXCEPT ![r] = q] BY DEF Look
<1> HIDE DEF q
<1> QED BY <1>1, <1>2, <1>3, <1>4, <1>5 DEF Becomes

LEMMA CallIs == TypeInv => \A r \in Request : req[r] \in Call /\ CallOK(req[r])
BY DEF TypeInv

LEMMA JobIsMade ==
  ASSUME TypeInv, NEW r \in Request, Job(r)
  PROVE  \E q : Becomes(r, q) /\ Same(q, req[r]) /\ q.pc = "visit" /\ q.job /\ q.visit = "none"
<1> DEFINE q == [req[r] EXCEPT !.pc = "visit", !.job = TRUE]
<1>1. req[r] \in Call /\ CallOK(req[r]) /\ req[r].pc = "job" BY CallIs DEF Job, At
<1>2. q \in Call /\ q.pc = "visit" /\ q.lead = req[r].lead /\ q.full = req[r].full /\ q.visit = req[r].visit
  BY <1>1 DEF Call, RequestPCs
<1>3. q.job BY <1>1, Zenon DEF Call
<1>4. req' = [req EXCEPT ![r] = q] BY DEF Job
<1> HIDE DEF q
<1>5. CallOK(q) /\ q.visit = "none" BY <1>1, <1>2, <1>3 DEF CallOK
<1> QED BY <1>2, <1>3, <1>4, <1>5 DEF Becomes, Same

LEMMA VisitIsMade ==
  ASSUME TypeInv, NEW r \in Request, Visit(r)
  PROVE  \E q : Becomes(r, q) /\ Same(q, req[r]) /\ q.pc = "lead" /\ q.job /\ q.visit = "on"
<1> DEFINE q == [req[r] EXCEPT !.pc = "lead", !.visit = "on"]
<1>1. req[r] \in Call /\ CallOK(req[r]) /\ req[r].pc = "visit" BY CallIs DEF Visit, At
<1>2. q \in Call /\ q.pc = "lead" /\ q.lead = req[r].lead /\ q.full = req[r].full /\ q.visit = "on"
  BY <1>1 DEF Call, RequestPCs
<1>3. q.job = req[r].job BY <1>1 DEF Call
<1>4. req' = [req EXCEPT ![r] = q] BY DEF Visit
<1> HIDE DEF q
<1>5. CallOK(q) /\ q.job BY <1>1, <1>2, <1>3 DEF CallOK
<1> QED BY <1>2, <1>4, <1>5 DEF Becomes, Same

\* The clean-up starts with what the request knows it made.
LEMMA Undoes ==
  ASSUME TypeInv, NEW r \in Request, req[r].pc \in { "job", "visit", "lead" }, req' = [req EXCEPT ![r] = Undo(r)]
  PROVE  \E q : /\ Becomes(r, q)
                /\ req[r].pc = "job" => q = Free
                /\ req[r].pc # "job" => Same(q, req[r]) /\ q.job /\ q.visit = req[r].visit
                                       /\ q.pc = (IF req[r].pc = "visit" THEN "undojob" ELSE "undovisit")
<1>1. req[r] \in Call /\ CallOK(req[r]) BY CallIs
<1>2. CASE req[r].pc = "job"
  <2>1. Undo(r) = Free BY <1>2 DEF Undo, At
  <2> QED BY <1>2, <2>1, Rests DEF Becomes
<1>3. CASE req[r].pc = "visit"
  <2> DEFINE q == [req[r] EXCEPT !.pc = "undojob"]
  <2>1. Undo(r) = q BY <1>3 DEF Undo, At
  <2>2. /\ q \in Call /\ q.pc = "undojob" /\ q.lead = req[r].lead /\ q.full = req[r].full
        /\ q.visit = req[r].visit /\ q.job = req[r].job
    BY <1>1 DEF Call, RequestPCs
  <2> HIDE DEF q
  <2>3. CallOK(q) /\ q.job BY <1>1, <1>3, <2>2 DEF CallOK
  <2> QED BY <1>3, <2>1, <2>2, <2>3 DEF Becomes, Same
<1>4. CASE req[r].pc = "lead"
  <2> DEFINE q == [req[r] EXCEPT !.pc = "undovisit"]
  <2>1. Undo(r) = q BY <1>4 DEF Undo, At
  <2>2. /\ q \in Call /\ q.pc = "undovisit" /\ q.lead = req[r].lead /\ q.full = req[r].full
        /\ q.visit = req[r].visit /\ q.job = req[r].job
    BY <1>1 DEF Call, RequestPCs
  <2> HIDE DEF q
  <2>3. CallOK(q) /\ q.job BY <1>1, <1>4, <2>2 DEF CallOK
  <2> QED BY <1>4, <2>1, <2>2, <2>3 DEF Becomes, Same
<1> QED BY <1>2, <1>3, <1>4

\* Past its appointment, deleted or not, the clean-up goes on to the job.
LEMMA UndoGoesOn ==
  ASSUME TypeInv, NEW r \in Request, At(r, "undovisit"),
         req' = [req EXCEPT ![r] = [@ EXCEPT !.pc = "undojob", !.visit = "none"]]
  PROVE  \E q : Becomes(r, q) /\ Same(q, req[r]) /\ q.pc = "undojob" /\ q.job /\ q.visit = "none"
<1> DEFINE q == [req[r] EXCEPT !.pc = "undojob", !.visit = "none"]
<1>1. req[r] \in Call /\ CallOK(req[r]) /\ req[r].pc = "undovisit" BY CallIs DEF At
<1>2. /\ q \in Call /\ q.pc = "undojob" /\ q.lead = req[r].lead /\ q.full = req[r].full
      /\ q.visit = "none" /\ q.job = req[r].job
  BY <1>1 DEF Call, RequestPCs
<1>3. req' = [req EXCEPT ![r] = q] OBVIOUS
<1> HIDE DEF q
<1>4. CallOK(q) /\ q.job BY <1>1, <1>2 DEF CallOK
<1> QED BY <1>2, <1>3, <1>4 DEF Becomes, Same

LEMMA CancelsOne ==
  ASSUME TypeInv, NEW r \in Request, req[r].visit = "on", req' = [req EXCEPT ![r].visit = "off"]
  PROVE  \E q : Becomes(r, q) /\ Same(q, req[r]) /\ q.pc = req[r].pc /\ q.job = req[r].job /\ q.visit = "off"
<1> DEFINE q == [req[r] EXCEPT !.visit = "off"]
<1>1. req[r] \in Call /\ CallOK(req[r]) BY CallIs
<1>2. /\ q \in Call /\ q.pc = req[r].pc /\ q.lead = req[r].lead /\ q.full = req[r].full
      /\ q.visit = "off" /\ q.job = req[r].job
  BY <1>1 DEF Call
<1>3. req' = [req EXCEPT ![r] = q] OBVIOUS
<1>4. req[r].pc # "idle" BY <1>1, Rests DEF CallOK
<1> HIDE DEF q
<1>5. CallOK(q) BY <1>1, <1>2, <1>4 DEF CallOK
<1> QED BY <1>2, <1>3, <1>5 DEF Becomes, Same

LEMMA Stops ==
  ASSUME NEW r \in Request, req' = [req EXCEPT ![r] = Free]
  PROVE  Becomes(r, Free)
BY Rests DEF Becomes

\* A refusal in all its cases.
LEMMA Refusals ==
  ASSUME TypeInv, NEW r \in Request, Refuse(r)
  PROVE  \E q : /\ Becomes(r, q)
                /\ req[r].pc \in { "job", "undojob" } => q = Free
                /\ req[r].pc \in { "visit", "lead", "undovisit" } => Same(q, req[r]) /\ q.job
                /\ req[r].pc = "visit" => q.pc = "undojob" /\ q.visit = req[r].visit
                /\ req[r].pc = "lead" => q.pc = "undovisit" /\ q.visit = req[r].visit
                /\ req[r].pc = "undovisit" => q.pc = "undojob" /\ q.visit = "none"
<1>1. req[r] \in Call /\ req[r].pc # "idle" BY CallIs DEF Refuse, At
<1>2. req[r].pc \in { "job", "visit", "lead", "undovisit", "undojob" } BY <1>1 DEF Call, RequestPCs
<1>3. CASE req[r].pc = "undojob"
  <2>1. req' = [req EXCEPT ![r] = Free] BY <1>3 DEF Refuse, At
  <2> QED BY <1>3, <2>1, Stops
<1>4. CASE req[r].pc = "undovisit"
  <2>1. req' = [req EXCEPT ![r] = [@ EXCEPT !.pc = "undojob", !.visit = "none"]] BY <1>4 DEF Refuse, At
  <2>2. At(r, "undovisit") BY <1>4 DEF At
  <2> QED BY <1>4, <2>1, <2>2, UndoGoesOn
<1>5. CASE req[r].pc \in { "job", "visit", "lead" }
  <2>1. req' = [req EXCEPT ![r] = Undo(r)] BY <1>5 DEF Refuse, At
  <2>2. PICK q : /\ Becomes(r, q)
                 /\ req[r].pc = "job" => q = Free
                 /\ req[r].pc # "job" => Same(q, req[r]) /\ q.job /\ q.visit = req[r].visit
                                        /\ q.pc = (IF req[r].pc = "visit" THEN "undojob" ELSE "undovisit")
    BY <1>5, <2>1, Undoes
  <2> QED BY <1>5, <2>2
<1> QED BY <1>2, <1>3, <1>4, <1>5
-----------------------------------------------------------------------------
(* The steps of the cron jobs.                                             *)

LEMMA Lists ==
  ASSUME TypeInv, NEW c \in Runs, NEW pc \in { "chase", "recall" }, pc = (IF c \in Chaser THEN "chase" ELSE "recall"),
         NEW candidates \in SUBSET Lead, List(c, candidates, pc)
  PROVE  /\ run' \in [Runs -> Walk] /\ (\A d \in Runs : WalkOK(d, run'[d]))
         /\ (\A d \in Runs \ { c } : run'[d] = run[d])
         /\ run[c].list = {} /\ run[c].cur = None
         /\ run'[c].pc = pc /\ run'[c].cur = None /\ run'[c].list \subseteq candidates
<1>1. PICK list \in SUBSET candidates : run' = [run EXCEPT ![c] = [Asleep EXCEPT !.pc = pc, !.list = list]]
  BY DEF List
<1> DEFINE w == [Asleep EXCEPT !.pc = pc, !.list = list]
<1>2. w \in Walk /\ w.pc = pc /\ w.cur = None /\ w.list = list
  BY DEF Asleep, Walk, ChasePCs, RecallPCs
<1>3. WalkOK(c, w) BY <1>2 DEF WalkOK, ChasePCs, RecallPCs
<1>4. run' = [run EXCEPT ![c] = w] BY <1>1
<1>5. run[c] = Asleep BY DEF List, Running, TypeInv, WalkOK
<1> HIDE DEF w
<1> QED BY <1>2, <1>3, <1>4, <1>5, Walks, Rests

LEMMA CursIn ==
  ASSUME TypeInv, NEW c \in Runs, run[c].pc \in { "visits", "schedule", "clear", "mark" }
  PROVE  run[c].cur \in run[c].list /\ run[c].cur \in Lead
         /\ (run[c].pc = "mark" <=> c \notin Chaser)
BY DEF TypeInv, WalkOK, Walk, ChasePCs, RecallPCs

\* A run that goes on with the lead it is at.
LEMMA StaysAt ==
  ASSUME TypeInv, NEW c \in Runs, c \in Chaser, run[c].pc \in { "visits", "schedule" },
         NEW pc \in { "schedule", "clear" }, NEW todo \in SUBSET Step,
         run' = [run EXCEPT ![c] = [@ EXCEPT !.pc = pc, !.todo = todo]]
  PROVE  /\ run' \in [Runs -> Walk] /\ (\A d \in Runs : WalkOK(d, run'[d]))
         /\ (\A d \in Runs \ { c } : run'[d] = run[d])
         /\ run'[c].list = run[c].list /\ run'[c].cur = run[c].cur /\ run'[c].pc = pc
<1>1. run[c] \in Walk /\ WalkOK(c, run[c]) BY DEF TypeInv
<1> DEFINE w == [run[c] EXCEPT !.pc = pc, !.todo = todo]
<1>2. w \in Walk /\ w.list = run[c].list /\ w.cur = run[c].cur /\ w.pc = pc BY <1>1 DEF Walk, ChasePCs
<1>3. run' = [run EXCEPT ![c] = w] OBVIOUS
<1> HIDE DEF w
<1>4. WalkOK(c, w) BY <1>1, <1>2 DEF WalkOK, ChasePCs
<1> QED BY <1>2, <1>3, <1>4, Walks

LEMMA LooksAt ==
  ASSUME TypeInv, NEW c \in Chaser, NEW l \in Lead, LookAtLead(c, l)
  PROVE  /\ run' \in [Runs -> Walk] /\ (\A d \in Runs : WalkOK(d, run'[d]))
         /\ \/ Leave(c, l, "chase")
            \/ /\ MayChase(l) /\ UNCHANGED stale /\ run'[c].pc = "visits" /\ run'[c].cur = l /\ run'[c].list = run[c].list
               /\ \A d \in Runs \ { c } : run'[d] = run[d]
<1>0. c \in Runs /\ l \in run[c].list BY DEF Runs, LookAtLead
<1>1. run[c] \in Walk BY <1>0 DEF TypeInv
<1> DEFINE w == [run[c] EXCEPT !.pc = "visits", !.cur = l]
<1>2. w \in Walk /\ w.pc = "visits" /\ w.cur = l /\ w.list = run[c].list BY <1>1 DEF Walk, ChasePCs
<1>3. WalkOK(c, w) BY <1>0, <1>2 DEF WalkOK, ChasePCs
<1>4. CASE MayChase(l)
  <2>1. run' = [run EXCEPT ![c] = w] /\ UNCHANGED stale BY <1>4 DEF LookAtLead
  <2> HIDE DEF w
  <2> QED BY <1>0, <1>2, <1>3, <1>4, <2>1, Walks
<1>5. CASE ~MayChase(l)
  <2>1. Leave(c, l, "chase") BY <1>5 DEF LookAtLead
  <2> QED BY <1>0, <2>1, Leaves
<1> QED BY <1>4, <1>5

LEMMA LooksForVisits ==
  ASSUME TypeInv, NEW c \in Chaser, LookForVisits(c)
  PROVE  /\ run' \in [Runs -> Walk] /\ (\A d \in Runs : WalkOK(d, run'[d]))
         /\ run[c].cur \in Lead
         /\ \/ Leave(c, run[c].cur, "chase")
            \/ /\ UNCHANGED stale /\ run'[c].pc \in { "schedule", "clear" } /\ run'[c].cur = run[c].cur /\ run'[c].list = run[c].list
               /\ \A d \in Runs \ { c } : run'[d] = run[d]
<1>0. c \in Runs /\ run[c].pc = "visits" BY DEF Runs, LookForVisits, Running
<1>1. run[c] \in Walk /\ run[c].cur \in Lead BY <1>0, CursIn DEF TypeInv
<1>2. CASE visits[run[c].cur] > 0
  <2>1. run[c].todo \in SUBSET Step BY <1>1 DEF Walk
  <2>2. run' = [run EXCEPT ![c] = [@ EXCEPT !.pc = "clear", !.todo = run[c].todo]] /\ UNCHANGED stale
    <3>1. run' = [run EXCEPT ![c].pc = "clear"] /\ UNCHANGED stale BY <1>2 DEF LookForVisits
    <3>2. [run[c] EXCEPT !.pc = "clear"] = [run[c] EXCEPT !.pc = "clear", !.todo = run[c].todo] BY <1>1 DEF Walk
    <3> QED BY <3>1, <3>2
  <2> QED BY <1>0, <1>1, <2>1, <2>2, StaysAt
<1>3. CASE ~(visits[run[c].cur] > 0) /\ run[c].cur \in Reachable
  <2>1. run' = [run EXCEPT ![c] = [@ EXCEPT !.pc = "schedule", !.todo = Step]] /\ UNCHANGED stale BY <1>3 DEF LookForVisits
  <2> QED BY <1>0, <1>1, <2>1, StaysAt
<1>4. CASE ~(visits[run[c].cur] > 0) /\ run[c].cur \notin Reachable
  <2>1. Leave(c, run[c].cur, "chase") BY <1>4 DEF LookForVisits
  <2> QED BY <1>0, <1>1, <2>1, Leaves
<1> QED BY <1>2, <1>3, <1>4

LEMMA Schedules ==
  ASSUME TypeInv, NEW c \in Chaser, NEW k \in Step, Schedule(c, k)
  PROVE  /\ run' \in [Runs -> Walk] /\ (\A d \in Runs : WalkOK(d, run'[d]))
         /\ (\A d \in Runs \ { c } : run'[d] = run[d])
         /\ run'[c].list = run[c].list /\ run'[c].cur = run[c].cur /\ run'[c].pc \in { "schedule", "clear" }
         /\ run[c].pc = "schedule"
<1> DEFINE pc == IF run[c].todo = { k } THEN "clear" ELSE "schedule"
           todo == run[c].todo \ { k }
<1>0. c \in Runs /\ run[c].pc = "schedule" BY DEF Runs, Schedule, Running
<1>1. run[c] \in Walk BY <1>0 DEF TypeInv
<1>2. pc \in { "schedule", "clear" } /\ todo \in SUBSET Step BY <1>1 DEF Walk
<1>3. run' = [run EXCEPT ![c].todo = todo, ![c].pc = pc] BY DEF Schedule
<1> HIDE DEF pc, todo
<1>4. [[run[c] EXCEPT !.todo = todo] EXCEPT !.pc = pc] = [run[c] EXCEPT !.pc = pc, !.todo = todo] BY <1>1 DEF Walk
<1>5. run' = [run EXCEPT ![c] = [[run[c] EXCEPT !.todo = todo] EXCEPT !.pc = pc]] BY <1>0, <1>3 DEF TypeInv
<1>6. run' = [run EXCEPT ![c] = [@ EXCEPT !.pc = pc, !.todo = todo]] BY <1>4, <1>5
<1> QED BY <1>0, <1>2, <1>6, StaysAt

LEMMA Recalls ==
  ASSUME TypeInv, NEW c \in Recaller, NEW l \in Lead, Recall(c, l)
  PROVE  /\ run' \in [Runs -> Walk] /\ (\A d \in Runs : WalkOK(d, run'[d]))
         /\ run[c].pc = "recall" /\ l \in run[c].list /\ run[c].cur = None
         /\ \/ Leave(c, l, "recall") /\ UNCHANGED asked
            \/ /\ asked' = [asked EXCEPT ![l] = @ + 1] /\ UNCHANGED stale
               /\ run'[c].pc = "mark" /\ run'[c].cur = l /\ run'[c].list = run[c].list
               /\ \A d \in Runs \ { c } : run'[d] = run[d]
<1>0. c \in Runs /\ c \notin Chaser /\ l \in run[c].list /\ run[c].pc = "recall"
  BY EnquiriesAssumption DEF Runs, Recall, Running
<1>1. run[c] \in Walk /\ run[c].cur = None BY <1>0 DEF TypeInv, WalkOK
<1> DEFINE w == [run[c] EXCEPT !.pc = "mark", !.cur = l]
<1>2. w \in Walk /\ w.pc = "mark" /\ w.cur = l /\ w.list = run[c].list BY <1>1 DEF Walk, RecallPCs
<1>3. WalkOK(c, w) BY <1>0, <1>2 DEF WalkOK, RecallPCs
<1>4. CASE l \in Reachable
  <2>1. run' = [run EXCEPT ![c] = w] /\ UNCHANGED stale /\ asked' = [asked EXCEPT ![l] = @ + 1] BY <1>4 DEF Recall
  <2> HIDE DEF w
  <2> QED BY <1>0, <1>1, <1>2, <1>3, <2>1, Walks
<1>5. CASE l \notin Reachable
  <2>1. Leave(c, l, "recall") /\ UNCHANGED asked BY <1>5 DEF Recall
  <2> QED BY <1>0, <1>1, <2>1, Leaves
<1> QED BY <1>4, <1>5

LEMMA Aborts ==
  ASSUME TypeInv, NEW c \in Runs, Abort(c)
  PROVE  /\ run' \in [Runs -> Walk] /\ (\A d \in Runs : WalkOK(d, run'[d]))
         /\ stale' \in [Runs -> [listed : SUBSET Lead, looked : BOOLEAN]]
         /\ run'[c] = Asleep /\ (\A d \in Runs \ { c } : run'[d] = run[d] /\ stale'[d] = stale[d])
<1>1. run' = [run EXCEPT ![c] = Asleep] /\ stale' = [stale EXCEPT ![c] = Fresh] BY DEF Abort
<1>2. Asleep \in Walk /\ WalkOK(c, Asleep) /\ Fresh \in [listed : SUBSET Lead, looked : BOOLEAN] BY Rests
<1>3. stale' \in [Runs -> [listed : SUBSET Lead, looked : BOOLEAN]] /\ \A d \in Runs \ { c } : stale'[d] = stale[d]
  BY <1>1, <1>2 DEF TypeInv
<1> QED BY <1>1, <1>2, <1>3, Walks

\* Whose step it is.
LEMMA Whose ==
  ASSUME TypeInv, NEW c \in Runs
  PROVE  /\ Chase(c) => c \in Chaser
         /\ Reengage(c) => c \in Recaller
<1>1. run[c] \in Walk /\ WalkOK(c, run[c]) BY DEF TypeInv
<1>2. c \in Chaser \/ c \in Recaller BY DEF Runs
<1>3. Chase(c) => c \in Chaser
  BY <1>1 DEF Chase, ListDue, LookForVisits, ClearNextAction, LookAtLead, Schedule, Running, WalkOK, RecallPCs
<1>4. Reengage(c) => c \notin Chaser \/ c \in Recaller
  BY <1>1 DEF Reengage, ListLost, MarkReengaged, Recall, Running, WalkOK, ChasePCs
<1> QED BY <1>2, <1>3, <1>4

LEMMA RunTypes ==
  ASSUME TypeInv, NEW c \in Runs, Chase(c) \/ Reengage(c) \/ Abort(c)
  PROVE  /\ lead' \in [Lead -> Entry]
         /\ UNCHANGED << jobs, visits, req, booked, opened, refused, cut >>
         /\ run' \in [Runs -> Walk] /\ (\A d \in Runs : WalkOK(d, run'[d]))
         /\ stale' \in [Runs -> [listed : SUBSET Lead, looked : BOOLEAN]]
         /\ owed' \in [Lead -> SUBSET Step] /\ asked' \in [Lead -> Nat]
         /\ aborted' \in Nat /\ budget' \in Bounds
<1> USE DEF rows, faults
<1>0. /\ lead \in [Lead -> Entry] /\ owed \in [Lead -> SUBSET Step] /\ asked \in [Lead -> Nat]
      /\ stale \in [Runs -> [listed : SUBSET Lead, looked : BOOLEAN]]
      /\ aborted \in Nat /\ budget \in Bounds
  BY DEF TypeInv
<1>1. CASE Abort(c)
  <2>1. budget' \in Bounds BY <1>0, <1>1, Spends DEF Abort
  <2>2. /\ run' \in [Runs -> Walk] /\ (\A d \in Runs : WalkOK(d, run'[d]))
        /\ stale' \in [Runs -> [listed : SUBSET Lead, looked : BOOLEAN]]
    BY <1>1, Aborts
  <2>3. UNCHANGED << rows, req, owed, asked, booked, opened, refused, cut >> /\ aborted' = aborted + 1
    BY <1>1 DEF Abort
  <2> QED BY <1>0, <2>1, <2>2, <2>3
<1>2. CASE Chase(c)
  <2>0. c \in Chaser BY <1>2, Whose
  <2>1. UNCHANGED << req, booked, opened, refused, cut, aborted, budget >> BY <1>2 DEF Chase
  <2>2. CASE ListDue(c)
    <3>1. Due \in SUBSET Lead BY DEF Due
    <3>2. List(c, Due, "chase") BY <2>2 DEF ListDue
    <3>3. run' \in [Runs -> Walk] /\ (\A d \in Runs : WalkOK(d, run'[d])) BY <2>0, <3>1, <3>2, Lists
    <3> QED BY <1>0, <2>1, <3>2, <3>3 DEF List
  <2>3. CASE LookForVisits(c)
    <3>1. run[c].cur \in Lead /\ run' \in [Runs -> Walk] /\ (\A d \in Runs : WalkOK(d, run'[d])) BY <2>0, <2>3, LooksForVisits
    <3>2. stale' \in [Runs -> [listed : SUBSET Lead, looked : BOOLEAN]]
      BY <1>0, <2>0, <2>3, LooksForVisits, Leaves
    <3>3. owed' \in [Lead -> SUBSET Step] BY <1>0, <2>3 DEF LookForVisits
    <3> QED BY <1>0, <2>1, <2>3, <3>1, <3>2, <3>3 DEF LookForVisits
  <2>4. CASE ClearNextAction(c)
    <3> DEFINE l == run[c].cur
    <3>1. run[c].cur \in Lead BY <2>4, CursIn DEF ClearNextAction, Running
    <3>2. lead[l] \in Entry BY <1>0, <3>1
    <3>3. [lead[l] EXCEPT !.next = "none"] \in Entry BY <3>2 DEF Entry, Nexts
    <3>4. lead' = [lead EXCEPT ![l] = [lead[l] EXCEPT !.next = "none"]] BY <2>4, <1>0, <3>1 DEF ClearNextAction, Entry
    <3>5. lead' \in [Lead -> Entry] BY <1>0, <3>1, <3>3, <3>4
    <3>6. owed' \in [Lead -> SUBSET Step] BY <1>0, <2>4, <3>1 DEF ClearNextAction
    <3>7. Leave(c, run[c].cur, "chase") BY <2>4 DEF ClearNextAction
    <3> QED BY <1>0, <2>0, <2>1, <2>4, <3>1, <3>5, <3>6, <3>7, Leaves DEF ClearNextAction
  <2>5. ASSUME NEW l \in Lead, LookAtLead(c, l) PROVE
         /\ run' \in [Runs -> Walk] /\ (\A d \in Runs : WalkOK(d, run'[d]))
         /\ stale' \in [Runs -> [listed : SUBSET Lead, looked : BOOLEAN]]
         /\ UNCHANGED << lead, jobs, visits, owed, asked >>
    <3>1. stale' \in [Runs -> [listed : SUBSET Lead, looked : BOOLEAN]] BY <1>0, <2>0, <2>5, LooksAt, Leaves
    <3> QED BY <2>0, <2>5, <3>1, LooksAt DEF LookAtLead
  <2>6. ASSUME NEW k \in Step, Schedule(c, k) PROVE
         /\ run' \in [Runs -> Walk] /\ (\A d \in Runs : WalkOK(d, run'[d]))
         /\ owed' \in [Lead -> SUBSET Step]
         /\ UNCHANGED << lead, jobs, visits, stale, asked >>
    <3>1. owed' \in [Lead -> SUBSET Step] BY <1>0, <2>6 DEF Schedule
    <3> QED BY <2>0, <2>6, <3>1, Schedules DEF Schedule
  <2> QED BY <1>0, <1>2, <2>1, <2>2, <2>3, <2>4, <2>5, <2>6 DEF Chase
<1>3. CASE Reengage(c)
  <2>0. c \in Recaller /\ c \notin Chaser BY <1>3, Whose, EnquiriesAssumption
  <2>1. UNCHANGED << req, booked, opened, refused, cut, aborted, budget >> BY <1>3 DEF Reengage
  <2>2. CASE ListLost(c)
    <3>1. Recallable \in SUBSET Lead BY DEF Recallable
    <3>2. List(c, Recallable, "recall") BY <2>2 DEF ListLost
    <3>3. run' \in [Runs -> Walk] /\ (\A d \in Runs : WalkOK(d, run'[d])) BY <2>0, <3>1, <3>2, Lists
    <3> QED BY <1>0, <2>1, <3>2, <3>3 DEF List
  <2>3. CASE MarkReengaged(c)
    <3> DEFINE l == run[c].cur
    <3>1. run[c].cur \in Lead BY <2>3, CursIn DEF MarkReengaged, Running
    <3>2. lead[l] \in Entry BY <1>0, <3>1
    <3>3. [lead[l] EXCEPT !.recalled = TRUE] \in Entry BY <3>2 DEF Entry
    <3>4. lead' = [lead EXCEPT ![l] = [lead[l] EXCEPT !.recalled = TRUE]] BY <2>3, <1>0, <3>1 DEF MarkReengaged, Entry
    <3>5. lead' \in [Lead -> Entry] BY <1>0, <3>1, <3>3, <3>4
    <3>7. Leave(c, run[c].cur, "recall") BY <2>3 DEF MarkReengaged
    <3> QED BY <1>0, <2>0, <2>1, <2>3, <3>1, <3>5, <3>7, Leaves DEF MarkReengaged
  <2>4. ASSUME NEW l \in Lead, Recall(c, l) PROVE
         /\ run' \in [Runs -> Walk] /\ (\A d \in Runs : WalkOK(d, run'[d]))
         /\ stale' \in [Runs -> [listed : SUBSET Lead, looked : BOOLEAN]]
         /\ asked' \in [Lead -> Nat] /\ UNCHANGED << lead, jobs, visits, owed >>
    <3>1. stale' \in [Runs -> [listed : SUBSET Lead, looked : BOOLEAN]] BY <1>0, <2>0, <2>4, Recalls, Leaves
    <3>2. asked' \in [Lead -> Nat] BY <1>0, <2>0, <2>4, Recalls
    <3> QED BY <2>0, <2>4, <3>1, <3>2, Recalls DEF Recall
  <2> QED BY <1>0, <1>3, <2>1, <2>2, <2>3, <2>4 DEF Reengage
<1> QED BY <1>1, <1>2, <1>3

-----------------------------------------------------------------------------
(* The type invariant.                                                     *)

LEMMA BecomesMoves ==
  ASSUME TypeInv, NEW r \in Request, NEW q, Becomes(r, q)
  PROVE  /\ req' \in [Request -> Call] /\ (\A p \in Request : CallOK(req'[p]))
         /\ req'[r] = q /\ \A p \in Request \ { r } : req'[p] = req[p]
BY Moves DEF Becomes

LEMMA TypeInit == Init => TypeInv
<1> SUFFICES ASSUME Init PROVE TypeInv OBVIOUS
<1>1. lead \in [Lead -> Entry] BY DEF Init, Absent, Entry, Nexts
<1>2. jobs \in [Lead -> Int] /\ visits \in [Lead -> Int] BY DEF Init
<1>3. req \in [Request -> Call] /\ \A r \in Request : CallOK(req[r])
  <2>1. req = [r \in Request |-> Free] BY DEF Init
  <2> QED BY <2>1, Rests
<1>4. run \in [Runs -> Walk] /\ \A c \in Runs : WalkOK(c, run[c])
  <2>1. run = [c \in Runs |-> Asleep] BY DEF Init
  <2> QED BY <2>1, Rests
<1>5. stale \in [Runs -> [listed : SUBSET Lead, looked : BOOLEAN]]
  <2>1. stale = [c \in Runs |-> Fresh] BY DEF Init
  <2> QED BY <2>1, Rests
<1>6. /\ owed \in [Lead -> SUBSET Step] /\ asked \in [Lead -> Nat]
      /\ booked \in [Lead -> [all : Nat, full : Nat]] /\ opened \in [Lead -> Nat]
      /\ refused \in Nat /\ cut \in Nat /\ aborted \in Nat
  BY DEF Init
<1>7. budget \in Bounds BY EnquiriesAssumption DEF Init, Bounds, Runs
<1> QED BY <1>1, <1>2, <1>3, <1>4, <1>5, <1>6, <1>7 DEF TypeInv

LEMMA TypeStep == TypeInv /\ [Next]_vars => TypeInv'
<1> SUFFICES ASSUME TypeInv, [Next]_vars PROVE TypeInv' OBVIOUS
<1> USE DEF rows, crons, bookings, faults
<1>1. ASSUME NEW l \in Lead, ComesDue(l) \/ CancelVisit(l) \/ Snooze(l)
             \/ (\E next \in Nexts : Enquire(l, next) \/ \E status \in Statuses : Edit(l, status, next))
      PROVE  TypeInv'
  <2>1. CASE ComesDue(l)
    <3>1. lead' \in [Lead -> Entry]
      <4>1. lead \in [Lead -> Entry] /\ lead[l] \in Entry BY DEF TypeInv
      <4>2. [lead[l] EXCEPT !.next = "due"] \in Entry BY <4>1 DEF Entry, Nexts
      <4>3. lead' = [lead EXCEPT ![l] = [lead[l] EXCEPT !.next = "due"]] BY <2>1, <4>1 DEF ComesDue, Entry
      <4> QED BY <4>1, <4>2, <4>3
    <3>2. owed' \in [Lead -> SUBSET Step] BY <2>1 DEF ComesDue, TypeInv
    <3> QED BY <2>1, <3>1, <3>2 DEF ComesDue, TypeInv
  <2>2. CASE CancelVisit(l)
    <3>1. visits' \in [Lead -> Int] BY <2>2 DEF CancelVisit, TypeInv
    <3>2. budget' \in Bounds BY <2>2, Spends DEF CancelVisit, TypeInv
    <3>3. req' \in [Request -> Call] /\ \A r \in Request : CallOK(req'[r])
      <4>1. CASE UNCHANGED req BY <4>1 DEF TypeInv
      <4>2. CASE \E r \in Request : req[r].visit = "on" /\ req' = [req EXCEPT ![r].visit = "off"]
        BY <4>2, CancelsOne, BecomesMoves
      <4> QED BY <2>2, <4>1, <4>2 DEF CancelVisit
    <3> QED BY <2>2, <3>1, <3>2, <3>3 DEF CancelVisit, TypeInv
  <2>3. ASSUME NEW next \in Nexts, NEW status \in Statuses, Write(l, status, next),
               UNCHANGED << bookings, run, asked, faults >>, budget' \in Bounds
        PROVE  TypeInv'
    BY <2>3, Writes DEF TypeInv
  <2>4. ASSUME NEW next \in Nexts, Enquire(l, next) PROVE TypeInv'
    <3>1. budget' \in Bounds BY <2>4 DEF Enquire, TypeInv
    <3>2. "new" \in Statuses BY DEF Statuses
    <3> QED BY <2>3, <2>4, <3>1, <3>2 DEF Enquire
  <2>5. ASSUME NEW next \in Nexts, NEW status \in Statuses, Edit(l, status, next) PROVE TypeInv'
    <3>1. budget' \in Bounds BY <2>5, Spends DEF Edit, TypeInv
    <3> QED BY <2>3, <2>5, <3>1 DEF Edit
  <2>6. CASE Snooze(l)
    <3>1. "open" \in Statuses /\ "later" \in Nexts BY DEF Statuses, Nexts
    <3> QED BY <2>5, <2>6, <3>1 DEF Snooze
  <2> QED BY <1>1, <2>1, <2>2, <2>4, <2>5, <2>6
<1>2. ASSUME NEW r \in Request, Confirm(r) \/ Refuse(r) \/ LoseAnswer(r) \/ Kill(r) PROVE TypeInv'
  <2>0. req[r] \in Call /\ CallOK(req[r]) BY CallIs
  <2>b. ASSUME req[r].pc # "idle"
        PROVE  /\ jobs' = [jobs EXCEPT ![req[r].lead] = @ + 1] \/ jobs' = [jobs EXCEPT ![req[r].lead] = @ - 1]
                    => jobs' \in [Lead -> Int]
               /\ visits' = [visits EXCEPT ![req[r].lead] = @ + 1] => visits' \in [Lead -> Int]
    <3>1. req[r].lead \in Lead BY <2>0, <2>b DEF CallOK
    <3>2. jobs \in [Lead -> Int] /\ visits \in [Lead -> Int] BY DEF TypeInv
    <3> QED BY <3>1, <3>2
  <2>a. ASSUME WriteLead(r), At(r, "lead")
        PROVE  /\ lead' \in [Lead -> Entry] /\ opened' \in [Lead -> Nat] /\ owed' \in [Lead -> SUBSET Step]
               /\ stale' \in [Runs -> [listed : SUBSET Lead, looked : BOOLEAN]]
               /\ UNCHANGED << jobs, visits, run, asked >>
    <3>1. req[r].lead \in Lead BY <2>0, <2>a DEF At, CallOK
    <3>2. (IF req[r].full THEN "booked" ELSE "open") \in Statuses /\ "none" \in Nexts BY DEF Statuses, Nexts
    <3>3. Write(req[r].lead, IF req[r].full THEN "booked" ELSE "open", "none") BY <2>a DEF WriteLead
    <3>4. /\ lead' \in [Lead -> Entry] /\ opened' \in [Lead -> Nat] /\ owed' \in [Lead -> SUBSET Step]
          /\ stale' \in [Runs -> [listed : SUBSET Lead, looked : BOOLEAN]]
      BY <3>1, <3>2, <3>3, Writes
    <3> QED BY <2>a, <3>4 DEF WriteLead
  <2>1. ASSUME NEW l \in Lead, NEW full \in BOOLEAN, Look(r, l, full) PROVE TypeInv'
    <3>1. budget' \in Bounds BY <2>1, Spends DEF Look, TypeInv
    <3>2. req' \in [Request -> Call] /\ \A p \in Request : CallOK(req'[p]) BY <2>1, Looks, BecomesMoves
    <3> QED BY <2>1, <3>1, <3>2 DEF Look, TypeInv
  <2>2. CASE Job(r)
    <3>1. req' \in [Request -> Call] /\ \A p \in Request : CallOK(req'[p]) BY <2>2, JobIsMade, BecomesMoves
    <3>2. jobs' \in [Lead -> Int] BY <2>b, <2>2 DEF Job, InsertJob, At
    <3> QED BY <2>2, <3>1, <3>2 DEF Job, InsertJob, TypeInv
  <2>3. CASE Visit(r)
    <3>1. req' \in [Request -> Call] /\ \A p \in Request : CallOK(req'[p]) BY <2>3, VisitIsMade, BecomesMoves
    <3>2. visits' \in [Lead -> Int] BY <2>b, <2>3 DEF Visit, InsertVisit, At
    <3> QED BY <2>3, <3>1, <3>2 DEF Visit, InsertVisit, TypeInv
  <2>4. CASE Commit(r)
    <3>1. req' \in [Request -> Call] /\ \A p \in Request : CallOK(req'[p]) BY <2>4, Stops, BecomesMoves DEF Commit
    <3>2. booked' \in [Lead -> [all : Nat, full : Nat]]
      <4>1. booked \in [Lead -> [all : Nat, full : Nat]] /\ req[r].lead \in Lead
        BY <2>0, <2>4 DEF Commit, At, CallOK, TypeInv
      <4>2. PICK n \in { 0, 1 } : booked' = [booked EXCEPT ![req[r].lead] = [all |-> @.all + 1, full |-> @.full + n]]
        BY <2>4 DEF Commit
      <4>3. [all |-> booked[req[r].lead].all + 1, full |-> booked[req[r].lead].full + n] \in [all : Nat, full : Nat]
        BY <4>1
      <4> QED BY <4>1, <4>2, <4>3
    <3> QED BY <2>4, <2>a, <3>1, <3>2 DEF Commit, TypeInv
  <2>5. CASE UndoVisit(r)
    <3>1. req' = [req EXCEPT ![r] = [@ EXCEPT !.pc = "undojob", !.visit = "none"]] BY <2>5 DEF UndoVisit, TypeInv
    <3>2. req' \in [Request -> Call] /\ \A p \in Request : CallOK(req'[p])
      BY <2>5, <3>1, UndoGoesOn, BecomesMoves DEF UndoVisit
    <3>3. visits' \in [Lead -> Int]
      <4>1. visits \in [Lead -> Int] /\ req[r].lead \in Lead BY <2>0, <2>5 DEF UndoVisit, At, CallOK, TypeInv
      <4>2. PICK n \in { 0, 1 } : visits' = [visits EXCEPT ![req[r].lead] = @ - n] BY <2>5 DEF UndoVisit
      <4> QED BY <4>1, <4>2
    <3> QED BY <2>5, <3>2, <3>3 DEF UndoVisit, TypeInv
  <2>6. CASE UndoJob(r)
    <3>1. req' \in [Request -> Call] /\ \A p \in Request : CallOK(req'[p]) BY <2>6, Stops, BecomesMoves DEF UndoJob
    <3>2. jobs' \in [Lead -> Int] BY <2>b, <2>6 DEF UndoJob, At
    <3> QED BY <2>6, <3>1, <3>2 DEF UndoJob, TypeInv
  <2>7. CASE Refuse(r)
    <3>1. req' \in [Request -> Call] /\ \A p \in Request : CallOK(req'[p]) BY <2>7, Refusals, BecomesMoves
    <3>2. budget' \in Bounds BY <2>7, Spends DEF Refuse, TypeInv
    <3>3. refused' \in Nat BY <2>7 DEF Refuse, TypeInv
    <3> QED BY <2>7, <3>1, <3>2, <3>3 DEF Refuse, TypeInv
  <2>8. CASE LoseAnswer(r)
    <3>0. req[r].pc \in { "job", "visit", "lead" } BY <2>8 DEF LoseAnswer, At
    <3>1. req' \in [Request -> Call] /\ \A p \in Request : CallOK(req'[p])
      BY <2>8, <3>0, Undoes, BecomesMoves DEF LoseAnswer
    <3>2. budget' \in Bounds BY <2>8, Spends DEF LoseAnswer, TypeInv
    <3>3. cut' \in Nat /\ UNCHANGED << refused, aborted >> BY <2>8 DEF LoseAnswer, TypeInv
    <3>4. CASE At(r, "job") /\ InsertJob(r)
      <4>1. jobs' \in [Lead -> Int] BY <2>b, <3>4 DEF InsertJob, At
      <4> QED BY <3>1, <3>2, <3>3, <3>4, <4>1 DEF InsertJob, TypeInv
    <3>5. CASE At(r, "visit") /\ InsertVisit(r)
      <4>1. visits' \in [Lead -> Int] BY <2>b, <3>5 DEF InsertVisit, At
      <4> QED BY <3>1, <3>2, <3>3, <3>5, <4>1 DEF InsertVisit, TypeInv
    <3>6. CASE At(r, "lead") /\ WriteLead(r) /\ UNCHANGED booked
      BY <2>a, <3>1, <3>2, <3>3, <3>6 DEF TypeInv
    <3> QED BY <2>8, <3>4, <3>5, <3>6 DEF LoseAnswer
  <2>9. CASE Kill(r)
    <3>1. req' \in [Request -> Call] /\ \A p \in Request : CallOK(req'[p]) BY <2>9, Stops, BecomesMoves DEF Kill
    <3>2. budget' \in Bounds BY <2>9, Spends DEF Kill, TypeInv
    <3>3. cut' \in Nat BY <2>9 DEF Kill, TypeInv
    <3> QED BY <2>9, <3>1, <3>2, <3>3 DEF Kill, TypeInv
  <2> QED BY <1>2, <2>1, <2>2, <2>3, <2>4, <2>5, <2>6, <2>7, <2>8, <2>9 DEF Confirm
<1>3. ASSUME NEW c \in Runs, Chase(c) \/ Reengage(c) \/ Abort(c) PROVE TypeInv'
  BY <1>3, RunTypes DEF TypeInv
<1>4. CASE UNCHANGED vars BY <1>4 DEF vars, TypeInv
<1> QED BY <1>1, <1>2, <1>3, <1>4 DEF Next, Office
-----------------------------------------------------------------------------
(* What the cron jobs act on.                                              *)

\* Unless the lead was written since: a lead that is being chased is new, one that
\* is listed for it has not been put off, one that is listed as lost is lost.
HeedInv ==
  /\ \A c \in Chaser : run[c].pc \in { "visits", "schedule", "clear" } /\ ~stale[c].looked => Chaseable(run[c].cur)
  /\ \A c \in Chaser : \A l \in run[c].list : l \notin stale[c].listed => lead[l].next # "later"
  /\ \A c \in Recaller : \A l \in run[c].list : l \notin stale[c].listed => lead[l].status = "lost"

\* Runs leave the status of a lead, and put off none.
LEMMA RunsKeepLeads ==
  ASSUME TypeInv, NEW c \in Runs, Chase(c) \/ Reengage(c) \/ Abort(c), NEW m \in Lead
  PROVE  /\ lead'[m].status = lead[m].status /\ lead'[m].next \in { lead[m].next, "none" }
         /\ lead[m].recalled => lead'[m].recalled
<1>1. lead \in [Lead -> Entry] /\ lead[m] \in Entry BY DEF TypeInv
<1>2. CASE UNCHANGED lead BY <1>2
<1>3. CASE ClearNextAction(c)
  <2>1. lead' = [lead EXCEPT ![run[c].cur].next = "none"] BY <1>3 DEF ClearNextAction
  <2>2. CASE m = run[c].cur
    <3>1. lead'[m] = [lead[m] EXCEPT !.next = "none"] BY <1>1, <2>1, <2>2
    <3>2. lead'[m].status = lead[m].status /\ lead'[m].next = "none" BY <1>1, <3>1 DEF Entry
    <3>3. lead'[m].recalled = lead[m].recalled BY <1>1, <3>1, Zenon DEF Entry
    <3> QED BY <3>2, <3>3
  <2>3. CASE m # run[c].cur
    <3>1. lead'[m] = lead[m] BY <1>1, <2>1, <2>3
    <3> QED BY <3>1
  <2> QED BY <2>2, <2>3
<1>4. CASE MarkReengaged(c)
  <2>1. lead' = [lead EXCEPT ![run[c].cur].recalled = TRUE] BY <1>4 DEF MarkReengaged
  <2>2. CASE m = run[c].cur
    <3>1. lead'[m] = [lead[m] EXCEPT !.recalled = TRUE] BY <1>1, <2>1, <2>2
    <3>2. lead'[m].status = lead[m].status /\ lead'[m].next = lead[m].next BY <1>1, <3>1 DEF Entry
    <3>3. lead'[m].recalled BY <1>1, <3>1, Zenon DEF Entry
    <3> QED BY <3>2, <3>3
  <2>3. CASE m # run[c].cur
    <3>1. lead'[m] = lead[m] BY <1>1, <2>1, <2>3
    <3> QED BY <3>1
  <2> QED BY <2>2, <2>3
<1>5. UNCHANGED lead \/ ClearNextAction(c) \/ MarkReengaged(c)
  <2>1. CASE Chase(c)
    <3>1. ListDue(c) => UNCHANGED lead BY DEF ListDue, List, rows
    <3>2. LookForVisits(c) => UNCHANGED lead BY DEF LookForVisits, rows
    <3>3. (\E l \in Lead : LookAtLead(c, l)) => UNCHANGED lead BY DEF LookAtLead, rows
    <3>4. (\E k \in Step : Schedule(c, k)) => UNCHANGED lead BY DEF Schedule, rows
    <3> QED BY <2>1, <3>1, <3>2, <3>3, <3>4 DEF Chase
  <2>2. CASE Reengage(c)
    <3>1. ListLost(c) => UNCHANGED lead BY DEF ListLost, List, rows
    <3>2. (\E l \in Lead : Recall(c, l)) => UNCHANGED lead BY DEF Recall, rows
    <3> QED BY <2>2, <3>1, <3>2 DEF Reengage
  <2>3. CASE Abort(c) BY <2>3 DEF Abort, rows
  <2> QED BY <2>1, <2>2, <2>3
<1> QED BY <1>2, <1>3, <1>4, <1>5

\* A step of a run, by what it does to its list.
LEMMA RunSteps ==
  ASSUME TypeInv, NEW c \in Runs, Chase(c) \/ Reengage(c) \/ Abort(c)
  PROVE  /\ \A d \in Runs \ { c } : run'[d] = run[d] /\ stale'[d] = stale[d]
         /\ \/ run'[c].pc \in { "idle", "chase", "recall" } /\ run[c].list = {}
               /\ (c \in Chaser => run'[c].list \subseteq Due) /\ (c \in Recaller => run'[c].list \subseteq Recallable)
            \/ run'[c].pc \in { "idle", "chase", "recall" } /\ run'[c].list \subseteq run[c].list
               /\ (run'[c].list \cap stale[c].listed) \subseteq stale'[c].listed
            \/ run'[c].list = run[c].list /\ UNCHANGED stale
               /\ (run'[c].pc \in { "visits", "schedule", "clear" } =>
                     Chaseable(run'[c].cur) \/ (run[c].pc \in { "visits", "schedule" } /\ run'[c].cur = run[c].cur))
<1>1. CASE Abort(c) BY <1>1, Aborts, Rests
<1>2. CASE Chase(c)
  <2>0. c \in Chaser /\ c \notin Recaller BY <1>2, Whose, EnquiriesAssumption
  <2>1. CASE ListDue(c)
    <3>1. Due \in SUBSET Lead BY DEF Due
    <3>2. List(c, Due, "chase") BY <2>1 DEF ListDue
    <3>3. UNCHANGED stale BY <3>2 DEF List
    <3> QED BY <2>0, <3>1, <3>2, <3>3, Lists
  <2>2. CASE LookForVisits(c)
    <3>1. run[c].pc = "visits" BY <2>2 DEF LookForVisits, Running
    <3> QED BY <2>0, <2>2, <3>1, LooksForVisits, Leaves
  <2>3. CASE ClearNextAction(c)
    <3>1. run[c].cur \in Lead BY <2>3, CursIn DEF ClearNextAction, Running
    <3>2. Leave(c, run[c].cur, "chase") BY <2>3 DEF ClearNextAction
    <3> QED BY <2>0, <3>1, <3>2, Leaves
  <2>4. ASSUME NEW l \in Lead, LookAtLead(c, l) PROVE Leave(c, l, "chase") \/
          /\ run'[c].list = run[c].list /\ UNCHANGED stale /\ Chaseable(run'[c].cur)
          /\ \A d \in Runs \ { c } : run'[d] = run[d]
    BY <2>0, <2>4, LooksAt DEF MayChase
  <2>5. ASSUME NEW k \in Step, Schedule(c, k) PROVE
          /\ run'[c].list = run[c].list /\ UNCHANGED stale /\ run'[c].cur = run[c].cur /\ run[c].pc = "schedule"
          /\ \A d \in Runs \ { c } : run'[d] = run[d]
    BY <2>0, <2>5, Schedules DEF Schedule
  <2>6. CASE \E l \in Lead : LookAtLead(c, l)
    <3>1. PICK l \in Lead : LookAtLead(c, l) BY <2>6
    <3>2. CASE Leave(c, l, "chase") BY <2>0, <3>2, Leaves
    <3>3. CASE ~Leave(c, l, "chase")
      <4>1. /\ run'[c].list = run[c].list /\ UNCHANGED stale /\ Chaseable(run'[c].cur)
            /\ \A d \in Runs \ { c } : run'[d] = run[d]
        BY <2>4, <3>1, <3>3
      <4> QED BY <4>1
    <3> QED BY <3>2, <3>3
  <2>7. CASE \E k \in Step : Schedule(c, k) BY <2>0, <2>5, <2>7
  <2> QED BY <1>2, <2>1, <2>2, <2>3, <2>6, <2>7 DEF Chase
<1>3. CASE Reengage(c)
  <2>0. c \in Recaller /\ c \notin Chaser BY <1>3, Whose, EnquiriesAssumption
  <2>1. CASE ListLost(c)
    <3>1. Recallable \in SUBSET Lead BY DEF Recallable
    <3>2. List(c, Recallable, "recall") BY <2>1 DEF ListLost
    <3>3. UNCHANGED stale BY <3>2 DEF List
    <3> QED BY <2>0, <3>1, <3>2, <3>3, Lists
  <2>2. CASE MarkReengaged(c)
    <3>1. run[c].cur \in Lead BY <2>2, CursIn DEF MarkReengaged, Running
    <3>2. Leave(c, run[c].cur, "recall") BY <2>2 DEF MarkReengaged
    <3> QED BY <2>0, <3>1, <3>2, Leaves
  <2>3. ASSUME NEW l \in Lead, Recall(c, l) PROVE Leave(c, l, "recall") \/
          /\ run'[c].list = run[c].list /\ UNCHANGED stale /\ run'[c].pc = "mark"
          /\ \A d \in Runs \ { c } : run'[d] = run[d]
    BY <2>0, <2>3, Recalls
  <2>4. CASE \E l \in Lead : Recall(c, l) BY <2>0, <2>3, <2>4, Leaves
  <2> QED BY <1>3, <2>1, <2>2, <2>4 DEF Reengage
<1> QED BY <1>1, <1>2, <1>3

\* Every step outside of the runs writes one lead or leaves them all, but for one
\* that comes due.
LEMMA OtherSteps ==
  ASSUME TypeInv, Office \/ \E r \in Request : Confirm(r) \/ Refuse(r) \/ LoseAnswer(r) \/ Kill(r)
  PROVE  /\ UNCHANGED << run, asked, aborted >>
         /\ \/ UNCHANGED << lead, stale, opened >>
            \/ UNCHANGED << stale, opened >> /\ \E l \in Lead : lead[l].next = "later" /\ lead' = [lead EXCEPT ![l].next = "due"]
            \/ \E l \in Lead, status \in Statuses, next \in Nexts : Write(l, status, next)
<1> USE DEF rows, crons, bookings, faults
<1>1. CASE Office
  <2>1. PICK l \in Lead : \/ ComesDue(l) \/ CancelVisit(l) \/ Snooze(l)
                          \/ \E next \in Nexts : Enquire(l, next) \/ \E status \in Statuses : Edit(l, status, next)
    BY <1>1 DEF Office
  <2>2. "new" \in Statuses /\ "open" \in Statuses /\ "later" \in Nexts BY DEF Statuses, Nexts
  <2>3. CASE ComesDue(l) BY <2>3 DEF ComesDue
  <2>4. CASE CancelVisit(l) BY <2>4 DEF CancelVisit
  <2>5. CASE Snooze(l) BY <2>2, <2>5 DEF Snooze, Edit
  <2>6. ASSUME NEW next \in Nexts, Enquire(l, next) PROVE Write(l, "new", next) /\ UNCHANGED << run, asked, aborted >>
    BY <2>6 DEF Enquire
  <2>7. ASSUME NEW next \in Nexts, NEW status \in Statuses, Edit(l, status, next)
        PROVE Write(l, status, next) /\ UNCHANGED << run, asked, aborted >>
    BY <2>7 DEF Edit
  <2> QED BY <2>1, <2>2, <2>3, <2>4, <2>5, <2>6, <2>7
<1>2. ASSUME NEW r \in Request, Confirm(r) \/ Refuse(r) \/ LoseAnswer(r) \/ Kill(r)
      PROVE  /\ UNCHANGED << run, asked, aborted >>
             /\ UNCHANGED << lead, stale, opened >> \/ \E l \in Lead, status \in Statuses, next \in Nexts : Write(l, status, next)
  <2>1. ASSUME WriteLead(r), At(r, "lead")
        PROVE  /\ \E l \in Lead, status \in Statuses, next \in Nexts : Write(l, status, next)
               /\ UNCHANGED << run, asked >>
    <3>1. req[r].lead \in Lead BY <2>1, CallIs DEF At, CallOK
    <3>2. (IF req[r].full THEN "booked" ELSE "open") \in Statuses /\ "none" \in Nexts BY DEF Statuses, Nexts
    <3> QED BY <2>1, <3>1, <3>2 DEF WriteLead
  <2>2. CASE Confirm(r)
    <3>1. CASE \E l \in Lead, full \in BOOLEAN : Look(r, l, full) BY <3>1 DEF Look
    <3>2. CASE Job(r) BY <3>2 DEF Job, InsertJob
    <3>3. CASE Visit(r) BY <3>3 DEF Visit, InsertVisit
    <3>4. CASE Commit(r) BY <2>1, <3>4 DEF Commit
    <3>5. CASE UndoVisit(r) \/ UndoJob(r) BY <3>5 DEF UndoVisit, UndoJob
    <3> QED BY <2>2, <3>1, <3>2, <3>3, <3>4, <3>5 DEF Confirm
  <2>3. CASE Refuse(r) BY <2>3 DEF Refuse
  <2>4. CASE LoseAnswer(r) BY <2>1, <2>4 DEF LoseAnswer, InsertJob, InsertVisit
  <2>5. CASE Kill(r) BY <2>5 DEF Kill
  <2> QED BY <1>2, <2>2, <2>3, <2>4, <2>5
<1> QED BY <1>1, <1>2

LEMMA HeedStep == TypeInv /\ HeedInv /\ [Next]_vars => HeedInv'
<1> SUFFICES ASSUME TypeInv, HeedInv, [Next]_vars PROVE HeedInv' OBVIOUS
<1>a. \A c \in Chaser : c \in Runs BY DEF Runs
<1>b. \A c \in Recaller : c \in Runs BY DEF Runs
<1>c. \A c \in Runs : run[c].list \subseteq Lead /\ (run[c].pc \in { "visits", "schedule", "clear" } => run[c].cur \in Lead)
  BY CursIn DEF TypeInv, Walk
<1>1. CASE Office \/ \E r \in Request : Confirm(r) \/ Refuse(r) \/ LoseAnswer(r) \/ Kill(r)
  <2>0. UNCHANGED run BY <1>1, OtherSteps
  <2>1. CASE UNCHANGED << lead, stale >> BY <2>0, <2>1 DEF HeedInv, Chaseable
  <2>2. ASSUME NEW l \in Lead, lead' = [lead EXCEPT ![l].next = "due"], UNCHANGED stale PROVE HeedInv'
    <3>1. \A m \in Lead : lead'[m].status = lead[m].status /\ lead'[m].next \in { lead[m].next, "due" }
      BY <2>2 DEF TypeInv, Entry
    <3> QED BY <1>a, <1>b, <1>c, <2>0, <2>2, <3>1 DEF HeedInv, Chaseable
  <2>3. ASSUME NEW l \in Lead, NEW status \in Statuses, NEW next \in Nexts, Write(l, status, next) PROVE HeedInv'
    <3>1. /\ (\A m \in Lead \ { l } : lead'[m] = lead[m])
          /\ \A c \in Runs :
               /\ stale[c].listed \subseteq stale'[c].listed /\ (stale[c].looked => stale'[c].looked)
               /\ l \in run[c].list => l \in stale'[c].listed
               /\ run[c].cur = l => stale'[c].looked
      BY <2>3, Writes
    <3>2. \A c \in Chaser : run[c].pc \in { "visits", "schedule", "clear" } /\ ~stale'[c].looked => lead'[run[c].cur].status = "new"
      BY <1>a, <1>c, <3>1 DEF HeedInv, Chaseable
    <3>3. \A c \in Chaser : \A m \in run[c].list : m \notin stale'[c].listed => lead'[m].next # "later"
      BY <1>a, <1>c, <3>1 DEF HeedInv
    <3>4. \A c \in Recaller : \A m \in run[c].list : m \notin stale'[c].listed => lead'[m].status = "lost"
      BY <1>b, <1>c, <3>1 DEF HeedInv
    <3> QED BY <2>0, <3>2, <3>3, <3>4 DEF HeedInv, Chaseable
  <2> QED BY <1>1, <2>1, <2>2, <2>3, OtherSteps
<1>2. ASSUME NEW c \in Runs, Chase(c) \/ Reengage(c) \/ Abort(c) PROVE HeedInv'
  <2>0. \A m \in Lead : lead'[m].status = lead[m].status /\ lead'[m].next \in { lead[m].next, "none" }
    BY <1>2, RunsKeepLeads
  <2>1. \A d \in Runs \ { c } : run'[d] = run[d] /\ stale'[d] = stale[d] BY <1>2, RunSteps
  <2>2. run'[c].list \subseteq Lead /\ (run'[c].pc \in { "visits", "schedule", "clear" } => run'[c].cur \in Lead)
    BY <1>2, RunTypes DEF Walk, WalkOK, ChasePCs, RecallPCs
  <2>3. \A m \in Due : m \in Lead /\ lead[m].next # "later" BY DEF Due
  <2>4. \A m \in Recallable : m \in Lead /\ lead[m].status = "lost" BY DEF Recallable
  <2>5. c \in Chaser => /\ run'[c].pc \in { "visits", "schedule", "clear" } /\ ~stale'[c].looked => Chaseable(run'[c].cur)
                        /\ \A m \in run'[c].list : m \notin stale'[c].listed => lead[m].next # "later"
    BY <1>2, <2>3, RunSteps DEF HeedInv
  <2>6. c \in Recaller => \A m \in run'[c].list : m \notin stale'[c].listed => lead[m].status = "lost"
    BY <1>2, <2>4, RunSteps DEF HeedInv
  <2>7. \A d \in Chaser : run'[d].pc \in { "visits", "schedule", "clear" } /\ ~stale'[d].looked => lead'[run'[d].cur].status = "new"
    <3> SUFFICES ASSUME NEW d \in Chaser, run'[d].pc \in { "visits", "schedule", "clear" }, ~stale'[d].looked
                 PROVE lead'[run'[d].cur].status = "new" OBVIOUS
    <3>1. CASE d = c BY <2>0, <2>2, <2>5, <3>1 DEF Chaseable
    <3>2. CASE d # c BY <1>a, <1>c, <2>0, <2>1, <3>2 DEF HeedInv, Chaseable
    <3> QED BY <3>1, <3>2
  <2>8. \A d \in Chaser : \A m \in run'[d].list : m \notin stale'[d].listed => lead'[m].next # "later"
    <3> SUFFICES ASSUME NEW d \in Chaser, NEW m \in run'[d].list, m \notin stale'[d].listed PROVE lead'[m].next # "later" OBVIOUS
    <3>1. CASE d = c BY <2>0, <2>2, <2>5, <3>1
    <3>2. CASE d # c BY <1>a, <1>c, <2>0, <2>1, <3>2 DEF HeedInv
    <3> QED BY <3>1, <3>2
  <2>9. \A d \in Recaller : \A m \in run'[d].list : m \notin stale'[d].listed => lead'[m].status = "lost"
    <3> SUFFICES ASSUME NEW d \in Recaller, NEW m \in run'[d].list, m \notin stale'[d].listed PROVE lead'[m].status = "lost" OBVIOUS
    <3>1. CASE d = c BY <2>0, <2>2, <2>6, <3>1
    <3>2. CASE d # c BY <1>b, <1>c, <2>0, <2>1, <3>2 DEF HeedInv
    <3> QED BY <3>1, <3>2
  <2> QED BY <2>7, <2>8, <2>9 DEF HeedInv, Chaseable
<1>3. CASE UNCHANGED vars BY <1>3 DEF vars, HeedInv, Chaseable
<1> QED BY <1>1, <1>2, <1>3 DEF Next

LEMMA HeedCorrect == Spec => [](TypeInv /\ HeedInv)
<1>1. Init => HeedInv
  <2> SUFFICES ASSUME Init PROVE HeedInv OBVIOUS
  <2>1. \A c \in Runs : run[c] = Asleep BY DEF Init
  <2>2. \A c \in Chaser \cup Recaller : run[c].pc = "idle" /\ run[c].list = {} BY <2>1, Rests DEF Runs
  <2> QED BY <2>2 DEF HeedInv
<1> QED BY <1>1, TypeInit, TypeStep, HeedStep, PTL DEF Spec

\* The chase wipes a next action, and the re-engagement is scheduled, only for a lead
\* that is as the run read it or was written since.
THEOREM ActsCorrect == Spec => ActsOnWhatItRead
<1> DEFINE Acts ==
      /\ \A c \in Chaser : Running(c, "clear") /\ lead' # lead /\ run'[c] # run[c] =>
           LET l == run[c].cur IN
           /\ lead[l].next = "later" => Overtaken(c)
           /\ ~Chaseable(l) => stale[c].looked
      /\ \A c \in Recaller, l \in Lead : asked' # asked /\ run'[c].cur = l /\ run[c].cur # l
           /\ lead[l].status # "lost" => l \in stale[c].listed
<1>1. TypeInv /\ HeedInv /\ [Next]_vars => [Acts]_vars
  <2> SUFFICES ASSUME TypeInv, HeedInv, [Next]_vars PROVE Acts OBVIOUS
  <2>1. ASSUME NEW c \in Chaser, Running(c, "clear")
        PROVE  /\ lead[run[c].cur].next = "later" => Overtaken(c)
               /\ ~Chaseable(run[c].cur) => stale[c].looked
    <3>1. c \in Runs /\ run[c].pc = "clear" BY <2>1 DEF Runs, Running
    <3>2. run[c].cur \in run[c].list BY <3>1, CursIn
    <3> QED BY <3>1, <3>2 DEF HeedInv, Overtaken
  <2>2. ASSUME NEW c \in Recaller, NEW l \in Lead, asked' # asked, run'[c].cur = l, run[c].cur # l, lead[l].status # "lost"
        PROVE  l \in stale[c].listed
    <3>0. c \in Runs BY DEF Runs
    <3>1. PICK d \in Runs : Reengage(d)
      <4>1. \A d \in Runs : Chase(d) => UNCHANGED asked
        BY DEF Chase, ListDue, List, LookForVisits, ClearNextAction, LookAtLead, Schedule
      <4>2. \A d \in Runs : Abort(d) => UNCHANGED asked BY DEF Abort
      <4>3. UNCHANGED vars => UNCHANGED asked BY DEF vars
      <4> QED BY <2>2, <4>1, <4>2, <4>3, OtherSteps DEF Next
    <3>2. d \in Recaller BY <3>1, Whose
    <3>3. d = c BY <2>2, <3>0, <3>1, RunSteps
    <3>4. PICK m \in Lead : Recall(c, m)
      <4>1. ListLost(c) \/ MarkReengaged(c) => UNCHANGED asked BY DEF ListLost, List, MarkReengaged
      <4> QED BY <2>2, <3>1, <3>3, <4>1 DEF Reengage
    <3>5. l \in run[c].list
      <4>1. CASE Leave(c, m, "recall")
        <5>1. run'[c].cur = None BY <3>0, <3>2, <3>3, <4>1, Leaves, EnquiriesAssumption
        <5> QED BY <2>2, <5>1, EnquiriesAssumption
      <4> QED BY <2>2, <3>4, <4>1, Recalls
    <3> QED BY <2>2, <3>5 DEF HeedInv
  <2> QED BY <2>1, <2>2
<1>2. [][Acts]_vars => ActsOnWhatItRead
  BY DEF ActsOnWhatItRead
<1> QED BY <1>1, <1>2, HeedCorrect, PTL DEF Spec
-----------------------------------------------------------------------------
(* Counting.                                                               *)

\* Two sets that differ at most in one element.
LEMMA OneMoves ==
  ASSUME NEW U, IsFiniteSet(U), NEW S \in SUBSET U, NEW T \in SUBSET U, NEW r \in U,
         \A p \in U \ { r } : p \in S <=> p \in T
  PROVE  /\ Cardinality(S) \in Nat /\ Cardinality(T) \in Nat
         /\ Cardinality(T) = Cardinality(S) + (IF r \in T THEN 1 ELSE 0) - (IF r \in S THEN 1 ELSE 0)
<1>1. IsFiniteSet(S) /\ IsFiniteSet(T) BY FS_Subset
<1>2. Cardinality(S) \in Nat /\ Cardinality(T) \in Nat BY <1>1, FS_CardinalityType
<1>3. CASE r \in S /\ r \in T
  <2>1. S = T BY <1>3
  <2> QED BY <1>2, <1>3, <2>1
<1>4. CASE r \notin S /\ r \notin T
  <2>1. S = T BY <1>4
  <2> QED BY <1>2, <1>4, <2>1
<1>5. CASE r \in S /\ r \notin T
  <2>1. T = S \ { r } BY <1>5
  <2>2. Cardinality(T) = Cardinality(S) - 1 BY <1>1, <1>5, <2>1, FS_RemoveElement
  <2> QED BY <1>2, <1>5, <2>2
<1>6. CASE r \notin S /\ r \in T
  <2>1. T = S \cup { r } BY <1>6
  <2>2. Cardinality(T) = Cardinality(S) + 1 BY <1>1, <1>6, <2>1, FS_AddElement
  <2> QED BY <1>2, <1>6, <2>2
<1> QED BY <1>3, <1>4, <1>5, <1>6

JobHolders(l) == { r \in Of(l) : req[r].job }
VisitHolders(l) == { r \in Of(l) : req[r].visit = "on" }
FullHolders(l) == { r \in Of(l) : req[r].full /\ req[r].pc \in { "job", "visit", "lead" } }
Undoing == { r \in Request : req[r].pc \in { "undovisit", "undojob" } }
UndoingVisit == { r \in Request : req[r].pc = "undovisit" }

LEMMA CountsAre ==
  /\ \A l \in Lead : /\ Cardinality(JobHolders(l)) \in Nat /\ Cardinality(VisitHolders(l)) \in Nat
                     /\ Cardinality(FullHolders(l)) \in 0 .. Cardinality(Request)
  /\ Cardinality(Undoing) \in Nat /\ Cardinality(UndoingVisit) \in Nat /\ Cardinality(Request) \in Nat
<1>1. IsFiniteSet(Request) BY EnquiriesAssumption
<1>2. ASSUME NEW S \in SUBSET Request PROVE Cardinality(S) \in 0 .. Cardinality(Request)
  <2>1. IsFiniteSet(S) /\ Cardinality(S) <= Cardinality(Request) BY <1>1, FS_Subset
  <2> QED BY <1>1, <2>1, FS_CardinalityType
<1>3. \A l \in Lead : JobHolders(l) \in SUBSET Request /\ VisitHolders(l) \in SUBSET Request /\ FullHolders(l) \in SUBSET Request
  BY DEF JobHolders, VisitHolders, FullHolders, Of
<1>4. Undoing \in SUBSET Request /\ UndoingVisit \in SUBSET Request BY DEF Undoing, UndoingVisit
<1>5. Cardinality(Request) \in Nat BY <1>1, FS_CardinalityType
<1> QED BY <1>2, <1>3, <1>4, <1>5

\* How the counts change when one confirmation goes on.
LEMMA Counts ==
  ASSUME TypeInv, NEW r \in Request, NEW q, Becomes(r, q), NEW l \in Lead
  PROVE  /\ Cardinality(JobHolders(l)') = Cardinality(JobHolders(l))
              + (IF q.lead = l /\ q.job THEN 1 ELSE 0) - (IF req[r].lead = l /\ req[r].job THEN 1 ELSE 0)
         /\ Cardinality(VisitHolders(l)') = Cardinality(VisitHolders(l))
              + (IF q.lead = l /\ q.visit = "on" THEN 1 ELSE 0) - (IF req[r].lead = l /\ req[r].visit = "on" THEN 1 ELSE 0)
         /\ Cardinality(FullHolders(l)') = Cardinality(FullHolders(l))
              + (IF q.lead = l /\ q.full /\ q.pc \in { "job", "visit", "lead" } THEN 1 ELSE 0)
              - (IF req[r].lead = l /\ req[r].full /\ req[r].pc \in { "job", "visit", "lead" } THEN 1 ELSE 0)
         /\ Cardinality(Undoing') = Cardinality(Undoing)
              + (IF q.pc \in { "undovisit", "undojob" } THEN 1 ELSE 0) - (IF req[r].pc \in { "undovisit", "undojob" } THEN 1 ELSE 0)
         /\ Cardinality(UndoingVisit') = Cardinality(UndoingVisit)
              + (IF q.pc = "undovisit" THEN 1 ELSE 0) - (IF req[r].pc = "undovisit" THEN 1 ELSE 0)
<1>1. req'[r] = q /\ \A p \in Request \ { r } : req'[p] = req[p] BY BecomesMoves
<1>2. IsFiniteSet(Request) BY EnquiriesAssumption
<1>3. /\ JobHolders(l) \in SUBSET Request /\ JobHolders(l)' \in SUBSET Request
      /\ (r \in JobHolders(l)' <=> q.lead = l /\ q.job) /\ (r \in JobHolders(l) <=> req[r].lead = l /\ req[r].job)
      /\ \A p \in Request \ { r } : p \in JobHolders(l) <=> p \in JobHolders(l)'
  BY <1>1 DEF JobHolders, Of
<1>4. /\ VisitHolders(l) \in SUBSET Request /\ VisitHolders(l)' \in SUBSET Request
      /\ (r \in VisitHolders(l)' <=> q.lead = l /\ q.visit = "on")
      /\ (r \in VisitHolders(l) <=> req[r].lead = l /\ req[r].visit = "on")
      /\ \A p \in Request \ { r } : p \in VisitHolders(l) <=> p \in VisitHolders(l)'
  BY <1>1 DEF VisitHolders, Of
<1>5. /\ FullHolders(l) \in SUBSET Request /\ FullHolders(l)' \in SUBSET Request
      /\ (r \in FullHolders(l)' <=> q.lead = l /\ q.full /\ q.pc \in { "job", "visit", "lead" })
      /\ (r \in FullHolders(l) <=> req[r].lead = l /\ req[r].full /\ req[r].pc \in { "job", "visit", "lead" })
      /\ \A p \in Request \ { r } : p \in FullHolders(l) <=> p \in FullHolders(l)'
  BY <1>1 DEF FullHolders, Of
<1>6. /\ Undoing \in SUBSET Request /\ Undoing' \in SUBSET Request
      /\ (r \in Undoing' <=> q.pc \in { "undovisit", "undojob" }) /\ (r \in Undoing <=> req[r].pc \in { "undovisit", "undojob" })
      /\ \A p \in Request \ { r } : p \in Undoing <=> p \in Undoing'
  BY <1>1 DEF Undoing
<1>7. /\ UndoingVisit \in SUBSET Request /\ UndoingVisit' \in SUBSET Request
      /\ (r \in UndoingVisit' <=> q.pc = "undovisit") /\ (r \in UndoingVisit <=> req[r].pc = "undovisit")
      /\ \A p \in Request \ { r } : p \in UndoingVisit <=> p \in UndoingVisit'
  BY <1>1 DEF UndoingVisit
<1>8. Cardinality(JobHolders(l)') = Cardinality(JobHolders(l))
        + (IF q.lead = l /\ q.job THEN 1 ELSE 0) - (IF req[r].lead = l /\ req[r].job THEN 1 ELSE 0)
  BY <1>2, <1>3, OneMoves
<1>9. Cardinality(VisitHolders(l)') = Cardinality(VisitHolders(l))
        + (IF q.lead = l /\ q.visit = "on" THEN 1 ELSE 0) - (IF req[r].lead = l /\ req[r].visit = "on" THEN 1 ELSE 0)
  BY <1>2, <1>4, OneMoves
<1>10. Cardinality(FullHolders(l)') = Cardinality(FullHolders(l))
        + (IF q.lead = l /\ q.full /\ q.pc \in { "job", "visit", "lead" } THEN 1 ELSE 0)
        - (IF req[r].lead = l /\ req[r].full /\ req[r].pc \in { "job", "visit", "lead" } THEN 1 ELSE 0)
  BY <1>2, <1>5, OneMoves
<1>11. Cardinality(Undoing') = Cardinality(Undoing)
        + (IF q.pc \in { "undovisit", "undojob" } THEN 1 ELSE 0) - (IF req[r].pc \in { "undovisit", "undojob" } THEN 1 ELSE 0)
  BY <1>2, <1>6, OneMoves
<1>12. Cardinality(UndoingVisit') = Cardinality(UndoingVisit)
        + (IF q.pc = "undovisit" THEN 1 ELSE 0) - (IF req[r].pc = "undovisit" THEN 1 ELSE 0)
  BY <1>2, <1>7, OneMoves
<1> QED BY <1>8, <1>9, <1>10, <1>11, <1>12

LEMMA CountsStay ==
  ASSUME UNCHANGED req
  PROVE  /\ \A l \in Lead : JobHolders(l)' = JobHolders(l) /\ VisitHolders(l)' = VisitHolders(l) /\ FullHolders(l)' = FullHolders(l)
         /\ Undoing' = Undoing /\ UndoingVisit' = UndoingVisit
BY DEF JobHolders, VisitHolders, FullHolders, Of, Undoing, UndoingVisit
-----------------------------------------------------------------------------
(* The accounts of the confirmations.                                      *)

\* What is left of failed confirmations is paid for: by two for each that was cut,
\* by one for each refusal; one that is being undone has been paid for once.
Paid == 2 * cut + refused
AccountAt(l) ==
  LET whole == booked[l].all
      making == Cardinality(JobHolders(l))
      on == Cardinality(VisitHolders(l))
  IN /\ whole + making <= jobs[l] /\ 2 * (jobs[l] - whole - making) + Cardinality(Undoing) <= Paid
     /\ on <= visits[l] /\ 2 * (visits[l] - whole - on) + Cardinality(UndoingVisit) <= Paid

\* While a lead may be booked, there is room for a full booking by each request.
BookAt(l) ==
  booked[l].full + (IF Bookable(l) THEN Cardinality(Request) ELSE Cardinality(FullHolders(l)))
    <= opened[l] * Cardinality(Request)

AccountInv == \A l \in Lead : AccountAt(l)
BookInv == \A l \in Lead : BookAt(l)

LEMMA NumbersAre ==
  ASSUME TypeInv, NEW l \in Lead
  PROVE  /\ jobs[l] \in Int /\ visits[l] \in Int /\ booked[l].all \in Nat /\ booked[l].full \in Nat /\ opened[l] \in Nat
         /\ cut \in Nat /\ refused \in Nat
         /\ Cardinality(JobHolders(l)) \in Nat /\ Cardinality(VisitHolders(l)) \in Nat
         /\ Cardinality(FullHolders(l)) \in 0 .. Cardinality(Request) /\ Cardinality(Request) \in Nat
         /\ Cardinality(Undoing) \in Nat /\ Cardinality(UndoingVisit) \in Nat
BY CountsAre DEF TypeInv

LEMMA Times == \A a, n \in Nat : (a + 1) * n = a * n + n /\ a * n \in Nat
OBVIOUS

\* A lead that is written keeps its room: what is still to be booked is at most what
\* there was room for, and opening it makes more.
LEMMA WriteBooks ==
  ASSUME TypeInv, BookInv, NEW m \in Lead, NEW status \in Statuses, NEW next \in Nexts, Write(m, status, next),
         NEW l \in Lead,
         booked'[l].full \in Nat, Cardinality(FullHolders(l)') \in Nat,
         booked'[l].full + Cardinality(FullHolders(l)') <= booked[l].full + Cardinality(FullHolders(l)),
         booked'[l].full = booked[l].full \/ (l = m /\ status = "booked")
  PROVE  BookAt(l)'
<1> DEFINE N == Cardinality(Request)
           F == Cardinality(FullHolders(l))
           p == opened[l] * N
<1>0. /\ F \in 0 .. N /\ N \in Nat /\ booked[l].full \in Nat /\ opened[l] \in Nat BY NumbersAre
<1>1. p \in Nat BY <1>0, Times
<1>2. booked[l].full + (IF Bookable(l) THEN N ELSE F) <= p BY DEF BookInv, BookAt
<1>3. CASE l = m
  <2>1. lead'[l].status = status
        /\ opened'[l] = opened[l] + (IF lead[l].status \in { "none", "booked" } /\ status # "booked" THEN 1 ELSE 0)
    BY <1>3, Writes
  <2>2. CASE ~Bookable(l) /\ status # "booked"
    <3>1. opened'[l] = opened[l] + 1 BY <2>1, <2>2 DEF Bookable
    <3>2. opened'[l] * N = p + N BY <1>0, <3>1, Times
    <3>3. booked'[l].full = booked[l].full BY <1>3, <2>2
    <3>4. booked[l].full <= p BY <1>0, <1>1, <1>2, <2>2
    <3>5. Bookable(l)' BY <2>1, <2>2 DEF Bookable, Statuses
    <3> HIDE DEF N, F, p
    <3>6. booked'[l].full + N <= opened'[l] * N BY <1>0, <1>1, <3>2, <3>3, <3>4
    <3> QED BY <3>5, <3>6 DEF BookAt, N
  <2>3. CASE Bookable(l) /\ status # "booked"
    <3>1. opened'[l] * N = p /\ booked'[l].full = booked[l].full BY <1>0, <1>3, <2>1, <2>3 DEF Bookable
    <3>2. Bookable(l)' BY <2>1, <2>3 DEF Bookable, Statuses
    <3>3. booked[l].full + N <= p BY <1>2, <2>3
    <3> QED BY <3>1, <3>2, <3>3 DEF BookAt
  <2>4. CASE status = "booked"
    <3>1. opened'[l] * N = p BY <1>0, <2>1, <2>4
    <3>2. ~Bookable(l)' BY <2>1, <2>4 DEF Bookable
    <3>3. booked[l].full + F <= p BY <1>0, <1>1, <1>2
    <3> HIDE DEF F, p
    <3>4. booked'[l].full + Cardinality(FullHolders(l)') <= p BY <1>0, <1>1, <3>3 DEF F
    <3> QED BY <3>1, <3>2, <3>4 DEF BookAt
  <2> QED BY <2>2, <2>3, <2>4
<1>4. CASE l # m
  <2>1. lead'[l] = lead[l] /\ opened'[l] = opened[l] /\ booked'[l].full = booked[l].full BY <1>4, Writes
  <2>2. Bookable(l)' <=> Bookable(l) BY <2>1 DEF Bookable
  <2>3. Cardinality(FullHolders(l)') <= F BY <1>0, <2>1
  <2>4. opened'[l] * N = p BY <2>1
  <2>5. CASE Bookable(l) BY <1>2, <2>1, <2>2, <2>4, <2>5 DEF BookAt
  <2>6. CASE ~Bookable(l)
    <3>1. booked[l].full + F <= p BY <1>2, <2>6
    <3> HIDE DEF F, p
    <3>2. booked'[l].full + Cardinality(FullHolders(l)') <= p BY <1>0, <1>1, <2>1, <2>3, <3>1
    <3> QED BY <2>2, <2>4, <2>6, <3>2 DEF BookAt
  <2> QED BY <2>5, <2>6
<1> QED BY <1>3, <1>4

\* So does one that is not written, when no confirmation is added to those of a lead
\* that may not be booked.
LEMMA KeepsBooks ==
  ASSUME TypeInv, BookInv, NEW l \in Lead, UNCHANGED << booked, opened >>, lead'[l].status = lead[l].status,
         Cardinality(FullHolders(l)') \in Nat,
         Bookable(l) \/ Cardinality(FullHolders(l)') <= Cardinality(FullHolders(l))
  PROVE  BookAt(l)'
<1> DEFINE p == opened[l] * Cardinality(Request)
<1>0. /\ Cardinality(FullHolders(l)) \in Nat /\ Cardinality(Request) \in Nat /\ booked[l].full \in Nat /\ opened[l] \in Nat
  BY NumbersAre
<1>1. p \in Nat BY <1>0, Times
<1>2. booked[l].full + (IF Bookable(l) THEN Cardinality(Request) ELSE Cardinality(FullHolders(l))) <= p
  BY DEF BookInv, BookAt
<1>3. (Bookable(l)' <=> Bookable(l)) /\ booked'[l].full = booked[l].full /\ p' = p BY DEF Bookable
<1>4. CASE Bookable(l) BY <1>2, <1>3, <1>4 DEF BookAt
<1>5. CASE ~Bookable(l)
  <2>1. booked[l].full + Cardinality(FullHolders(l)) <= p BY <1>2, <1>5
  <2> HIDE DEF p
  <2>2. booked[l].full + Cardinality(FullHolders(l)') <= p BY <1>0, <1>1, <1>5, <2>1
  <2> QED BY <1>3, <1>5, <2>2 DEF BookAt, p
<1> QED BY <1>4, <1>5
LEMMA FullCounts ==
  ASSUME TypeInv, NEW r \in Request, Confirm(r) \/ Refuse(r) \/ LoseAnswer(r) \/ Kill(r), NEW l \in Lead
  PROVE  Cardinality(FullHolders(l)') \in Nat
<1>1. IsFiniteSet(Request) BY EnquiriesAssumption
<1>2. FullHolders(l)' \in SUBSET Request BY DEF FullHolders, Of
<1> QED BY <1>1, <1>2, FS_Subset, FS_CardinalityType

\* The accounts after a step, from the numbers of the step.
LEMMA Balances ==
  ASSUME NEW l \in Lead,
         LET whole == booked'[l].all
             making == Cardinality(JobHolders(l)')
             on == Cardinality(VisitHolders(l)')
         IN /\ whole + making <= jobs'[l] /\ 2 * (jobs'[l] - whole - making) + Cardinality(Undoing') <= 2 * cut' + refused'
            /\ on <= visits'[l] /\ 2 * (visits'[l] - whole - on) + Cardinality(UndoingVisit') <= 2 * cut' + refused'
  PROVE  AccountAt(l)'
BY DEF AccountAt, Paid

LEMMA BalanceIs ==
  ASSUME AccountInv, NEW l \in Lead
  PROVE  LET whole == booked[l].all
             making == Cardinality(JobHolders(l))
             on == Cardinality(VisitHolders(l))
         IN /\ whole + making <= jobs[l] /\ 2 * (jobs[l] - whole - making) + Cardinality(Undoing) <= 2 * cut + refused
            /\ on <= visits[l] /\ 2 * (visits[l] - whole - on) + Cardinality(UndoingVisit) <= 2 * cut + refused
BY DEF AccountInv, AccountAt, Paid

\* The steps that are no confirmation's.
LEMMA OfficeAccounts == TypeInv /\ AccountInv /\ BookInv /\ Office => AccountInv' /\ BookInv'
<1> SUFFICES ASSUME TypeInv, AccountInv, BookInv, Office, NEW l \in Lead PROVE AccountAt(l)' /\ BookAt(l)'
  BY DEF AccountInv, BookInv
<1> USE DEF rows, crons, bookings, faults
<1>1. PICK m \in Lead : \/ ComesDue(m) \/ CancelVisit(m) \/ Snooze(m)
                        \/ \E next \in Nexts : Enquire(m, next) \/ \E status \in Statuses : Edit(m, status, next)
  BY DEF Office
<1>2. ASSUME UNCHANGED << bookings, faults >> PROVE AccountAt(l)'
  <2>1. UNCHANGED << jobs, visits, booked, refused, cut, req >> BY <1>2
  <2> QED BY <2>1, CountsStay, BalanceIs, Balances
<1>3. ASSUME NEW status \in Statuses, NEW next \in Nexts, Write(m, status, next), UNCHANGED << bookings, faults >>
      PROVE  BookAt(l)'
  <2>1. booked' = booked /\ FullHolders(l)' = FullHolders(l) BY <1>3, CountsStay
  <2>2. Cardinality(FullHolders(l)) \in Nat /\ booked[l].full \in Nat BY NumbersAre
  <2> QED BY <1>3, <2>1, <2>2, WriteBooks
<1>4. CASE ComesDue(m)
  <2>1. UNCHANGED << bookings, opened, faults >> BY <1>4 DEF ComesDue
  <2>2. lead'[l].status = lead[l].status BY <1>4 DEF ComesDue, TypeInv, Entry
  <2>3. FullHolders(l)' = FullHolders(l) /\ Cardinality(FullHolders(l)) \in Nat BY <2>1, CountsStay, NumbersAre
  <2> QED BY <1>2, <2>1, <2>2, <2>3, KeepsBooks
<1>5. CASE CancelVisit(m)
  <2>0. /\ UNCHANGED << lead, jobs, booked, opened, refused, cut >>
        /\ visits[m] > 0 /\ visits' = [visits EXCEPT ![m] = @ - 1]
    BY <1>5 DEF CancelVisit
  <2>1. visits'[l] = visits[l] - (IF l = m THEN 1 ELSE 0) BY <2>0 DEF TypeInv
  <2>2. CASE visits[m] > Cardinality({ r \in Request : req[r].lead = m /\ req[r].visit = "on" }) /\ UNCHANGED req
    <3>1. VisitHolders(m) = { r \in Request : req[r].lead = m /\ req[r].visit = "on" } BY DEF VisitHolders, Of
    <3>2. Cardinality(VisitHolders(l)) <= visits'[l]
      <4>1. CASE l = m
        <5>1. visits[l] > Cardinality(VisitHolders(l)) /\ visits'[l] = visits[l] - 1 BY <2>1, <2>2, <3>1, <4>1
        <5> QED BY <5>1, NumbersAre
      <4>2. CASE l # m BY <2>1, <4>2, BalanceIs, NumbersAre
      <4> QED BY <4>1, <4>2
    <3>3. /\ JobHolders(l)' = JobHolders(l) /\ VisitHolders(l)' = VisitHolders(l) /\ FullHolders(l)' = FullHolders(l)
          /\ Undoing' = Undoing /\ UndoingVisit' = UndoingVisit
      BY <2>2, CountsStay
    <3>4. AccountAt(l)'
      <4> HIDE <1>5
      <4>1. visits'[l] \in Int /\ visits'[l] <= visits[l] BY <2>1, NumbersAre
      <4> QED BY <2>0, <3>2, <3>3, <4>1, BalanceIs, Balances, NumbersAre
    <3> QED BY <2>0, <3>3, <3>4, KeepsBooks, NumbersAre
  <2>3. CASE \E r \in Request : req[r].lead = m /\ req[r].visit = "on" /\ req' = [req EXCEPT ![r].visit = "off"]
    <3>1. PICK r \in Request : req[r].lead = m /\ req[r].visit = "on" /\ req' = [req EXCEPT ![r].visit = "off"] BY <2>3
    <3>2. PICK q : Becomes(r, q) /\ Same(q, req[r]) /\ q.pc = req[r].pc /\ q.job = req[r].job /\ q.visit = "off"
      BY <3>1, CancelsOne
    <3>3. /\ Cardinality(JobHolders(l)') = Cardinality(JobHolders(l))
          /\ Cardinality(VisitHolders(l)') = Cardinality(VisitHolders(l)) - (IF l = m THEN 1 ELSE 0)
          /\ Cardinality(FullHolders(l)') = Cardinality(FullHolders(l))
          /\ Cardinality(Undoing') = Cardinality(Undoing) /\ Cardinality(UndoingVisit') = Cardinality(UndoingVisit)
      BY <3>1, <3>2, Counts, NumbersAre DEF Same
    <3>4. AccountAt(l)' BY <2>0, <2>1, <3>3, BalanceIs, Balances, NumbersAre
    <3> QED BY <2>0, <3>3, <3>4, KeepsBooks, NumbersAre
  <2> QED BY <1>5, <2>2, <2>3 DEF CancelVisit
<1>6. "new" \in Statuses /\ "open" \in Statuses /\ "later" \in Nexts BY DEF Statuses, Nexts
<1>7. ASSUME NEW next \in Nexts, Enquire(m, next) PROVE AccountAt(l)' /\ BookAt(l)'
  BY <1>2, <1>3, <1>6, <1>7 DEF Enquire
<1>8. ASSUME NEW status \in Statuses, NEW next \in Nexts, Edit(m, status, next) PROVE AccountAt(l)' /\ BookAt(l)'
  BY <1>2, <1>3, <1>8 DEF Edit
<1> QED BY <1>1, <1>4, <1>5, <1>6, <1>7, <1>8 DEF Snooze

LEMMA ConfirmAccounts ==
  ASSUME TypeInv, AccountInv, BookInv, NEW r \in Request, Confirm(r) \/ Refuse(r) \/ LoseAnswer(r) \/ Kill(r)
  PROVE  AccountInv' /\ BookInv'
<1> SUFFICES ASSUME NEW l \in Lead PROVE AccountAt(l)' /\ BookAt(l)'
  BY DEF AccountInv, BookInv
<1> USE DEF rows, crons, faults
<1>0. /\ req[r] \in Call /\ CallOK(req[r]) /\ None \notin Lead
      /\ jobs \in [Lead -> Int] /\ visits \in [Lead -> Int] /\ booked \in [Lead -> [all : Nat, full : Nat]]
  BY CallIs, EnquiriesAssumption DEF TypeInv
<1>1. ASSUME NEW m \in Lead, NEW full \in BOOLEAN, Look(r, m, full) PROVE AccountAt(l)' /\ BookAt(l)'
  <2>1. PICK q : Becomes(r, q) /\ q.pc = "job" /\ q.lead = m /\ q.full = full /\ ~q.job /\ q.visit = "none" BY <1>1, Looks
  <2>2. UNCHANGED << lead, jobs, visits, booked, opened, refused, cut >> /\ Bookable(m) /\ req[r] = Free
    BY <1>0, <1>1 DEF Look, At, CallOK
  <2>3. /\ Cardinality(JobHolders(l)') = Cardinality(JobHolders(l))
        /\ Cardinality(VisitHolders(l)') = Cardinality(VisitHolders(l))
        /\ Cardinality(Undoing') = Cardinality(Undoing) /\ Cardinality(UndoingVisit') = Cardinality(UndoingVisit)
        /\ Cardinality(FullHolders(l)') \in Nat
        /\ l # m => Cardinality(FullHolders(l)') = Cardinality(FullHolders(l))
    BY <1>0, <2>1, <2>2, Counts, NumbersAre, Rests
  <2>4. AccountAt(l)' BY <2>2, <2>3, BalanceIs, Balances
  <2>5. Bookable(l) \/ Cardinality(FullHolders(l)') <= Cardinality(FullHolders(l)) BY <2>2, <2>3, NumbersAre
  <2> QED BY <2>2, <2>3, <2>4, <2>5, KeepsBooks
<1>2. CASE Job(r)
  <2>1. PICK q : Becomes(r, q) /\ Same(q, req[r]) /\ q.pc = "visit" /\ q.job /\ q.visit = "none" BY <1>2, JobIsMade
  <2>2. UNCHANGED << lead, visits, booked, opened, refused, cut >> /\ req[r].pc = "job" BY <1>2 DEF Job, InsertJob, At
  <2>3. jobs'[l] = jobs[l] + (IF l = req[r].lead THEN 1 ELSE 0) BY <1>0, <1>2 DEF Job, InsertJob
  <2>4. ~req[r].job /\ req[r].visit = "none" BY <1>0, <2>2 DEF CallOK
  <2>5. /\ Cardinality(JobHolders(l)') = Cardinality(JobHolders(l)) + (IF l = req[r].lead THEN 1 ELSE 0)
        /\ Cardinality(VisitHolders(l)') = Cardinality(VisitHolders(l))
        /\ Cardinality(FullHolders(l)') = Cardinality(FullHolders(l))
        /\ Cardinality(Undoing') = Cardinality(Undoing) /\ Cardinality(UndoingVisit') = Cardinality(UndoingVisit)
    BY <2>1, <2>2, <2>4, Counts, NumbersAre DEF Same
  <2>6. AccountAt(l)' BY <2>2, <2>3, <2>5, BalanceIs, Balances, NumbersAre
  <2> QED BY <2>2, <2>5, <2>6, KeepsBooks, NumbersAre
<1>3. CASE Visit(r)
  <2>1. PICK q : Becomes(r, q) /\ Same(q, req[r]) /\ q.pc = "lead" /\ q.job /\ q.visit = "on" BY <1>3, VisitIsMade
  <2>2. UNCHANGED << lead, jobs, booked, opened, refused, cut >> /\ req[r].pc = "visit" BY <1>3 DEF Visit, InsertVisit, At
  <2>3. visits'[l] = visits[l] + (IF l = req[r].lead THEN 1 ELSE 0) BY <1>0, <1>3 DEF Visit, InsertVisit
  <2>4. req[r].job /\ req[r].visit = "none" BY <1>0, <2>2 DEF CallOK
  <2>5. /\ Cardinality(JobHolders(l)') = Cardinality(JobHolders(l))
        /\ Cardinality(VisitHolders(l)') = Cardinality(VisitHolders(l)) + (IF l = req[r].lead THEN 1 ELSE 0)
        /\ Cardinality(FullHolders(l)') = Cardinality(FullHolders(l))
        /\ Cardinality(Undoing') = Cardinality(Undoing) /\ Cardinality(UndoingVisit') = Cardinality(UndoingVisit)
    BY <2>1, <2>2, <2>4, Counts, NumbersAre DEF Same
  <2>6. AccountAt(l)' BY <2>2, <2>3, <2>5, BalanceIs, Balances, NumbersAre
  <2> QED BY <2>2, <2>5, <2>6, KeepsBooks, NumbersAre
<1>4. ASSUME WriteLead(r), At(r, "lead"), booked'[l].full \in Nat, Cardinality(FullHolders(l)') \in Nat,
             booked'[l].full + Cardinality(FullHolders(l)') <= booked[l].full + Cardinality(FullHolders(l)),
             booked'[l].full = booked[l].full \/ (l = req[r].lead /\ req[r].full)
      PROVE  BookAt(l)'
  <2>1. req[r].lead \in Lead BY <1>0, <1>4 DEF At, CallOK
  <2>2. (IF req[r].full THEN "booked" ELSE "open") \in Statuses /\ "none" \in Nexts BY DEF Statuses, Nexts
  <2> QED BY <1>4, <2>1, <2>2, WriteBooks DEF WriteLead
<1>5. CASE Commit(r)
  <2>1. Becomes(r, Free) /\ WriteLead(r) /\ At(r, "lead") /\ UNCHANGED << jobs, visits, refused, cut >> /\ req[r].pc = "lead"
    BY <1>5, Stops DEF Commit, WriteLead, At
  <2>2. req[r].job /\ req[r].lead \in Lead /\ req[r].visit \in { "on", "off" } BY <1>0, <2>1 DEF CallOK, Call
  <2>3. /\ booked'[l].all = booked[l].all + (IF l = req[r].lead THEN 1 ELSE 0)
        /\ booked'[l].full = booked[l].full + (IF l = req[r].lead /\ req[r].full THEN 1 ELSE 0)
    <3>1. CASE l = req[r].lead
      <4>1. booked'[l] = [all |-> booked[l].all + 1, full |-> booked[l].full + (IF req[r].full THEN 1 ELSE 0)]
        BY <1>0, <1>5, <3>1 DEF Commit
      <4>2. booked'[l].all = booked[l].all + 1 /\ booked'[l].full = booked[l].full + (IF req[r].full THEN 1 ELSE 0)
        BY <4>1
      <4> QED BY <3>1, <4>2
    <3>2. CASE l # req[r].lead
      <4>1. booked'[l] = booked[l] BY <1>0, <1>5, <3>2 DEF Commit
      <4> QED BY <3>2, <4>1, NumbersAre
    <3> QED BY <3>1, <3>2
  <2>4. /\ Cardinality(JobHolders(l)') = Cardinality(JobHolders(l)) - (IF l = req[r].lead THEN 1 ELSE 0)
        /\ Cardinality(VisitHolders(l)') = Cardinality(VisitHolders(l)) - (IF l = req[r].lead /\ req[r].visit = "on" THEN 1 ELSE 0)
        /\ Cardinality(FullHolders(l)') = Cardinality(FullHolders(l)) - (IF l = req[r].lead /\ req[r].full THEN 1 ELSE 0)
        /\ Cardinality(Undoing') = Cardinality(Undoing) /\ Cardinality(UndoingVisit') = Cardinality(UndoingVisit)
    BY <1>0, <2>1, <2>2, Counts, NumbersAre, Rests
  <2>5. AccountAt(l)' BY <2>1, <2>3, <2>4, BalanceIs, Balances, NumbersAre
  <2>6. /\ Cardinality(FullHolders(l)') \in Int /\ booked'[l].full \in Nat
        /\ booked'[l].full + Cardinality(FullHolders(l)') <= booked[l].full + Cardinality(FullHolders(l))
        /\ booked'[l].full = booked[l].full \/ (l = req[r].lead /\ req[r].full)
    BY <2>3, <2>4, NumbersAre
  <2>7. Cardinality(FullHolders(l)') \in Nat BY <1>5, FullCounts DEF Confirm
  <2> QED BY <1>4, <2>1, <2>5, <2>6, <2>7
<1>6. CASE UndoVisit(r)
  <2>1. req' = [req EXCEPT ![r] = [@ EXCEPT !.pc = "undojob", !.visit = "none"]] /\ At(r, "undovisit") /\ req[r].pc = "undovisit"
    BY <1>6 DEF UndoVisit, At, TypeInv
  <2>2. PICK q : Becomes(r, q) /\ Same(q, req[r]) /\ q.pc = "undojob" /\ q.job /\ q.visit = "none" BY <2>1, UndoGoesOn
  <2>3. UNCHANGED << lead, jobs, booked, opened, refused, cut >> BY <1>6 DEF UndoVisit
  <2>4. visits'[l] = visits[l] - (IF l = req[r].lead /\ req[r].visit = "on" THEN 1 ELSE 0) BY <1>0, <1>6 DEF UndoVisit
  <2>5. req[r].job BY <1>0, <2>1 DEF CallOK
  <2>6. /\ Cardinality(JobHolders(l)') = Cardinality(JobHolders(l))
        /\ Cardinality(VisitHolders(l)') = Cardinality(VisitHolders(l)) - (IF l = req[r].lead /\ req[r].visit = "on" THEN 1 ELSE 0)
        /\ Cardinality(FullHolders(l)') = Cardinality(FullHolders(l))
        /\ Cardinality(Undoing') = Cardinality(Undoing) /\ Cardinality(UndoingVisit') = Cardinality(UndoingVisit) - 1
    BY <2>1, <2>2, <2>5, Counts, NumbersAre DEF Same
  <2>7. AccountAt(l)' BY <2>3, <2>4, <2>6, BalanceIs, Balances, NumbersAre
  <2> QED BY <2>3, <2>6, <2>7, KeepsBooks, NumbersAre
<1>7. CASE UndoJob(r)
  <2>1. Becomes(r, Free) /\ req[r].pc = "undojob" BY <1>7, Stops DEF UndoJob, At
  <2>2. UNCHANGED << lead, visits, booked, opened, refused, cut >> BY <1>7 DEF UndoJob
  <2>3. jobs'[l] = jobs[l] - (IF l = req[r].lead THEN 1 ELSE 0) BY <1>0, <1>7 DEF UndoJob
  <2>4. req[r].job /\ req[r].visit = "none" BY <1>0, <2>1 DEF CallOK
  <2>5. /\ Cardinality(JobHolders(l)') = Cardinality(JobHolders(l)) - (IF l = req[r].lead THEN 1 ELSE 0)
        /\ Cardinality(VisitHolders(l)') = Cardinality(VisitHolders(l))
        /\ Cardinality(FullHolders(l)') = Cardinality(FullHolders(l))
        /\ Cardinality(Undoing') = Cardinality(Undoing) - 1 /\ Cardinality(UndoingVisit') = Cardinality(UndoingVisit)
    BY <1>0, <2>1, <2>4, Counts, NumbersAre, Rests
  <2>6. AccountAt(l)' BY <2>2, <2>3, <2>5, BalanceIs, Balances, NumbersAre
  <2> QED BY <2>2, <2>5, <2>6, KeepsBooks, NumbersAre
<1>8. CASE Refuse(r)
  <2>1. PICK q : /\ Becomes(r, q)
                 /\ req[r].pc \in { "job", "undojob" } => q = Free
                 /\ req[r].pc \in { "visit", "lead", "undovisit" } => Same(q, req[r]) /\ q.job
                 /\ req[r].pc = "visit" => q.pc = "undojob" /\ q.visit = req[r].visit
                 /\ req[r].pc = "lead" => q.pc = "undovisit" /\ q.visit = req[r].visit
                 /\ req[r].pc = "undovisit" => q.pc = "undojob" /\ q.visit = "none"
    BY <1>8, Refusals
  <2>2. UNCHANGED << lead, jobs, visits, booked, opened, cut >> /\ refused' = refused + 1 /\ req[r].pc # "idle"
    BY <1>8 DEF Refuse, At
  <2>3. req[r].pc \in { "job", "visit", "lead", "undovisit", "undojob" } BY <1>0, <2>2 DEF Call, RequestPCs
  <2>4. Cardinality(FullHolders(l)') \in Nat /\ Cardinality(FullHolders(l)') <= Cardinality(FullHolders(l))
    <3>1. q.pc \notin { "job", "visit", "lead" } BY <2>1, <2>3, Rests
    <3> QED BY <1>8, <2>1, <3>1, Counts, NumbersAre, FullCounts
  <2>5. AccountAt(l)'
    <3>1. CASE req[r].pc = "job"
      <4>1. q = Free /\ ~req[r].job /\ req[r].visit = "none" BY <1>0, <2>1, <3>1 DEF CallOK
      <4>2. /\ Cardinality(JobHolders(l)') = Cardinality(JobHolders(l))
            /\ Cardinality(VisitHolders(l)') = Cardinality(VisitHolders(l))
            /\ Cardinality(Undoing') = Cardinality(Undoing) /\ Cardinality(UndoingVisit') = Cardinality(UndoingVisit)
        BY <1>0, <2>1, <3>1, <4>1, Counts, NumbersAre, Rests
      <4> QED BY <2>2, <4>2, BalanceIs, Balances, NumbersAre
    <3>2. CASE req[r].pc = "undojob"
      <4>1. q = Free /\ req[r].job /\ req[r].visit = "none" BY <1>0, <2>1, <3>2 DEF CallOK
      <4>2. /\ Cardinality(JobHolders(l)') = Cardinality(JobHolders(l)) - (IF l = req[r].lead THEN 1 ELSE 0)
            /\ Cardinality(VisitHolders(l)') = Cardinality(VisitHolders(l))
            /\ Cardinality(Undoing') = Cardinality(Undoing) - 1 /\ Cardinality(UndoingVisit') = Cardinality(UndoingVisit)
        BY <1>0, <2>1, <3>2, <4>1, Counts, NumbersAre, Rests
      <4> QED BY <2>2, <4>2, BalanceIs, Balances, NumbersAre
    <3>3. CASE req[r].pc = "visit"
      <4>1. req[r].job BY <1>0, <3>3 DEF CallOK
      <4>2. /\ Cardinality(JobHolders(l)') = Cardinality(JobHolders(l))
            /\ Cardinality(VisitHolders(l)') = Cardinality(VisitHolders(l))
            /\ Cardinality(Undoing') = Cardinality(Undoing) + 1 /\ Cardinality(UndoingVisit') = Cardinality(UndoingVisit)
        BY <2>1, <3>3, <4>1, Counts, NumbersAre DEF Same
      <4> QED BY <2>2, <4>2, BalanceIs, Balances, NumbersAre
    <3>4. CASE req[r].pc = "lead"
      <4>1. req[r].job BY <1>0, <3>4 DEF CallOK
      <4>2. /\ Cardinality(JobHolders(l)') = Cardinality(JobHolders(l))
            /\ Cardinality(VisitHolders(l)') = Cardinality(VisitHolders(l))
            /\ Cardinality(Undoing') = Cardinality(Undoing) + 1 /\ Cardinality(UndoingVisit') = Cardinality(UndoingVisit) + 1
        BY <2>1, <3>4, <4>1, Counts, NumbersAre DEF Same
      <4> QED BY <2>2, <4>2, BalanceIs, Balances, NumbersAre
    <3>5. CASE req[r].pc = "undovisit"
      <4>1. req[r].job BY <1>0, <3>5 DEF CallOK
      <4>2. /\ Cardinality(JobHolders(l)') = Cardinality(JobHolders(l))
            /\ Cardinality(VisitHolders(l)') = Cardinality(VisitHolders(l)) - (IF l = req[r].lead /\ req[r].visit = "on" THEN 1 ELSE 0)
            /\ Cardinality(Undoing') = Cardinality(Undoing) /\ Cardinality(UndoingVisit') = Cardinality(UndoingVisit) - 1
        BY <2>1, <3>5, <4>1, Counts, NumbersAre DEF Same
      <4> QED BY <2>2, <4>2, BalanceIs, Balances, NumbersAre
    <3> QED BY <2>3, <3>1, <3>2, <3>3, <3>4, <3>5
  <2> QED BY <2>2, <2>4, <2>5, KeepsBooks
<1>9. CASE LoseAnswer(r)
  <2>0. /\ req[r].pc \in { "job", "visit", "lead" } /\ req' = [req EXCEPT ![r] = Undo(r)]
        /\ cut' = cut + 1 /\ refused' = refused
    BY <1>9 DEF LoseAnswer, At
  <2>1. PICK q : /\ Becomes(r, q)
                 /\ req[r].pc = "job" => q = Free
                 /\ req[r].pc # "job" => Same(q, req[r]) /\ q.job /\ q.visit = req[r].visit
                                        /\ q.pc = (IF req[r].pc = "visit" THEN "undojob" ELSE "undovisit")
    BY <2>0, Undoes
  <2>2. Cardinality(FullHolders(l)') \in Nat /\ Cardinality(FullHolders(l)') <= Cardinality(FullHolders(l))
    <3>1. q.pc \notin { "job", "visit", "lead" } BY <2>0, <2>1, Rests
    <3> QED BY <1>9, <2>1, <3>1, Counts, NumbersAre, FullCounts
  <2>3. CASE At(r, "job") /\ InsertJob(r)
    <3>1. UNCHANGED << lead, visits, booked, opened >> /\ req[r].pc = "job" /\ q = Free BY <2>1, <2>3 DEF InsertJob, At
    <3>2. jobs'[l] = jobs[l] + (IF l = req[r].lead THEN 1 ELSE 0) BY <1>0, <2>3 DEF InsertJob
    <3>3. ~req[r].job /\ req[r].visit = "none" BY <1>0, <3>1 DEF CallOK
    <3>4. /\ Cardinality(JobHolders(l)') = Cardinality(JobHolders(l))
          /\ Cardinality(VisitHolders(l)') = Cardinality(VisitHolders(l))
          /\ Cardinality(Undoing') = Cardinality(Undoing) /\ Cardinality(UndoingVisit') = Cardinality(UndoingVisit)
      BY <1>0, <2>1, <3>1, <3>3, Counts, NumbersAre, Rests
    <3>5. AccountAt(l)' BY <2>0, <3>1, <3>2, <3>4, BalanceIs, Balances, NumbersAre
    <3> QED BY <2>2, <3>1, <3>5, KeepsBooks
  <2>4. CASE At(r, "visit") /\ InsertVisit(r)
    <3>1. UNCHANGED << lead, jobs, booked, opened >> /\ req[r].pc = "visit" BY <2>4 DEF InsertVisit, At
    <3>2. visits'[l] = visits[l] + (IF l = req[r].lead THEN 1 ELSE 0) BY <1>0, <2>4 DEF InsertVisit
    <3>3. req[r].job /\ req[r].visit = "none" BY <1>0, <3>1 DEF CallOK
    <3>4. /\ Cardinality(JobHolders(l)') = Cardinality(JobHolders(l))
          /\ Cardinality(VisitHolders(l)') = Cardinality(VisitHolders(l))
          /\ Cardinality(Undoing') = Cardinality(Undoing) + 1 /\ Cardinality(UndoingVisit') = Cardinality(UndoingVisit)
      BY <2>1, <3>1, <3>3, Counts, NumbersAre DEF Same
    <3>5. AccountAt(l)' BY <2>0, <3>1, <3>2, <3>4, BalanceIs, Balances, NumbersAre
    <3> QED BY <2>2, <3>1, <3>5, KeepsBooks
  <2>5. CASE At(r, "lead") /\ WriteLead(r) /\ UNCHANGED booked
    <3>1. UNCHANGED << jobs, visits, booked >> /\ req[r].pc = "lead" BY <2>5 DEF WriteLead, At
    <3>3. req[r].job BY <1>0, <3>1 DEF CallOK
    <3>4. /\ Cardinality(JobHolders(l)') = Cardinality(JobHolders(l))
          /\ Cardinality(VisitHolders(l)') = Cardinality(VisitHolders(l))
          /\ Cardinality(Undoing') = Cardinality(Undoing) + 1 /\ Cardinality(UndoingVisit') = Cardinality(UndoingVisit) + 1
      BY <2>1, <3>1, <3>3, Counts, NumbersAre DEF Same
    <3>5. AccountAt(l)' BY <2>0, <3>1, <3>4, BalanceIs, Balances, NumbersAre
    <3>6. booked'[l].full \in Nat /\ booked'[l].full = booked[l].full
          /\ booked'[l].full + Cardinality(FullHolders(l)') <= booked[l].full + Cardinality(FullHolders(l))
      BY <2>2, <3>1, NumbersAre
    <3> QED BY <1>4, <2>2, <2>5, <3>5, <3>6
  <2> QED BY <1>9, <2>3, <2>4, <2>5 DEF LoseAnswer
<1>10. CASE Kill(r)
  <2>1. Becomes(r, Free) /\ UNCHANGED << lead, jobs, visits, booked, opened, refused >> /\ cut' = cut + 1
    BY <1>10, Stops DEF Kill
  <2>2. Cardinality(FullHolders(l)') \in Nat /\ Cardinality(FullHolders(l)') <= Cardinality(FullHolders(l))
    BY <1>10, <2>1, Counts, NumbersAre, FullCounts, Rests
  <2>3. /\ Cardinality(JobHolders(l)') \in { Cardinality(JobHolders(l)), Cardinality(JobHolders(l)) - 1 }
        /\ Cardinality(VisitHolders(l)') \in { Cardinality(VisitHolders(l)), Cardinality(VisitHolders(l)) - 1 }
        /\ Cardinality(Undoing') \in { Cardinality(Undoing), Cardinality(Undoing) - 1 }
        /\ Cardinality(UndoingVisit') \in { Cardinality(UndoingVisit), Cardinality(UndoingVisit) - 1 }
    BY <1>0, <2>1, Counts, NumbersAre, Rests
  <2>4. AccountAt(l)' BY <2>1, <2>3, BalanceIs, Balances, NumbersAre
  <2> QED BY <2>1, <2>2, <2>4, KeepsBooks
<1> QED BY <1>1, <1>2, <1>3, <1>5, <1>6, <1>7, <1>8, <1>9, <1>10 DEF Confirm

LEMMA AccountStep == TypeInv /\ AccountInv /\ BookInv /\ [Next]_vars => AccountInv' /\ BookInv'
<1> SUFFICES ASSUME TypeInv, AccountInv, BookInv, [Next]_vars PROVE AccountInv' /\ BookInv' OBVIOUS
<1>1. ASSUME UNCHANGED << jobs, visits, req, booked, opened, refused, cut >>,
             \A l \in Lead : lead'[l].status = lead[l].status
      PROVE  AccountInv' /\ BookInv'
  <2> SUFFICES ASSUME NEW l \in Lead PROVE AccountAt(l)' /\ BookAt(l)' BY DEF AccountInv, BookInv
  <2>1. AccountAt(l)' BY <1>1, CountsStay, BalanceIs, Balances
  <2>2. FullHolders(l)' = FullHolders(l) /\ Cardinality(FullHolders(l)) \in Nat BY <1>1, CountsStay, NumbersAre
  <2> QED BY <1>1, <2>1, <2>2, KeepsBooks
<1>2. ASSUME NEW c \in Runs, Chase(c) \/ Reengage(c) \/ Abort(c) PROVE AccountInv' /\ BookInv'
  <2>1. UNCHANGED << jobs, visits, req, booked, opened, refused, cut >> BY <1>2, RunTypes
  <2>2. \A l \in Lead : lead'[l].status = lead[l].status BY <1>2, RunsKeepLeads
  <2> QED BY <1>1, <2>1, <2>2
<1>3. CASE UNCHANGED vars BY <1>1, <1>3 DEF vars
<1> QED BY <1>2, <1>3, OfficeAccounts, ConfirmAccounts DEF Next

LEMMA AccountCorrect == Spec => [](TypeInv /\ AccountInv /\ BookInv)
<1>1. Init => AccountInv /\ BookInv
  <2> SUFFICES ASSUME Init, NEW l \in Lead PROVE AccountAt(l) /\ BookAt(l) BY DEF AccountInv, BookInv
  <2>1. \A r \in Request : req[r] = Free BY DEF Init
  <2>2. JobHolders(l) = {} /\ VisitHolders(l) = {} /\ FullHolders(l) = {} /\ Undoing = {} /\ UndoingVisit = {}
    BY <2>1, Rests, EnquiriesAssumption DEF JobHolders, VisitHolders, FullHolders, Of, Undoing, UndoingVisit
  <2>3. Cardinality({}) = 0 BY FS_EmptySet
  <2>4. jobs[l] = 0 /\ visits[l] = 0 /\ booked[l] = [all |-> 0, full |-> 0] /\ opened[l] = 0 /\ refused = 0 /\ cut = 0
        /\ lead[l].status = "none"
    BY DEF Init, Absent
  <2>5. AccountAt(l) BY <2>2, <2>3, <2>4 DEF AccountAt, Paid
  <2>6. 0 * Cardinality(Request) = 0 BY CountsAre
  <2>7. BookAt(l) BY <2>2, <2>3, <2>4, <2>6 DEF BookAt, Bookable
  <2> QED BY <2>5, <2>7
<1> QED BY <1>1, TypeInit, TypeStep, AccountStep, PTL DEF Spec

\* Leads, requests, runs and counters keep their types, and no job or appointment is
\* undone that is not there.
THEOREM TypeCorrect == Spec => []TypeOK
<1>1. TypeInv /\ AccountInv => TypeOK
  <2> SUFFICES ASSUME TypeInv, AccountInv PROVE TypeOK OBVIOUS
  <2>1. \A l \in Lead : jobs[l] \in Nat /\ visits[l] \in Nat BY BalanceIs, NumbersAre
  <2>2. jobs \in [Lead -> Nat] /\ visits \in [Lead -> Nat] BY <2>1 DEF TypeInv
  <2>3. lead \in [Lead -> [status : Statuses \cup { "none" }, next : Nexts, recalled : BOOLEAN]] BY DEF TypeInv, Entry
  <2>4. req \in [Request -> [pc : { "idle", "job", "visit", "lead", "undovisit", "undojob" },
                         lead : Lead \cup { None }, full : BOOLEAN, job : BOOLEAN,
                         visit : { "none", "on", "off" }]]
    BY DEF TypeInv, Call, RequestPCs
  <2>5. run \in [Runs -> [pc : { "idle", "chase", "visits", "schedule", "clear", "recall", "mark" },
                      list : SUBSET Lead, cur : Lead \cup { None }, todo : SUBSET Step]]
    <3>1. ChasePCs \cup RecallPCs = { "idle", "chase", "visits", "schedule", "clear", "recall", "mark" }
      BY DEF ChasePCs, RecallPCs
    <3> QED BY <3>1 DEF TypeInv, Walk
  <2> QED BY <2>2, <2>3, <2>4, <2>5 DEF TypeInv, TypeOK, Bounds
<1> QED BY <1>1, AccountCorrect, PTL

\* One refused call leaves nothing behind; and no confirmation takes away what
\* another has made.
THEOREM StraysCorrect == Spec => []StraysBounded
<1>1. TypeInv /\ AccountInv => StraysBounded
  <2> SUFFICES ASSUME TypeInv, AccountInv, NEW l \in Lead
               PROVE  LET made == booked[l].all + Cardinality({ r \in Of(l) : req[r].job }) IN
                      /\ jobs[l] \in made .. made + Excused
                      /\ visits[l] <= booked[l].all + Cardinality({ r \in Of(l) : req[r].visit = "on" }) + Excused
    BY DEF StraysBounded
  <2>1. { r \in Of(l) : req[r].job } = JobHolders(l) /\ { r \in Of(l) : req[r].visit = "on" } = VisitHolders(l)
    BY DEF JobHolders, VisitHolders
  <2>2. \A a, b, s \in Int : 2 * s <= 2 * a + b => s <= a + b \div 2 OBVIOUS
  <2>3. Excused = cut + refused \div 2 /\ Excused \in Int BY NumbersAre DEF Excused
  <2>4. jobs[l] - booked[l].all - Cardinality(JobHolders(l)) <= Excused
    BY <2>2, <2>3, BalanceIs, NumbersAre
  <2>5. visits[l] - booked[l].all - Cardinality(VisitHolders(l)) <= Excused
    BY <2>2, <2>3, BalanceIs, NumbersAre
  <2>6. booked[l].all + Cardinality(JobHolders(l)) <= jobs[l] BY BalanceIs
  <2>7. booked[l].all \in Int /\ Cardinality(JobHolders(l)) \in Int /\ Cardinality(VisitHolders(l)) \in Int
        /\ jobs[l] \in Int /\ visits[l] \in Int
    BY NumbersAre
  <2>8. jobs[l] \in booked[l].all + Cardinality(JobHolders(l)) .. booked[l].all + Cardinality(JobHolders(l)) + Excused
    BY <2>3, <2>4, <2>6, <2>7
  <2>9. visits[l] <= booked[l].all + Cardinality(VisitHolders(l)) + Excused BY <2>3, <2>5, <2>7
  <2> QED BY <2>1, <2>8, <2>9
<1> QED BY <1>1, AccountCorrect, PTL

\* However often a lead is opened, edited and confirmed, each time gives room for one
\* full booking by each request at most.
THEOREM BookedCorrect == Spec => []BookedBounded
<1>1. TypeInv /\ BookInv => BookedBounded
  <2> SUFFICES ASSUME TypeInv, BookInv, NEW l \in Lead PROVE booked[l].full <= opened[l] * Cardinality(Request)
    BY DEF BookedBounded
  <2> DEFINE p == opened[l] * Cardinality(Request)
  <2>1. booked[l].full + (IF Bookable(l) THEN Cardinality(Request) ELSE Cardinality(FullHolders(l))) <= p
    BY DEF BookInv, BookAt
  <2>2. p \in Nat BY NumbersAre, Times
  <2> HIDE DEF p
  <2>3. booked[l].full <= p BY <2>1, <2>2, NumbersAre
  <2> QED BY <2>3 DEF p
<1> QED BY <1>1, AccountCorrect, PTL
-----------------------------------------------------------------------------
(* How often a lead is asked.                                              *)

Marking(l) == { c \in Recaller : run[c].cur = l }
Waiting(l) == { c \in Recaller : l \in run[c].list /\ run[c].cur # l }

\* A lead that is not marked was asked by those that are about to mark it and by
\* those that were cut; one that is marked is listed no more.
RecallAt(l) ==
  /\ ~lead[l].recalled => asked[l] <= aborted + Cardinality(Marking(l))
  /\ lead[l].recalled => asked[l] + Cardinality(Waiting(l)) <= aborted + Cardinality(Recaller)

RecallInv == \A l \in Lead : RecallAt(l)

LEMMA RecallersAre ==
  ASSUME TypeInv, NEW l \in Lead
  PROVE  /\ Cardinality(Marking(l)) \in Nat /\ Cardinality(Waiting(l)) \in Nat /\ Cardinality(Recaller) \in Nat
         /\ Cardinality(Marking(l)) + Cardinality(Waiting(l)) <= Cardinality(Recaller)
         /\ asked[l] \in Nat /\ aborted \in Nat
<1>1. IsFiniteSet(Recaller) BY EnquiriesAssumption
<1>2. Marking(l) \subseteq Recaller /\ Waiting(l) \subseteq Recaller /\ Marking(l) \cap Waiting(l) = {}
  BY DEF Marking, Waiting
<1>3. IsFiniteSet(Marking(l)) /\ IsFiniteSet(Waiting(l)) BY <1>1, <1>2, FS_Subset
<1>4. Cardinality(Marking(l) \cup Waiting(l)) = Cardinality(Marking(l)) + Cardinality(Waiting(l))
  <2>1. Cardinality(Marking(l) \cup Waiting(l))
          = Cardinality(Marking(l)) + Cardinality(Waiting(l)) - Cardinality(Marking(l) \cap Waiting(l))
    BY <1>3, FS_Union
  <2>2. Cardinality(Marking(l) \cap Waiting(l)) = 0 BY <1>2, FS_EmptySet
  <2>3. Cardinality(Marking(l)) \in Nat /\ Cardinality(Waiting(l)) \in Nat BY <1>3, FS_CardinalityType
  <2> QED BY <2>1, <2>2, <2>3
<1>5. Cardinality(Marking(l) \cup Waiting(l)) <= Cardinality(Recaller)
  <2>1. Marking(l) \cup Waiting(l) \in SUBSET Recaller BY <1>2
  <2> QED BY <1>1, <2>1, FS_Subset
<1>6. Cardinality(Marking(l)) \in Nat /\ Cardinality(Waiting(l)) \in Nat /\ Cardinality(Recaller) \in Nat
  BY <1>1, <1>3, FS_CardinalityType
<1>7. asked[l] \in Nat /\ aborted \in Nat BY DEF TypeInv
<1> QED BY <1>4, <1>5, <1>6, <1>7

\* How the counts change when one run goes on.
LEMMA RecallCounts ==
  ASSUME NEW c \in Runs, \A d \in Runs \ { c } : run'[d] = run[d], NEW l \in Lead
  PROVE  /\ c \notin Recaller => Marking(l)' = Marking(l) /\ Waiting(l)' = Waiting(l)
         /\ c \in Recaller =>
              /\ Cardinality(Marking(l)') \in Nat /\ Cardinality(Waiting(l)') \in Nat
              /\ Cardinality(Marking(l)') = Cardinality(Marking(l))
                   + (IF run'[c].cur = l THEN 1 ELSE 0) - (IF run[c].cur = l THEN 1 ELSE 0)
              /\ Cardinality(Waiting(l)') = Cardinality(Waiting(l))
                   + (IF l \in run'[c].list /\ run'[c].cur # l THEN 1 ELSE 0)
                   - (IF l \in run[c].list /\ run[c].cur # l THEN 1 ELSE 0)
<1>1. \A d \in Recaller : d # c => run'[d] = run[d] BY DEF Runs
<1>2. c \notin Recaller => Marking(l)' = Marking(l) /\ Waiting(l)' = Waiting(l) BY <1>1 DEF Marking, Waiting
<1>3. ASSUME c \in Recaller
      PROVE  /\ Cardinality(Marking(l)') \in Nat /\ Cardinality(Waiting(l)') \in Nat
             /\ Cardinality(Marking(l)') = Cardinality(Marking(l))
                  + (IF run'[c].cur = l THEN 1 ELSE 0) - (IF run[c].cur = l THEN 1 ELSE 0)
             /\ Cardinality(Waiting(l)') = Cardinality(Waiting(l))
                  + (IF l \in run'[c].list /\ run'[c].cur # l THEN 1 ELSE 0)
                  - (IF l \in run[c].list /\ run[c].cur # l THEN 1 ELSE 0)
  <2>1. IsFiniteSet(Recaller) BY EnquiriesAssumption
  <2>2. /\ Marking(l) \in SUBSET Recaller /\ Marking(l)' \in SUBSET Recaller
        /\ (c \in Marking(l)' <=> run'[c].cur = l) /\ (c \in Marking(l) <=> run[c].cur = l)
        /\ \A p \in Recaller \ { c } : p \in Marking(l) <=> p \in Marking(l)'
    BY <1>1, <1>3 DEF Marking
  <2>3. /\ Waiting(l) \in SUBSET Recaller /\ Waiting(l)' \in SUBSET Recaller
        /\ (c \in Waiting(l)' <=> l \in run'[c].list /\ run'[c].cur # l)
        /\ (c \in Waiting(l) <=> l \in run[c].list /\ run[c].cur # l)
        /\ \A p \in Recaller \ { c } : p \in Waiting(l) <=> p \in Waiting(l)'
    BY <1>1, <1>3 DEF Waiting
  <2>4. Cardinality(Marking(l)') \in Nat /\ Cardinality(Marking(l)') = Cardinality(Marking(l))
          + (IF run'[c].cur = l THEN 1 ELSE 0) - (IF run[c].cur = l THEN 1 ELSE 0)
    BY <1>3, <2>1, <2>2, OneMoves
  <2>5. Cardinality(Waiting(l)') \in Nat /\ Cardinality(Waiting(l)') = Cardinality(Waiting(l))
          + (IF l \in run'[c].list /\ run'[c].cur # l THEN 1 ELSE 0)
          - (IF l \in run[c].list /\ run[c].cur # l THEN 1 ELSE 0)
    BY <1>3, <2>1, <2>3, OneMoves
  <2> QED BY <2>4, <2>5
<1> QED BY <1>2, <1>3

\* Only the re-engagement marks a lead, the one it is at.
LEMMA WhoMarks ==
  ASSUME TypeInv, NEW l \in Lead
  PROVE  /\ Office \/ (\E r \in Request : Confirm(r) \/ Refuse(r) \/ LoseAnswer(r) \/ Kill(r)) =>
              lead'[l].recalled = lead[l].recalled
         /\ \A c \in Runs : ClearNextAction(c) => lead'[l].recalled = lead[l].recalled
         /\ \A c \in Runs : MarkReengaged(c) =>
              IF l = run[c].cur THEN lead'[l].recalled ELSE lead'[l].recalled = lead[l].recalled
<1>1. lead \in [Lead -> Entry] /\ lead[l] \in Entry BY DEF TypeInv
<1>2. ASSUME NEW m \in Lead, lead' = [lead EXCEPT ![m].next = "due"] PROVE lead'[l].recalled = lead[l].recalled
  <2>1. lead'[l] = IF l = m THEN [lead[l] EXCEPT !.next = "due"] ELSE lead[l] BY <1>1, <1>2
  <2> QED BY <1>1, <2>1, Zenon DEF Entry
<1>3. ASSUME NEW m \in Lead, NEW status \in Statuses, NEW next \in Nexts, Write(m, status, next)
      PROVE  lead'[l].recalled = lead[l].recalled
  <2>1. CASE l = m BY <1>3, <2>1, Writes
  <2>2. CASE l # m
    <3>1. lead'[l] = lead[l] BY <1>3, <2>2, Writes
    <3> QED BY <3>1
  <2> QED BY <2>1, <2>2
<1>4. Office \/ (\E r \in Request : Confirm(r) \/ Refuse(r) \/ LoseAnswer(r) \/ Kill(r)) =>
        lead'[l].recalled = lead[l].recalled
  <2>1. SUFFICES ASSUME Office \/ (\E r \in Request : Confirm(r) \/ Refuse(r) \/ LoseAnswer(r) \/ Kill(r))
                 PROVE  lead'[l].recalled = lead[l].recalled
    OBVIOUS
  <2>2. CASE UNCHANGED lead BY <2>2
  <2> QED BY <2>1, <2>2, <1>2, <1>3, OtherSteps
<1>5. ASSUME NEW c \in Runs, ClearNextAction(c) PROVE lead'[l].recalled = lead[l].recalled
  <2>1. lead' = [lead EXCEPT ![run[c].cur].next = "none"] BY <1>5 DEF ClearNextAction
  <2>2. lead'[l] = IF l = run[c].cur THEN [lead[l] EXCEPT !.next = "none"] ELSE lead[l] BY <1>1, <2>1
  <2> QED BY <1>1, <2>2, Zenon DEF Entry
<1>6. ASSUME NEW c \in Runs, MarkReengaged(c)
      PROVE  IF l = run[c].cur THEN lead'[l].recalled ELSE lead'[l].recalled = lead[l].recalled
  <2>1. lead' = [lead EXCEPT ![run[c].cur].recalled = TRUE] BY <1>6 DEF MarkReengaged
  <2>2. lead'[l] = IF l = run[c].cur THEN [lead[l] EXCEPT !.recalled = TRUE] ELSE lead[l] BY <1>1, <2>1
  <2> QED BY <1>1, <2>2, Zenon DEF Entry
<1> QED BY <1>4, <1>5, <1>6

\* The counts decide.
LEMMA RecallHolds ==
  ASSUME TypeInv, NEW l \in Lead, RecallAt(l),
         NEW more \in Nat, NEW cuts \in Nat, asked'[l] = asked[l] + more, aborted' = aborted + cuts,
         Cardinality(Marking(l)') \in Nat, Cardinality(Waiting(l)') \in Nat,
         lead'[l].recalled = lead[l].recalled,
         Cardinality(Marking(l)) + more <= Cardinality(Marking(l)') + cuts,
         lead[l].recalled => Cardinality(Waiting(l)') + more <= Cardinality(Waiting(l)) + cuts
  PROVE  RecallAt(l)'
<1>1. ~lead[l].recalled => asked[l] <= aborted + Cardinality(Marking(l)) BY DEF RecallAt
<1>2. lead[l].recalled => asked[l] + Cardinality(Waiting(l)) <= aborted + Cardinality(Recaller) BY DEF RecallAt
<1>3. asked[l] <= aborted + Cardinality(Marking(l)) => asked'[l] <= aborted' + Cardinality(Marking(l)')
  BY RecallersAre
<1>4. asked[l] + Cardinality(Waiting(l)) <= aborted + Cardinality(Recaller)
        /\ Cardinality(Waiting(l)') + more <= Cardinality(Waiting(l)) + cuts =>
      asked'[l] + Cardinality(Waiting(l)') <= aborted' + Cardinality(Recaller)
  BY RecallersAre
<1>5. ~lead'[l].recalled => asked'[l] <= aborted' + Cardinality(Marking(l)') BY <1>1, <1>3
<1>6. lead'[l].recalled => asked'[l] + Cardinality(Waiting(l)') <= aborted' + Cardinality(Recaller) BY <1>2, <1>4
<1> QED BY <1>5, <1>6 DEF RecallAt

LEMMA RecallStep == TypeInv /\ RecallInv /\ [Next]_vars => RecallInv'
<1> SUFFICES ASSUME TypeInv, RecallInv, [Next]_vars, NEW l \in Lead PROVE RecallAt(l)'
  BY DEF RecallInv
<1>0. RecallAt(l) BY DEF RecallInv
<1>1. ASSUME UNCHANGED << run, asked, aborted >>, lead'[l].recalled = lead[l].recalled PROVE RecallAt(l)'
  <2>1. Marking(l)' = Marking(l) /\ Waiting(l)' = Waiting(l) BY <1>1 DEF Marking, Waiting
  <2>2. asked'[l] = asked[l] /\ aborted' = aborted BY <1>1
  <2> QED BY <1>0, <1>1, <2>1, <2>2, Zenon DEF RecallAt
<1>2. CASE Office \/ \E r \in Request : Confirm(r) \/ Refuse(r) \/ LoseAnswer(r) \/ Kill(r)
  BY <1>1, <1>2, OtherSteps, WhoMarks
<1>3. ASSUME NEW c \in Runs, Chase(c) PROVE RecallAt(l)'
  <2>1. c \notin Recaller BY <1>3, Whose, EnquiriesAssumption
  <2>2. \A d \in Runs \ { c } : run'[d] = run[d] BY <1>3, RunSteps
  <2>3. Marking(l)' = Marking(l) /\ Waiting(l)' = Waiting(l) BY <2>1, <2>2, RecallCounts
  <2>4. UNCHANGED << asked, aborted >>
    BY <1>3 DEF Chase, ListDue, List, LookForVisits, ClearNextAction, LookAtLead, Schedule, faults
  <2>5. UNCHANGED lead \/ ClearNextAction(c)
    BY <1>3 DEF Chase, ListDue, List, LookForVisits, LookAtLead, Schedule, rows
  <2>6. lead'[l].recalled = lead[l].recalled
    <3>1. CASE UNCHANGED lead BY <3>1
    <3>2. CASE ClearNextAction(c) BY <3>2, WhoMarks
    <3> QED BY <2>5, <3>1, <3>2
  <2>7. asked'[l] = asked[l] /\ aborted' = aborted BY <2>4
  <2> QED BY <1>0, <2>3, <2>6, <2>7, Zenon DEF RecallAt
<1>4. ASSUME NEW c \in Runs, Reengage(c) PROVE RecallAt(l)'
  <2>0. c \in Recaller /\ c \notin Chaser BY <1>4, Whose, EnquiriesAssumption
  <2>1. \A d \in Runs \ { c } : run'[d] = run[d] BY <1>4, RunSteps
  <2>2. UNCHANGED aborted BY <1>4 DEF Reengage, faults
  <2>3. /\ Cardinality(Marking(l)') \in Nat /\ Cardinality(Waiting(l)') \in Nat
        /\ Cardinality(Marking(l)') = Cardinality(Marking(l))
             + (IF run'[c].cur = l THEN 1 ELSE 0) - (IF run[c].cur = l THEN 1 ELSE 0)
        /\ Cardinality(Waiting(l)') = Cardinality(Waiting(l))
             + (IF l \in run'[c].list /\ run'[c].cur # l THEN 1 ELSE 0)
             - (IF l \in run[c].list /\ run[c].cur # l THEN 1 ELSE 0)
    BY <2>0, <2>1, RecallCounts
  <2>4. asked[l] \in Nat /\ aborted \in Nat /\ Cardinality(Marking(l)) \in Nat /\ Cardinality(Waiting(l)) \in Nat
    BY RecallersAre
  <2>5. CASE ListLost(c)
    <3>1. Recallable \in SUBSET Lead BY DEF Recallable
    <3>2. List(c, Recallable, "recall") /\ UNCHANGED << lead, asked >> BY <2>5 DEF ListLost, List, rows
    <3>3. run[c].list = {} /\ run[c].cur = None /\ run'[c].cur = None /\ run'[c].list \subseteq Recallable
      BY <2>0, <3>1, <3>2, Lists
    <3>4. l # None BY EnquiriesAssumption
    <3>5. lead[l].recalled => l \notin run'[c].list BY <3>3, Zenon DEF Recallable
    <3>6. Cardinality(Marking(l)') = Cardinality(Marking(l)) BY <2>3, <2>4, <3>3, <3>4
    <3>7. lead[l].recalled => Cardinality(Waiting(l)') = Cardinality(Waiting(l)) BY <2>3, <2>4, <3>3, <3>5
    <3>8. lead'[l].recalled = lead[l].recalled /\ asked'[l] = asked[l] + 0 /\ aborted' = aborted + 0
      BY <2>2, <2>4, <3>2
    <3>9. Cardinality(Marking(l)) + 0 <= Cardinality(Marking(l)') + 0 BY <2>4, <3>6
    <3>10. lead[l].recalled => Cardinality(Waiting(l)') + 0 <= Cardinality(Waiting(l)) + 0 BY <2>3, <2>4, <3>7
    <3> QED BY <1>0, <2>3, <3>8, <3>9, <3>10, RecallHolds
  <2>6. CASE MarkReengaged(c)
    <3>1. run[c].cur \in Lead /\ run[c].cur \in run[c].list BY <2>6, CursIn DEF MarkReengaged, Running
    <3>2. Leave(c, run[c].cur, "recall") /\ UNCHANGED asked BY <2>6 DEF MarkReengaged
    <3>3. run'[c].cur = None /\ run'[c].list = run[c].list \ { run[c].cur } BY <2>0, <3>1, <3>2, Leaves
    <3>4. l # None BY EnquiriesAssumption
    <3>5. Cardinality(Waiting(l)') = Cardinality(Waiting(l)) BY <2>3, <2>4, <3>3, <3>4
    <3>6. CASE l = run[c].cur
      <4>1. asked[l] <= aborted + Cardinality(Marking(l))
              \/ asked[l] + Cardinality(Waiting(l)) <= aborted + Cardinality(Recaller)
        BY <1>0 DEF RecallAt
      <4>2. asked[l] + Cardinality(Waiting(l)) <= aborted + Cardinality(Recaller) BY <4>1, RecallersAre
      <4>3. asked'[l] + Cardinality(Waiting(l)') <= aborted' + Cardinality(Recaller) BY <2>2, <3>2, <3>5, <4>2
      <4>4. lead'[l].recalled BY <2>6, <3>6, WhoMarks
      <4> QED BY <4>3, <4>4 DEF RecallAt
    <3>7. CASE l # run[c].cur
      <4>1. lead'[l].recalled = lead[l].recalled BY <2>6, <3>7, WhoMarks
      <4>2. Cardinality(Marking(l)') = Cardinality(Marking(l)) BY <2>3, <2>4, <3>3, <3>4, <3>7
      <4>3. asked'[l] = asked[l] /\ aborted' = aborted BY <2>2, <3>2
      <4> QED BY <1>0, <3>5, <4>1, <4>2, <4>3, Zenon DEF RecallAt
    <3> QED BY <3>6, <3>7
  <2>7. ASSUME NEW m \in Lead, Recall(c, m) PROVE RecallAt(l)'
    <3>0. UNCHANGED lead BY <2>7 DEF Recall, rows
    <3>1. run[c].pc = "recall" /\ m \in run[c].list /\ run[c].cur = None BY <2>0, <2>7, Recalls
    <3>2. l # None BY EnquiriesAssumption
    <3>3. lead'[l].recalled = lead[l].recalled BY <3>0
    <3>4. CASE Leave(c, m, "recall") /\ UNCHANGED asked
      <4>1. run'[c].cur = None /\ run'[c].list = run[c].list \ { m } BY <2>0, <3>4, Leaves
      <4>2. asked'[l] = asked[l] + 0 /\ aborted' = aborted + 0 BY <2>2, <2>4, <3>4
      <4>3. Cardinality(Marking(l)) + 0 <= Cardinality(Marking(l)') + 0 BY <2>3, <2>4, <3>1, <3>2, <4>1
      <4>4. Cardinality(Waiting(l)') + 0 <= Cardinality(Waiting(l)) + 0 BY <2>3, <2>4, <3>1, <3>2, <4>1
      <4> QED BY <1>0, <2>3, <3>3, <4>2, <4>3, <4>4, RecallHolds
    <3>5. CASE /\ asked' = [asked EXCEPT ![m] = @ + 1]
               /\ run'[c].cur = m /\ run'[c].list = run[c].list
      <4> DEFINE more == IF l = m THEN 1 ELSE 0
      <4>1. asked'[l] = asked[l] + more /\ aborted' = aborted + 0 BY <2>2, <2>4, <3>5 DEF TypeInv
      <4>2. Cardinality(Marking(l)) + more <= Cardinality(Marking(l)') + 0 BY <2>3, <2>4, <3>1, <3>2, <3>5
      <4>3. Cardinality(Waiting(l)') + more <= Cardinality(Waiting(l)) + 0 BY <2>3, <2>4, <3>1, <3>2, <3>5
      <4>4. more \in Nat OBVIOUS
      <4> HIDE DEF more
      <4> QED BY <1>0, <2>3, <3>3, <4>1, <4>2, <4>3, <4>4, RecallHolds
    <3> QED BY <2>0, <2>7, <3>4, <3>5, Recalls
  <2> QED BY <1>4, <2>5, <2>6, <2>7 DEF Reengage
<1>5. ASSUME NEW c \in Runs, Abort(c) PROVE RecallAt(l)'
  <2>1. run'[c] = Asleep /\ \A d \in Runs \ { c } : run'[d] = run[d] BY <1>5, Aborts
  <2>2. aborted' = aborted + 1 /\ asked'[l] = asked[l] + 0 /\ lead'[l].recalled = lead[l].recalled
    BY <1>5, RecallersAre DEF Abort, rows
  <2>3. run'[c].list = {} /\ run'[c].cur = None /\ l # None BY <2>1, Rests, EnquiriesAssumption
  <2>4. asked[l] \in Nat /\ aborted \in Nat /\ Cardinality(Marking(l)) \in Nat /\ Cardinality(Waiting(l)) \in Nat
    BY RecallersAre
  <2>5. /\ Cardinality(Marking(l)') \in Nat /\ Cardinality(Waiting(l)') \in Nat
        /\ Cardinality(Marking(l)) + 0 <= Cardinality(Marking(l)') + 1
        /\ Cardinality(Waiting(l)') + 0 <= Cardinality(Waiting(l)) + 1
    <3>1. CASE c \in Recaller BY <2>1, <2>3, <2>4, <3>1, RecallCounts
    <3>2. CASE c \notin Recaller
      <4>1. Marking(l)' = Marking(l) /\ Waiting(l)' = Waiting(l) BY <2>1, <3>2, RecallCounts
      <4> QED BY <2>4, <4>1
    <3> QED BY <3>1, <3>2
  <2> QED BY <1>0, <2>2, <2>5, RecallHolds
<1>6. CASE UNCHANGED vars BY <1>1, <1>6 DEF vars
<1> QED BY <1>2, <1>3, <1>4, <1>5, <1>6 DEF Next

\* A lead is asked once by each run that had listed it before it was marked, and once
\* more for each run that was cut before it marked it.
THEOREM RecalledCorrect == Spec => []RecalledOnce
<1>1. Init => RecallInv
  <2> SUFFICES ASSUME Init, NEW l \in Lead PROVE RecallAt(l) BY DEF RecallInv
  <2>1. lead[l] = Absent /\ asked[l] = 0 /\ aborted = 0 BY DEF Init
  <2>2. ~lead[l].recalled
    <3>1. ~Absent.recalled BY Zenon DEF Absent
    <3> QED BY <2>1, <3>1
  <2>3. Cardinality(Marking(l)) \in Nat BY TypeInit, RecallersAre
  <2>4. asked[l] <= aborted + Cardinality(Marking(l)) BY <2>1, <2>3
  <2> QED BY <2>2, <2>4 DEF RecallAt
<1>2. TypeInv /\ RecallInv => RecalledOnce
  <2> SUFFICES ASSUME TypeInv, RecallInv, NEW l \in Lead PROVE asked[l] <= Cardinality(Recaller) + aborted
    BY DEF RecalledOnce
  <2>1. asked[l] <= aborted + Cardinality(Marking(l)) \/ asked[l] + Cardinality(Waiting(l)) <= aborted + Cardinality(Recaller)
    BY DEF RecallInv, RecallAt
  <2> QED BY <2>1, RecallersAre
<1> QED BY <1>1, <1>2, TypeInit, TypeStep, RecallStep, PTL DEF Spec

=============================================================================
