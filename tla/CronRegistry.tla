---------------------------- MODULE CronRegistry ----------------------------
(***************************************************************************)
(* The cron registry: runDueCronJobs, claimCronDispatch and                *)
(* finishCronDispatch, over the table cron_dispatch_log.                   *)
(*                                                                         *)
(* A call of the dispatch route runs the registered jobs one after the     *)
(* other.  It takes the time once, at its start, and claims each job for   *)
(* the window that time falls in, by inserting the window's row.           *)
(***************************************************************************)
EXTENDS Naturals

CONSTANTS
  NumJobs,       \* registered jobs, 1 .. NumJobs in order of registration
  Cadence,       \* ticks of the clock in a window of a job
  Runners,       \* calls of the dispatch route that may overlap
  MaxTime,       \* bound: ticks modelled
  MaxCronFaults  \* bound: failed jobs, refused database calls, kills

Jobs == 1 .. NumJobs
CronTimes == 0 .. MaxTime

ASSUME CronAssumption ==
  /\ NumJobs \in Nat \ {0}
  /\ Cadence \in [Jobs -> Nat \ {0}]
  /\ MaxTime \in Nat /\ MaxCronFaults \in Nat

VARIABLES
  now,     \* the clock
  log,     \* status of the row of a job and window start, or "absent"
  runner,  \* the calls: await, job of the loop, jobs still selected, time taken
  runs,    \* history: runs begun for a job and window start
  done,    \* history: runs that returned a result
  cronFaults

cronVars == << now, log, runner, runs, done, cronFaults >>

PC == { "claim", "run", "finish", "fail" }
NoCall == [pc |-> "idle"]
Runner == [pc : PC, job : Jobs, only : BOOLEAN, time : CronTimes]

\* getWindowStart: the time rounded down to the job's cadence.
WindowStart(t, j) == (t \div Cadence[j]) * Cadence[j]

CronInit ==
  /\ now = 0
  /\ log = [j \in Jobs |-> [w \in CronTimes |-> "absent"]]
  /\ runner = [r \in Runners |-> NoCall]
  /\ runs = [j \in Jobs |-> [w \in CronTimes |-> 0]]
  /\ done = [j \in Jobs |-> [w \in CronTimes |-> 0]]
  /\ cronFaults = 0

-----------------------------------------------------------------------------
CronFault == cronFaults < MaxCronFaults /\ cronFaults' = cronFaults + 1
CallAt(r, pc) == runner[r].pc = pc
Window(r) == WindowStart(runner[r].time, runner[r].job)
CallGoto(r, pc) == runner' = [runner EXCEPT ![r].pc = pc]
EndCall(r) == runner' = [runner EXCEPT ![r] = NoCall]

\* The loop over the selected jobs: the next one, or the answer.
NextJob(r) ==
  IF runner[r].only \/ runner[r].job = NumJobs THEN EndCall(r)
  ELSE runner' = [runner EXCEPT ![r].pc = "claim", ![r].job = @ + 1]

SetLog(r, s) == log' = [log EXCEPT ![runner[r].job][Window(r)] = s]

-----------------------------------------------------------------------------
(* Mutated forms: mistakes a change could make.  No action uses them.      *)

\* A window whose run is not recorded as succeeded may be claimed again.
Claim_Retries(r) ==
  /\ CallAt(r, "claim")
  /\ IF log[runner[r].job][Window(r)] \in { "absent", "failed" }
     THEN SetLog(r, "running") /\ CallGoto(r, "run")
     ELSE NextJob(r) /\ UNCHANGED log
  /\ UNCHANGED << now, runs, done, cronFaults >>

\* A claim that is refused ends the call.
Claim_Stops(r) ==
  /\ CallAt(r, "claim")
  /\ IF log[runner[r].job][Window(r)] = "absent"
     THEN SetLog(r, "running") /\ CallGoto(r, "run")
     ELSE EndCall(r) /\ UNCHANGED log
  /\ UNCHANGED << now, runs, done, cronFaults >>

-----------------------------------------------------------------------------
Tick ==
  /\ now < MaxTime
  /\ now' = now + 1
  /\ UNCHANGED << log, runner, runs, done, cronFaults >>

\* GET or POST /api/_cron/dispatch, for all jobs, as the schedule calls it, or for
\* the one the caller names.
Invoke(r, j, only) ==
  /\ runner[r] = NoCall
  /\ runner' = [runner EXCEPT ![r] = [pc |-> "claim", job |-> j, only |-> only, time |-> now]]
  /\ UNCHANGED << now, log, runs, done, cronFaults >>

InvokeAll(r) == Invoke(r, 1, FALSE)
InvokeOne(r) == \E j \in Jobs : Invoke(r, j, TRUE)

\* INSERT of the window's row; a unique violation means it is taken.
Claim(r) ==
  /\ CallAt(r, "claim")
  /\ IF log[runner[r].job][Window(r)] = "absent"
     THEN SetLog(r, "running") /\ CallGoto(r, "run")
     ELSE NextJob(r) /\ UNCHANGED log
  /\ UNCHANGED << now, runs, done, cronFaults >>

Run(r) ==
  /\ CallAt(r, "run")
  /\ runs' = [runs EXCEPT ![runner[r].job][Window(r)] = @ + 1]
  /\ \/ /\ done' = [done EXCEPT ![runner[r].job][Window(r)] = @ + 1]
        /\ CallGoto(r, "finish") /\ UNCHANGED cronFaults
     \/ CronFault /\ CallGoto(r, "fail") /\ UNCHANGED done
  /\ UNCHANGED << now, log >>

Finish(r) ==
  /\ CallAt(r, "finish")
  /\ SetLog(r, "succeeded")
  /\ NextJob(r)
  /\ UNCHANGED << now, runs, done, cronFaults >>

\* An error of the update is caught like one of the job.
FinishFails(r) ==
  /\ CallAt(r, "finish")
  /\ CronFault
  /\ CallGoto(r, "fail")
  /\ UNCHANGED << now, log, runs, done >>

Fail(r) ==
  /\ CallAt(r, "fail")
  /\ SetLog(r, "failed")
  /\ NextJob(r)
  /\ UNCHANGED << now, runs, done, cronFaults >>

\* An error of the claim or of the catch's update ends the call, with the jobs
\* that were to follow; so does a kill, even in the middle of a job.
AbortCall(r) ==
  /\ runner[r] # NoCall
  /\ CronFault
  /\ \/ CallAt(r, "run") /\ runs' = [runs EXCEPT ![runner[r].job][Window(r)] = @ + 1]
     \/ UNCHANGED runs
  /\ EndCall(r)
  /\ UNCHANGED << now, log, done >>

CallStep(r) == Claim(r) \/ Run(r) \/ Finish(r) \/ Fail(r)

CronNext ==
  \/ Tick
  \/ \E r \in Runners : InvokeAll(r) \/ InvokeOne(r) \/ CallStep(r) \/ FinishFails(r) \/ AbortCall(r)

CronSpec == CronInit /\ [][CronNext]_cronVars

\* Time passes, what is called runs, and the schedule calls the route again and
\* again, whatever calls for single jobs there are besides.
FairCronSpec ==
  /\ CronSpec
  /\ WF_cronVars(Tick)
  /\ \A r \in Runners : SF_cronVars(InvokeAll(r)) /\ WF_cronVars(CallStep(r))

-----------------------------------------------------------------------------
(* Properties.                                                             *)

\* The clock, the log, the calls and the counters keep their types.
CronTypeOK ==
  /\ now \in CronTimes
  /\ log \in [Jobs -> [CronTimes -> { "absent", "running", "succeeded", "failed" }]]
  /\ runner \in [Runners -> Runner \cup {NoCall}]
  /\ runs \in [Jobs -> [CronTimes -> Nat]] /\ done \in [Jobs -> [CronTimes -> Nat]]
  /\ cronFaults \in 0 .. MaxCronFaults

\* A job is run at most once per cadence window, however many calls of the route
\* overlap, and whatever becomes of the run: a failed window is not run again.
OncePerWindow ==
  \A j \in Jobs : \A t \in CronTimes : runs[j][WindowStart(t, j)] <= 1

\* The log says succeeded only of a run that returned.
SucceededRan ==
  \A j \in Jobs : \A w \in CronTimes : log[j][w] = "succeeded" => done[j][w] = 1

\* Without faults no job is left out of its window: a call that finds a job claimed
\* by another goes on to the next, so that each is run, by one call or another.
\* (The last window modelled: of the others the schedule may miss any.)
EveryJobRuns ==
  [](cronFaults = 0) => \A j \in Jobs : <>(done[j][WindowStart(MaxTime, j)] = 1)
=============================================================================
