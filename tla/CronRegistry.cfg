\* Two jobs, two overlapping calls, three ticks, one fault.
CONSTANTS
  NumJobs = 2
  Cadence <- Doubling
  Runners = {r1, r2}
  MaxTime = 2
  MaxCronFaults = 1
SPECIFICATION FairCronSpec
INVARIANTS
  OncePerWindow
PROPERTIES
  EveryJobRuns
