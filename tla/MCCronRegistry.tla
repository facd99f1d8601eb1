--------------------------- MODULE MCCronRegistry ---------------------------
(* Instances of CronRegistry for TLC.                                      *)
EXTENDS CronRegistry
\* A job of every tick and one of every other: 5 and 60 minutes, scaled.
Doubling == [j \in Jobs |-> j]
=============================================================================
