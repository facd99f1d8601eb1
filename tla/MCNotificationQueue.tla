------------------------ MODULE MCNotificationQueue ------------------------
(* An instance of NotificationQueue for TLC.                               *)
EXTENDS NotificationQueue

First == CHOOSE d \in Dispatchers : TRUE

\* Either two dispatchers share a note, and the alert's key is taken by a row long
\* cancelled, or one of them has the note, scheduled for the last time, and the alert.
MCInit ==
  /\ optedOut = {} /\ owner = "legacy"
  /\ alerter = [n \in Alerts |-> "none"]
  /\ delivered = Zero /\ late = Zero
  /\ \E together \in BOOLEAN :
       /\ faults = IF together THEN 0 ELSE MaxFaults - 1
       /\ row = [n \in Notes |->
            [status |-> IF together /\ n \in Alerts THEN "cancelled" ELSE "absent", attempts |-> 0,
             due |-> FALSE, waiting |-> FALSE, test |-> FALSE,
             rev |-> IF together \/ n \in Alerts THEN 0 ELSE MaxRevisions - 1]]
       /\ disp = [d \in Dispatchers |-> IF together \/ d = First THEN Idle ELSE [Idle EXCEPT !.pc = "off"]]

\* A dispatcher that is off stays off, and nobody opts out of an alert that is not sent.
MCNext ==
  /\ Next
  /\ \A d \in Dispatchers : disp[d].pc = "off" => disp'[d].pc = "off"
  /\ \A n \in Alerts : row[n].status = "cancelled" /\ row[n].rev = 0 => n \notin optedOut'

MCSpec == MCInit /\ [][MCNext]_vars /\ Fairness
=============================================================================
