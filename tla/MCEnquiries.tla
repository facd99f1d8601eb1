----------------------------- MODULE MCEnquiries -----------------------------
(* Instances of Enquiries for TLC. *)
EXTENDS Enquiries

Budget(leads, runs, confirmations, edits, failures) ==
  [leads |-> leads, runs |-> runs, confirmations |-> confirmations, edits |-> edits, faults |-> failures]

\* One lead confirmed over and over; one confirmed, edited and chased by two runs;
\* one edited and chased by two runs; three chased together; one that can be written
\* to and one that cannot, lost over and over.
MCBudgets ==
  { Budget({ "reached" }, {}, 4, 1, 2),
    Budget({ "reached" }, Chaser, 1, 1, 1),
    Budget({ "reached" }, Chaser, 0, 2, 1),
    Budget(Lead, { "chase1" }, 0, 1, 1),
    Budget({ "reached", "mute" }, Recaller, 0, 3, 1) }
=============================================================================
