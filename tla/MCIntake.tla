------------------------------- MODULE MCIntake -------------------------------
(* Instances of Intake for TLC. *)
EXTENDS Intake, TLC

Form(name, email, typed) == [name |-> name, email |-> email, phone |-> typed, issue |-> "boiler"]
Message(channel, phone, email, name) == [channel |-> channel, phone |-> phone, email |-> email, name |-> name]

Ann == Form("ann", "ann@", "+44 71")
AnnAgain == Form("ann", None, "+44-71")
Bob == Form("bob", "bob@", "+44 71")
MCForms == { Ann, AnnAgain, Bob }
Text == Message("sms", "+4471", None, "Customer +4471")
Mail == Message("email", None, "ann@", "ann@")
Advert == Message(None, "+4471", "ann@", "ann")
MCMessages == { Text, Mail, Advert }
MCStored == [typed \in { "+44 71", "+44-71" } |-> "+4471"]

Budget(forms, messages, requests, edits, moments, failures) ==
  [forms |-> forms, messages |-> messages, requests |-> requests, edits |-> edits, ticks |-> moments, faults |-> failures]

\* Two people at one number; one who repeats herself, over time, and while the office
\* is at work; messages and forms from one number, and from one address.
MCBudgets ==
  { Budget({ Ann, Bob }, {}, 4, 0, 0, 1),
    Budget({ AnnAgain }, {}, 4, 1, 2, 0),
    Budget({ AnnAgain }, {}, 3, 0, 2, 1),
    Budget({ Ann, AnnAgain }, {}, 3, 1, 0, 1),
    Budget({ Ann }, { Text, Advert }, 3, 1, 0, 0),
    Budget({}, { Mail, Text }, 4, 1, 0, 1) }

Symmetry == Permutations(Request)
=============================================================================
