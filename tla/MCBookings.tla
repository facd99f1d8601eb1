------------------------------ MODULE MCBookings ------------------------------
(* Instances of Bookings for TLC.                                          *)
EXTENDS Bookings, TLC

Ev(kind, c, b, named) == [kind |-> kind, conv |-> c, booking |-> b, name |-> named]
\* Two people at one telephone number.
Household == [c \in Conversation |-> IF c = "c1" THEN "ann" ELSE "bob"]
\* Two bookings of hers, of which the calendar reports one and completes the other;
\* one of his that the office may have to resolve.
Mixed == { Ev("confirmed", "c1", "b1", TRUE), Ev("confirmed", "c1", "b2", TRUE), Ev("upserted", "c1", "b2", TRUE),
           Ev("completed", "c1", "b1", TRUE), Ev("qualified", "c2", Nothing, FALSE),
           Ev("confirmed", "c2", "b3", TRUE), Ev("recovered", "c2", "b3", TRUE) }
\* Everything about one booking.
OneBooking == { Ev("started", "c1", Nothing, FALSE), Ev("qualified", "c1", Nothing, FALSE), Ev("confirmed", "c1", "b1", TRUE),
                Ev("upserted", "c1", "b1", TRUE), Ev("cancelled", "c1", "b1", TRUE) }
Symmetry == Permutations(Worker)
=============================================================================
