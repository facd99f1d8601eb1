------------------------------- MODULE Outbox -------------------------------
(***************************************************************************)
(* The sending half of the platform bridge: enqueueCrmPlatformEvent,       *)
(* publishPendingPlatformOutboxEvents and the recovery routes, over the    *)
(* table platform_outbox_events.                                           *)
(*                                                                         *)
(* A publisher reads a batch of rows once and works through the copy it    *)
(* read, one POST and one unguarded UPDATE per row; nothing is claimed, so *)
(* any number of publishers may hold the same row.  Rows are named by the  *)
(* rank of their occurred_at, the order in which a batch is read.          *)
(***************************************************************************)
EXTENDS Naturals, FiniteSets

CONSTANTS
  NumEvents,   \* events the CRM announces, 1 .. NumEvents by occurred_at
  Publishers,  \* requests that may be publishing at a time
  BatchSize,   \* rows read by one publisher (25 in the code)
  Quiet,       \* events whose writer does not publish (customer promises)
  Poison,      \* events the platform's endpoint never accepts
  MaxCount,    \* bound: counters of attempts stop here
  MaxOutboxFaults \* bound: crashes, lost answers, refused database calls

Events == 1 .. NumEvents

ASSUME OutboxAssumption ==
  /\ NumEvents \in Nat
  /\ BatchSize \in Nat \ {0}
  /\ IsFiniteSet(Publishers)
  /\ Quiet \subseteq Events /\ Poison \subseteq Events
  /\ MaxCount \in Nat \ {0} /\ MaxOutboxFaults \in Nat

VARIABLES
  outbox,    \* publication_status and delivery_attempt_count of a row
  pub,       \* the publishers: the await they are at, the rows they still hold
  written,   \* history: changes of the CRM's own tables made
  returned,  \* history: changes whose enqueue call came back without an error
  posts,     \* history: POSTs of the envelope
  accepted,  \* history: POSTs the platform's endpoint took
  lapses     \* faults so far: crashes, lost answers, refused calls

outboxVars == << outbox, pub, written, returned, posts, accepted, lapses >>

Statuses == { "absent", "pending", "failed", "published", "dead_letter" }
PublisherPC == { "idle", "enqueue", "list", "post", "markPublished", "markFailed" }
NoCopy == [e \in Events |-> 0]
NotPublishing == [pc |-> "idle", batch |-> {}, copy |-> NoCopy]
Publisher == [pc : PublisherPC, batch : SUBSET Events, copy : [Events -> 0 .. MaxCount]]

OutboxInit ==
  /\ outbox   = [e \in Events |-> [status |-> "absent", attempts |-> 0]]
  /\ pub      = [p \in Publishers |-> NotPublishing]
  /\ written  = {}
  /\ returned = {}
  /\ posts    = [e \in Events |-> 0]
  /\ accepted = [e \in Events |-> 0]
  /\ lapses   = 0

-----------------------------------------------------------------------------
\* A counter, capped by the bound MaxCount.
Incr(n) == IF n < MaxCount THEN n + 1 ELSE n

OutboxFault == lapses < MaxOutboxFaults /\ lapses' = lapses + 1

PublisherAt(p, pc) == pub[p].pc = pc
PublisherGoto(p, pc) == pub' = [pub EXCEPT ![p].pc = pc]
Stop(p) == pub' = [pub EXCEPT ![p] = NotPublishing]

Ready == { e \in Events : outbox[e].status \in { "pending", "failed" } }
\* The BatchSize oldest rows of S.
OldestOf(S) == { e \in S : Cardinality({ f \in S : f < e }) < BatchSize }

\* p starts on the copies it has just read of the rows in S.
Work(p, S) ==
  pub' = [pub EXCEPT ![p] =
    IF S = {} THEN NotPublishing
    ELSE [ pc |-> "post", batch |-> S,
           copy |-> [e \in Events |-> IF e \in S THEN outbox[e].attempts ELSE 0] ]]

\* e is the row p's loop is at, and the step to the row after it.
Current(p, e) == e \in pub[p].batch /\ \A f \in pub[p].batch : e <= f
NextRow(p, e) ==
  IF pub[p].batch = {e} THEN Stop(p)
  ELSE pub' = [pub EXCEPT ![p].pc = "post", ![p].batch = @ \ {e}]

\* The update after a POST, whatever the row says by now.
SetRow(p, e, s) ==
  outbox' = [outbox EXCEPT ![e] = [status |-> s, attempts |-> Incr(pub[p].copy[e])]]

-----------------------------------------------------------------------------
(* Mutated forms: mistakes a change could make.  No action uses them.      *)

\* The status filter is dropped, or failed rows are not picked up again.
List_Everything(p) ==
  /\ PublisherAt(p, "list")
  /\ Work(p, OldestOf({ e \in Events : outbox[e].status \in { "pending", "failed", "published" } }))
  /\ UNCHANGED << outbox, written, returned, posts, accepted, lapses >>

List_PendingOnly(p) ==
  /\ PublisherAt(p, "list")
  /\ Work(p, OldestOf({ e \in Events : outbox[e].status = "pending" }))
  /\ UNCHANGED << outbox, written, returned, posts, accepted, lapses >>

\* response.ok is not looked at.
Refuse_Unchecked(p, e) ==
  /\ PublisherAt(p, "post") /\ Current(p, e)
  /\ \/ e \in Poison /\ UNCHANGED lapses
     \/ OutboxFault
  /\ posts' = [posts EXCEPT ![e] = Incr(@)]
  /\ PublisherGoto(p, "markPublished")
  /\ UNCHANGED << outbox, written, returned, accepted >>

-----------------------------------------------------------------------------
(* Writers: a route changes the CRM, enqueues the event, then publishes.   *)

\* The route's own write: committed before anything is enqueued.
Write(p, e) ==
  /\ pub[p] = NotPublishing /\ e \notin written
  /\ written' = written \cup {e}
  /\ pub' = [pub EXCEPT ![p].pc = "enqueue", ![p].batch = {e}]
  /\ UNCHANGED << outbox, returned, posts, accepted, lapses >>

\* Back in the route: all but the customer promises go on to publish.
Return(p, e) ==
  /\ returned' = returned \cup {e}
  /\ IF e \in Quiet THEN Stop(p)
     ELSE pub' = [pub EXCEPT ![p].pc = "list", ![p].batch = {}]

EnqueueEvent(p, e) ==
  /\ PublisherAt(p, "enqueue") /\ Current(p, e)
  /\ outbox' = [outbox EXCEPT ![e] =
       IF @.status = "absent" THEN [status |-> "pending", attempts |-> 0] ELSE @]
  /\ Return(p, e)
  /\ UNCHANGED << written, posts, accepted, lapses >>

\* The alias lookup fails inside the try: null, and the event is dropped.
EnqueueDrops(p, e) ==
  /\ PublisherAt(p, "enqueue") /\ Current(p, e)
  /\ OutboxFault
  /\ Return(p, e)
  /\ UNCHANGED << outbox, written, posts, accepted >>

-----------------------------------------------------------------------------
(* Publishers.                                                             *)

\* POST /api/platform/outbox/publish.
Sweep(p) ==
  /\ pub[p] = NotPublishing
  /\ PublisherGoto(p, "list")
  /\ UNCHANGED << outbox, written, returned, posts, accepted, lapses >>

\* A manager republishes one row, unless it is published or dead-lettered.
Republish(p, e) ==
  /\ pub[p] = NotPublishing /\ e \in Ready
  /\ Work(p, {e})
  /\ UNCHANGED << outbox, written, returned, posts, accepted, lapses >>

List(p) ==
  /\ PublisherAt(p, "list")
  /\ Work(p, OldestOf(Ready))
  /\ UNCHANGED << outbox, written, returned, posts, accepted, lapses >>

\* The endpoint takes the envelope; the answer may get lost on the way back.
Accept(p, e) ==
  /\ PublisherAt(p, "post") /\ Current(p, e) /\ e \notin Poison
  /\ posts' = [posts EXCEPT ![e] = Incr(@)]
  /\ accepted' = [accepted EXCEPT ![e] = Incr(@)]
  /\ \/ PublisherGoto(p, "markPublished") /\ UNCHANGED lapses
     \/ PublisherGoto(p, "markFailed") /\ OutboxFault
  /\ UNCHANGED << outbox, written, returned >>

\* It refuses it, or cannot be reached.
Refuse(p, e) ==
  /\ PublisherAt(p, "post") /\ Current(p, e)
  /\ \/ e \in Poison /\ UNCHANGED lapses
     \/ OutboxFault
  /\ posts' = [posts EXCEPT ![e] = Incr(@)]
  /\ PublisherGoto(p, "markFailed")
  /\ UNCHANGED << outbox, written, returned, accepted >>

\* An error of this update is caught: the row is then marked failed.
MarkPublished(p, e) ==
  /\ PublisherAt(p, "markPublished") /\ Current(p, e)
  /\ \/ SetRow(p, e, "published") /\ NextRow(p, e) /\ UNCHANGED lapses
     \/ OutboxFault /\ PublisherGoto(p, "markFailed") /\ UNCHANGED outbox
  /\ UNCHANGED << written, returned, posts, accepted >>

MarkRowFailed(p, e) ==
  /\ PublisherAt(p, "markFailed") /\ Current(p, e)
  /\ SetRow(p, e, "failed")
  /\ NextRow(p, e)
  /\ UNCHANGED << written, returned, posts, accepted, lapses >>

\* An error nobody catches (enqueue's insert, the failure's own update), an
\* error of the list (nothing is published), or the function killed.
Abort(p) ==
  /\ pub[p] # NotPublishing
  /\ OutboxFault
  /\ Stop(p)
  /\ UNCHANGED << outbox, written, returned, posts, accepted >>

\* A manager gives up on a failed row (guarded update).
DeadLetter(e) ==
  /\ outbox[e].status = "failed"
  /\ outbox' = [outbox EXCEPT ![e].status = "dead_letter"]
  /\ UNCHANGED << pub, written, returned, posts, accepted, lapses >>

PublisherStep(p) ==
  \/ List(p)
  \/ \E e \in Events :
       \/ EnqueueEvent(p, e)
       \/ Accept(p, e) \/ Refuse(p, e)
       \/ MarkPublished(p, e) \/ MarkRowFailed(p, e)

OutboxNext ==
  \/ \E p \in Publishers :
       \/ PublisherStep(p) \/ Sweep(p) \/ Abort(p)
       \/ \E e \in Events : Write(p, e) \/ EnqueueDrops(p, e) \/ Republish(p, e)
  \/ \E e \in Events : DeadLetter(e)

OutboxSpec == OutboxInit /\ [][OutboxNext]_outboxVars

\* A started request runs on, and somebody publishes the batch again and again: a
\* later change of the CRM, or the platform calling the publish route.  (Strong: the
\* slots of Publishers bound the model; republishing single rows takes none away.)
FairOutboxSpec == OutboxSpec /\ \A p \in Publishers : WF_outboxVars(PublisherStep(p)) /\ SF_outboxVars(Sweep(p))

-----------------------------------------------------------------------------
(* Properties.                                                             *)

\* Every table, publisher and counter keeps its type.
OutboxTypes ==
  /\ outbox \in [Events -> [status : Statuses, attempts : 0 .. MaxCount]]
  /\ pub \in [Publishers -> Publisher]
  /\ written \subseteq Events /\ returned \subseteq Events
  /\ posts \in [Events -> 0 .. MaxCount] /\ accepted \in [Events -> 0 .. MaxCount]
  /\ lapses \in 0 .. MaxOutboxFaults

\* A row is published only if the platform took its envelope, whichever of the
\* publishers that hold the row writes last.
PublishedIsDelivered ==
  \A e \in Events : outbox[e].status = "published" => accepted[e] > 0

\* delivery_attempt_count never claims an attempt that was not made: publishers
\* that share a row may lose an increment, but cannot add one.
AttemptsHappened == \A e \in Events : outbox[e].attempts <= posts[e]

\* The platform takes an envelope at most once per publisher, and as often again
\* for every fault that throws an answer away: a published row is left alone.
DuplicatesBounded ==
  \A e \in Events : accepted[e] <= Cardinality(Publishers) * (1 + lapses)

\* What is in the outbox reaches the platform, or a manager gives up on it, if
\* publishing goes on, the endpoint takes the envelope in the end and the rows it
\* refuses leave room in the batch: lost answers, crashes and publishers that share
\* the row only delay it.
EventuallyDelivered ==
  \A e \in Events \ Poison :
    outbox[e].status = "pending" ~> (accepted[e] > 0 \/ outbox[e].status = "dead_letter")

=============================================================================
