------------------------- MODULE NotificationOutbox -------------------------
(***************************************************************************)
(* Delivery of notification events from the durable outbox:                *)
(* notifications/service.py (enqueue_notification), workers/notifications  *)
(* (deliver_notification, dispatch_pending_notifications), the local sink  *)
(* and the operator's retry of api/admin.py.                               *)
(*                                                                         *)
(* deliver_notification locks the event row.  A local delivery, a          *)
(* cancellation and an exhausted budget are one transaction.  An external  *)
(* delivery commits the spent attempt and a lease first, sends without any *)
(* lock, and locks the row again to record the answer, unless somebody     *)
(* else has taken the lease meanwhile.  Workers may die in between, jobs   *)
(* may be started any number of times, and a send may outlive its lease.   *)
(***************************************************************************)
EXTENDS Integers

CONSTANTS
  Events,       \* dedupe keys
  LocalEvents,  \* those for the local channel
  Workers,      \* slots that may run deliver_notification
  MaxAttempts,  \* MAX_ATTEMPTS of workers/jobs.py
  None          \* no lease, no event

ASSUME OutboxAssumption ==
  /\ LocalEvents \subseteq Events
  /\ MaxAttempts \in Nat \ {0}
  /\ None \notin Workers \cup Events

VARIABLES
  events,    \* notification_events; due: next_attempt_at is null or has passed
  failures,  \* job_failures of deliver_notification
  receipts,  \* events with a local_notification_receipts row
  allowed,   \* events their user's preferences and watchlist allow now
  jobs,      \* per worker: the external send in progress, then its answer
  accepted,  \* history: events some receiver has accepted
  sends      \* history: external sends begun since the event was last reset

vars == <<events, failures, receipts, allowed, jobs, accepted, sends>>

Terminal == {"sent", "dead_lettered", "cancelled"}
Answers  == {"success", "retryable", "terminal"}

NoEvent   == [status |-> "absent", attempts |-> 0, lease |-> None, due |-> TRUE]
NoFailure == [attempts |-> 0, dead |-> FALSE]
Idle      == [at |-> "idle", event |-> None, answer |-> "terminal"]

Event   == [status: {"absent", "pending", "sending"} \cup Terminal, attempts: 0..MaxAttempts,
            lease: Workers \cup {None}, due: BOOLEAN]
Failure == [attempts: 0..MaxAttempts, dead: BOOLEAN]
Job     == [at: {"sending", "answered"}, event: Events \ LocalEvents, answer: Answers] \cup {Idle}

Init ==
  /\ events   = [e \in Events |-> NoEvent]
  /\ failures = [e \in Events |-> NoFailure]
  /\ receipts = {}
  /\ allowed \in SUBSET Events
  /\ jobs     = [w \in Workers |-> Idle]
  /\ accepted = {}
  /\ sends    = [e \in Events |-> 0]

-----------------------------------------------------------------------------
(***************************************************************************)
(* The outbox.                                                             *)
(***************************************************************************)

(* _emit and enqueue_notification: an event whose dedupe key exists is not *)
(* inserted again, whatever its status.                                    *)
Enqueue(e) ==
  /\ e \in allowed
  /\ events[e] = NoEvent
  /\ events' = [events EXCEPT ![e].status = "pending"]
  /\ UNCHANGED <<failures, receipts, allowed, jobs, accepted, sends>>

(* What dispatch_pending_notifications publishes, and what                 *)
(* deliver_notification does not return from at once.                      *)
PendingOnly(e) == events[e].status = "pending" /\ events[e].due
Deliverable(e) == events[e].status \in {"pending", "sending"} /\ events[e].due

(* _finish. *)
FinishOnAnyAnswer(e, answer, attempts) ==
  /\ events' = [events EXCEPT ![e] = [status |-> IF answer = "terminal" THEN "dead_lettered" ELSE "sent",
                                      attempts |-> attempts, lease |-> None, due |-> TRUE]]
  /\ failures' = [failures EXCEPT ![e] = [attempts |-> 0, dead |-> answer = "terminal"]]

Finish(e, answer, attempts) ==
  LET terminal == answer = "terminal" \/ attempts >= MaxAttempts
      status   == CASE answer = "success" -> "sent"
                    [] answer # "success" /\ terminal -> "dead_lettered"
                    [] OTHER -> "pending"
  IN  /\ events' = [events EXCEPT ![e] = [status |-> status, attempts |-> attempts,
                                          lease |-> None, due |-> status # "pending"]]
      /\ failures' = [failures EXCEPT ![e] =
                        IF answer = "success" THEN NoFailure
                        ELSE [attempts |-> attempts, dead |-> terminal]]

(* The user's preferences or watchlist do not allow the event any more.    *)
Cancel(e) ==
  /\ Deliverable(e)
  /\ e \notin allowed
  /\ events' = [events EXCEPT ![e].status = "cancelled", ![e].lease = None]
  /\ UNCHANGED <<failures, receipts, allowed, jobs, accepted, sends>>

(* The last attempt's worker never came back.                              *)
Exhaust(e) ==
  /\ Deliverable(e)
  /\ e \in allowed
  /\ events[e].attempts >= MaxAttempts
  /\ Finish(e, "terminal", events[e].attempts)
  /\ UNCHANGED <<receipts, allowed, jobs, accepted, sends>>

Ready(e) == Deliverable(e) /\ e \in allowed /\ events[e].attempts < MaxAttempts

(* LocalSink: attempt, receipt and completion are one commit.              *)
DeliverLocally(e) ==
  /\ Ready(e)
  /\ e \in LocalEvents
  /\ receipts' = receipts \cup {e}
  /\ Finish(e, "success", events[e].attempts + 1)
  /\ UNCHANGED <<allowed, jobs, accepted, sends>>

(* The attempts an external delivery starts with.                          *)
AttemptNotSpent(e) == events[e].attempts
AttemptSpent(e) == events[e].attempts + 1

(* Attempt and lease are committed before the external side effect.        *)
Lease(w, e) ==
  /\ jobs[w] = Idle
  /\ Ready(e)
  /\ e \notin LocalEvents
  /\ events' = [events EXCEPT ![e] = [status |-> "sending", attempts |-> AttemptSpent(e),
                                      lease |-> w, due |-> FALSE]]
  /\ jobs' = [jobs EXCEPT ![w] = [at |-> "sending", event |-> e, answer |-> "terminal"]]
  /\ sends' = [sends EXCEPT ![e] = @ + 1]
  /\ UNCHANGED <<failures, receipts, allowed, accepted>>

(* The channel answers, or the 20 seconds pass.  Without a success the     *)
(* receiver may have accepted the message all the same.                    *)
Send(w) ==
  /\ jobs[w].at = "sending"
  /\ \E answer \in Answers :
       /\ jobs' = [jobs EXCEPT ![w].at = "answered", ![w].answer = answer]
       /\ \/ accepted' = accepted \cup {jobs[w].event}
          \/ answer # "success" /\ UNCHANGED accepted
  /\ UNCHANGED <<events, failures, receipts, allowed, sends>>

(* Does the answer belong to the attempt that the row is waiting for?      *)
AnyLease(w) == events[jobs[w].event].status # "absent"
LeaseHeld(w) == events[jobs[w].event].lease = w

Record(w) ==
  LET e == jobs[w].event
  IN  /\ jobs[w].at = "answered"
      /\ IF LeaseHeld(w) THEN Finish(e, jobs[w].answer, events[e].attempts)
         ELSE UNCHANGED <<events, failures>>        \* lease_lost
      /\ jobs' = [jobs EXCEPT ![w] = Idle]
      /\ UNCHANGED <<receipts, allowed, accepted, sends>>

(* The worker dies or the job is cancelled; its lease stays behind.        *)
Crash(w) ==
  /\ jobs[w] # Idle
  /\ jobs' = [jobs EXCEPT ![w] = Idle]
  /\ UNCHANGED <<events, failures, receipts, allowed, accepted, sends>>

(* A lease of LEASE_SECONDS or a backoff ends.                             *)
FallDue(e) ==
  /\ ~ events[e].due
  /\ events' = [events EXCEPT ![e].due = TRUE]
  /\ UNCHANGED <<failures, receipts, allowed, jobs, accepted, sends>>

(* set_preferences and changes of the watchlist.                           *)
ChangePreference(e) ==
  /\ allowed' = IF e \in allowed THEN allowed \ {e} ELSE allowed \cup {e}
  /\ UNCHANGED <<events, failures, receipts, jobs, accepted, sends>>

(* The operator retries a dead letter: event and failure row together.     *)
RetryKeepsFailure(e) ==
  /\ failures[e].dead
  /\ events[e].status = "dead_lettered"
  /\ events' = [events EXCEPT ![e] = [NoEvent EXCEPT !.status = "pending"]]
  /\ sends' = [sends EXCEPT ![e] = 0]
  /\ UNCHANGED <<failures, receipts, allowed, jobs, accepted>>

Retry(e) ==
  /\ failures[e].dead
  /\ events[e].status = "dead_lettered"
  /\ e \notin receipts
  /\ events' = [events EXCEPT ![e] = [NoEvent EXCEPT !.status = "pending"]]
  /\ failures' = [failures EXCEPT ![e] = NoFailure]
  /\ sends' = [sends EXCEPT ![e] = 0]
  /\ UNCHANGED <<receipts, allowed, jobs, accepted>>

Deliver(e) ==
  \/ Cancel(e) \/ Exhaust(e) \/ DeliverLocally(e)
  \/ \E w \in Workers : Lease(w, e)

Next ==
  \/ \E e \in Events :
       Enqueue(e) \/ Deliver(e) \/ FallDue(e) \/ ChangePreference(e) \/ Retry(e)
  \/ \E w \in Workers : Send(w) \/ Record(w) \/ Crash(w)

Spec == Init /\ [][Next]_vars

(***************************************************************************)
(* The dispatcher publishes due events every 30 seconds, oldest first, and *)
(* the queue serves them in that order; a send ends within its timeout, or *)
(* with its worker; time passes.                                           *)
(***************************************************************************)
FairSpec ==
  /\ Spec
  /\ \A e \in Events : SF_vars(Deliver(e)) /\ WF_vars(FallDue(e))
  /\ \A w \in Workers : WF_vars(Send(w)) /\ WF_vars(Record(w))

-----------------------------------------------------------------------------
(***************************************************************************)
(* What others see: how far each event is, which messages may be on their  *)
(* way, and who has received what.                                         *)
(***************************************************************************)

Progress(e) == [state |-> events[e].status, attempts |-> events[e].attempts]
OnTheirWay  == {jobs[w].event : w \in {v \in Workers : jobs[v].at = "sending"}}

Outbox == INSTANCE BoundedDelivery
            WITH AtOnce <- LocalEvents, delivery <- [e \in Events |-> Progress(e)],
                 underway <- OnTheirWay, reached <- receipts \cup accepted

-----------------------------------------------------------------------------
(***************************************************************************)
(* Properties.                                                             *)
(***************************************************************************)

(* Type correctness. *)
TypeOK ==
  /\ events \in [Events -> Event]
  /\ failures \in [Events -> Failure]
  /\ receipts \subseteq LocalEvents
  /\ allowed \subseteq Events
  /\ jobs \in [Workers -> Job]
  /\ accepted \subseteq Events
  /\ sends \in [Events -> Nat]

(* docs/notifications.md: recovery does not reset the budget.  However     *)
(* often workers crash, leases expire and jobs are repeated, no more than  *)
(* MAX_ATTEMPTS sends begin before an operator resets the event, and each  *)
(* is paid for by an attempt that was committed before it began.           *)
BudgetBoundsSends ==
  \A e \in Events : sends[e] <= events[e].attempts /\ sends[e] <= MaxAttempts

(* An event is recorded as sent only if it was: a local one has its        *)
(* receipt, an external one was accepted by its receiver; and a receipt    *)
(* belongs to an event that is recorded as sent.                           *)
SentMeansDelivered ==
  \A e \in Events :
    /\ events[e].status = "sent" => e \in receipts \cup accepted
    /\ e \in receipts => events[e].status = "sent"

(* The operator's list of dead letters shows exactly the events that are   *)
(* dead, through all retries, resets, cancellations and late answers.      *)
DeadLettersAreListed ==
  \A e \in Events : failures[e].dead <=> events[e].status = "dead_lettered"

(* A lease belongs to a send in progress or to a dead worker: an answer    *)
(* that may still be recorded is for an event that is still being sent.    *)
LeaseOnlyWhileSending ==
  \A e \in Events : events[e].lease # None <=> events[e].status = "sending"

(* A late answer, a repeated job or a changed preference never brings a    *)
(* finished event back: sent and cancelled are final, and a dead letter    *)
(* leaves that state only with a fresh budget, by the operator.            *)
FinishedStaysFinished ==
  [][\A e \in Events :
       events[e].status \in Terminal /\ events'[e] # events[e] =>
         events[e].status = "dead_lettered" /\ events'[e] = [NoEvent EXCEPT !.status = "pending"]]_vars

(* docs/notifications.md: with jobs repeated, leases that expire, workers  *)
(* that die and answers that come late, an event sees no more than one     *)
(* careful sender would do to it: every message on its way was counted     *)
(* before, what is sent has been received, what waits has an attempt left, *)
(* and what is dead was being sent.                                        *)
ImplementsDelivery == Outbox!Spec

(* Every event in the outbox is eventually sent, dead-lettered or          *)
(* cancelled, also if every worker that sends it crashes.                  *)
EventsFinish ==
  \A e \in Events : events[e].status \in {"pending", "sending"} ~> events[e].status \in Terminal

=============================================================================
