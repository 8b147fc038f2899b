----------------------- MODULE NotificationOutboxProofs -----------------------
(***************************************************************************)
(* Safety of the notification outbox, for any number of events, workers    *)
(* and attempts.                                                           *)
(*                                                                         *)
(* The properties hold one another up, so they are proved together as one  *)
(* inductive invariant with two more facts: an answer of success in a      *)
(* worker's hands comes from a receiver that has accepted the message, and *)
(* a finished event is not waiting for a point in time.                    *)
(***************************************************************************)
EXTENDS NotificationOutbox, TLAPS

(* A worker that is about to record a success has had one.                 *)
SuccessWasAccepted ==
  \A w \in Workers :
    jobs[w].at = "answered" /\ jobs[w].answer = "success" => jobs[w].event \in accepted

(* next_attempt_at is null in finished events and in events never stored.  *)
FinishedIsNotWaiting ==
  \A e \in Events : events[e].status \in Terminal \cup {"absent"} => events[e].due

IInv ==
  /\ TypeOK
  /\ BudgetBoundsSends
  /\ SentMeansDelivered
  /\ DeadLettersAreListed
  /\ LeaseOnlyWhileSending
  /\ SuccessWasAccepted
  /\ FinishedIsNotWaiting

-----------------------------------------------------------------------------

(* _finish writes a row of the right type, with a dead letter exactly when *)
(* it lists one, and without a lease.                                      *)
LEMMA FinishWrites ==
  ASSUME TypeOK, NEW e \in Events, NEW answer \in Answers, NEW n \in 0..MaxAttempts,
         Finish(e, answer, n)
  PROVE  /\ events' \in [Events -> Event]
         /\ failures' \in [Events -> Failure]
         /\ \A x \in Events \ {e} : events'[x] = events[x] /\ failures'[x] = failures[x]
         /\ events'[e].attempts = n
         /\ events'[e].lease = None
         /\ events'[e].status \in {"sent", "dead_lettered", "pending"}
         /\ events'[e].status = "sent" <=> answer = "success"
         /\ events'[e].status \in Terminal => events'[e].due
         /\ failures'[e].dead <=> events'[e].status = "dead_lettered"
<1> DEFINE terminal == answer = "terminal" \/ n >= MaxAttempts
           status   == CASE answer = "success" -> "sent"
                         [] answer # "success" /\ terminal -> "dead_lettered"
                         [] OTHER -> "pending"
           row      == [status |-> status, attempts |-> n, lease |-> None, due |-> status # "pending"]
           listed   == IF answer = "success" THEN NoFailure
                       ELSE [attempts |-> n, dead |-> terminal]
<1>1. /\ events' = [events EXCEPT ![e] = row]
      /\ failures' = [failures EXCEPT ![e] = listed]
  BY DEF Finish
<1>2. CASE answer = "success"
  <2>1. status = "sent" /\ listed = NoFailure
    BY <1>2
  <2>2. row \in Event /\ listed \in Failure
    BY <2>1, OutboxAssumption DEF Event, Failure, NoFailure, Terminal
  <2> QED
    BY <1>1, <1>2, <2>1, <2>2 DEF TypeOK, NoFailure, Terminal
<1>3. CASE answer # "success" /\ terminal
  <2>1. status = "dead_lettered" /\ listed = [attempts |-> n, dead |-> TRUE]
    BY <1>3
  <2>2. row \in Event /\ listed \in Failure
    BY <2>1, OutboxAssumption DEF Event, Failure, Terminal
  <2> QED
    BY <1>1, <1>3, <2>1, <2>2 DEF TypeOK, Terminal
<1>4. CASE answer # "success" /\ ~ terminal
  <2>1. status = "pending" /\ listed = [attempts |-> n, dead |-> FALSE]
    BY <1>4
  <2>2. row \in Event /\ listed \in Failure
    BY <2>1, OutboxAssumption DEF Event, Failure, Terminal
  <2> QED
    BY <1>1, <1>4, <2>1, <2>2 DEF TypeOK, Terminal
<1> QED
  BY <1>2, <1>3, <1>4

(* A new event, and one that an operator has reset.                        *)
LEMMA PendingRow ==
  LET row == [NoEvent EXCEPT !.status = "pending"]
  IN  /\ row \in Event
      /\ row.status = "pending" /\ row.attempts = 0 /\ row.lease = None /\ row.due
<1>1. NoEvent \in Event
  BY OutboxAssumption DEF NoEvent, Event
<1>2. [NoEvent EXCEPT !.status = "pending"] \in Event
  BY <1>1 DEF Event
<1>3. NoEvent.attempts = 0 /\ NoEvent.lease = None /\ NoEvent.due
  BY DEF NoEvent
<1> QED
  BY <1>1, <1>2, <1>3 DEF Event

(* A step that changes the rows of one event, and nothing of the workers   *)
(* and receivers, keeps the invariant if the new rows satisfy it.          *)
LEMMA OneEvent ==
  ASSUME IInv, NEW e \in Events,
         events' \in [Events -> Event],
         failures' \in [Events -> Failure], sends' \in [Events -> Nat],
         \A x \in Events \ {e} :
           events'[x] = events[x] /\ failures'[x] = failures[x] /\ sends'[x] = sends[x],
         UNCHANGED <<receipts, jobs, accepted>>, allowed' \subseteq Events,
         sends'[e] <= events'[e].attempts,
         events'[e].status = "sent" => e \in receipts \cup accepted,
         e \in receipts => events'[e].status = "sent",
         failures'[e].dead <=> events'[e].status = "dead_lettered",
         events'[e].lease # None <=> events'[e].status = "sending",
         events'[e].status \in Terminal \cup {"absent"} => events'[e].due
  PROVE  IInv'
<1>1. events'[e].attempts \in 0..MaxAttempts /\ \A x \in Events : sends'[x] \in Nat
  BY DEF Event
<1>2. TypeOK'
  BY DEF IInv, TypeOK
<1>3. BudgetBoundsSends'
  BY <1>1, OutboxAssumption DEF IInv, BudgetBoundsSends
<1>4. SentMeansDelivered' /\ DeadLettersAreListed' /\ LeaseOnlyWhileSending'
  BY DEF IInv, SentMeansDelivered, DeadLettersAreListed, LeaseOnlyWhileSending
<1>5. SuccessWasAccepted' /\ FinishedIsNotWaiting'
  BY DEF IInv, SuccessWasAccepted, FinishedIsNotWaiting
<1> QED
  BY <1>2, <1>3, <1>4, <1>5 DEF IInv

(* At first nothing has happened.                                          *)
LEMMA InvInit == Init => IInv
<1> USE OutboxAssumption DEF Init, NoEvent, NoFailure, Idle, Terminal
<1> SUFFICES ASSUME Init PROVE IInv
  OBVIOUS
<1>1. TypeOK
  BY DEF TypeOK, Event, Failure, Job
<1>2. BudgetBoundsSends /\ SentMeansDelivered /\ DeadLettersAreListed /\ LeaseOnlyWhileSending
  BY DEF BudgetBoundsSends, SentMeansDelivered, DeadLettersAreListed, LeaseOnlyWhileSending
<1>3. SuccessWasAccepted /\ FinishedIsNotWaiting
  BY DEF SuccessWasAccepted, FinishedIsNotWaiting
<1> QED
  BY <1>1, <1>2, <1>3 DEF IInv

(* And every step of a worker, a user or an operator keeps the invariant.  *)
LEMMA InvNext == IInv /\ [Next]_vars => IInv'
<1> SUFFICES ASSUME IInv, [Next]_vars PROVE IInv'
  OBVIOUS
<1> USE OutboxAssumption
<1>0. TypeOK
  BY DEF IInv, TypeOK
<1>1. ASSUME NEW e \in Events, Enqueue(e) PROVE IInv'
  <2>1. /\ events' = [events EXCEPT ![e] = [events[e] EXCEPT !.status = "pending"]]
        /\ events[e] = NoEvent
    BY <1>1 DEF Enqueue
  <2> DEFINE row == [events[e] EXCEPT !.status = "pending"]
  <2>2. row \in Event /\ row.status = "pending" /\ row.attempts = 0 /\ row.lease = None /\ row.due
    BY <2>1, PendingRow
  <2>3. events' = [events EXCEPT ![e] = row]
    BY <2>1
  <2> HIDE DEF row
  <2>4. sends[e] <= 0 /\ ~ failures[e].dead /\ e \notin receipts
    BY <2>1 DEF NoEvent, IInv, BudgetBoundsSends, DeadLettersAreListed, SentMeansDelivered
  <2>5. /\ events' \in [Events -> Event]
        /\ \A x \in Events \ {e} : events'[x] = events[x]
        /\ events'[e] = row
    BY <1>0, <2>2, <2>3 DEF TypeOK
  <2>6. /\ UNCHANGED <<failures, receipts, allowed, jobs, accepted, sends>>
        /\ failures \in [Events -> Failure] /\ sends \in [Events -> Nat] /\ allowed \subseteq Events
    BY <1>0, <1>1 DEF Enqueue, TypeOK
  <2> QED
    BY <2>2, <2>4, <2>5, <2>6, OneEvent DEF Terminal
<1>2. ASSUME NEW e \in Events, Cancel(e) PROVE IInv'
  <2>1. /\ events' \in [Events -> Event]
        /\ \A x \in Events \ {e} : events'[x] = events[x]
        /\ events'[e].status = "cancelled"
        /\ events'[e].attempts = events[e].attempts
        /\ events'[e].lease = None
        /\ events'[e].due = events[e].due
    <3> DEFINE row == [events[e] EXCEPT !.status = "cancelled", !.lease = None]
    <3>1. events[e] \in Event
      BY <1>0 DEF TypeOK
    <3>2. row \in Event /\ row.status = "cancelled" /\ row.attempts = events[e].attempts
          /\ row.lease = None /\ row.due = events[e].due
      BY <3>1 DEF Event, Terminal
    <3>3. events' = [events EXCEPT ![e] = row]
      BY <1>2 DEF Cancel
    <3> HIDE DEF row
    <3> QED
      BY <1>0, <3>2, <3>3 DEF TypeOK
  <2>2. /\ sends[e] <= events[e].attempts
        /\ ~ failures[e].dead
        /\ e \notin receipts
        /\ events[e].due
    BY <1>0, <1>2 DEF Cancel, Deliverable, IInv, BudgetBoundsSends, DeadLettersAreListed,
       SentMeansDelivered
  <2> QED
    BY <1>0, <1>2, <2>1, <2>2, OneEvent DEF Cancel, TypeOK
<1>3. ASSUME NEW e \in Events, Exhaust(e) PROVE IInv'
  <2>1. "terminal" \in Answers /\ events[e].attempts \in 0..MaxAttempts
    BY <1>0 DEF Answers, TypeOK, Event
  <2>2. Finish(e, "terminal", events[e].attempts)
    BY <1>3 DEF Exhaust
  <2> HIDE DEF Finish
  <2>3. /\ events' \in [Events -> Event]
        /\ failures' \in [Events -> Failure]
        /\ \A x \in Events \ {e} : events'[x] = events[x] /\ failures'[x] = failures[x]
        /\ events'[e].attempts = events[e].attempts
        /\ events'[e].lease = None
        /\ events'[e].status \in {"dead_lettered", "pending"}
        /\ events'[e].status \in Terminal => events'[e].due
        /\ failures'[e].dead <=> events'[e].status = "dead_lettered"
    BY <1>0, <2>1, <2>2, FinishWrites
  <2>4. e \notin receipts
    BY <1>3 DEF Exhaust, Deliverable, IInv, SentMeansDelivered
  <2> QED
    BY <1>0, <1>3, <2>3, <2>4 DEF IInv, Exhaust, TypeOK, BudgetBoundsSends, SentMeansDelivered,
       DeadLettersAreListed, LeaseOnlyWhileSending, SuccessWasAccepted, FinishedIsNotWaiting, Terminal
<1>4. ASSUME NEW e \in Events, DeliverLocally(e) PROVE IInv'
  <2>1. "success" \in Answers /\ events[e].attempts + 1 \in 0..MaxAttempts
    BY <1>0, <1>4 DEF DeliverLocally, Ready, Answers, TypeOK, Event
  <2>2. Finish(e, "success", events[e].attempts + 1)
    BY <1>4 DEF DeliverLocally
  <2>3. /\ events' \in [Events -> Event]
        /\ failures' \in [Events -> Failure]
        /\ \A x \in Events \ {e} : events'[x] = events[x] /\ failures'[x] = failures[x]
        /\ events'[e].attempts = events[e].attempts + 1
        /\ events'[e].lease = None
        /\ events'[e].status = "sent"
        /\ events'[e].due
        /\ ~ failures'[e].dead
    BY <1>0, <2>1, <2>2, FinishWrites DEF Terminal, TypeOK, Failure
  <2>4. sends[e] <= events[e].attempts /\ events[e].attempts \in Nat /\ sends[e] \in Nat
    BY <1>0 DEF IInv, BudgetBoundsSends, TypeOK, Event
  <2> QED
    BY <1>0, <1>4, <2>3, <2>4 DEF IInv, DeliverLocally, TypeOK, BudgetBoundsSends, SentMeansDelivered,
       DeadLettersAreListed, LeaseOnlyWhileSending, SuccessWasAccepted, FinishedIsNotWaiting, Terminal
<1>5. ASSUME NEW e \in Events, NEW w \in Workers, Lease(w, e) PROVE IInv'
  <2>1. /\ events[e].attempts + 1 \in 0..MaxAttempts
        /\ sends[e] \in Nat /\ sends[e] <= events[e].attempts
        /\ events[e].status \in {"pending", "sending"}
        /\ w # None
    BY <1>0, <1>5 DEF Lease, Ready, Deliverable, IInv, BudgetBoundsSends, TypeOK, Event
  <2>2. TypeOK'
    BY <1>0, <1>5, <2>1 DEF Lease, AttemptSpent, TypeOK, Event, Job, Answers
  <2>3. BudgetBoundsSends'
    <3>1. /\ events'[e].attempts = events[e].attempts + 1
          /\ sends'[e] = sends[e] + 1
          /\ \A x \in Events \ {e} : events'[x] = events[x] /\ sends'[x] = sends[x]
      BY <1>0, <1>5 DEF Lease, AttemptSpent, TypeOK
    <3>2. events[e].attempts \in Nat
      BY <1>0 DEF TypeOK, Event
    <3> QED
      BY <2>1, <3>1, <3>2 DEF IInv, BudgetBoundsSends
  <2>4. SentMeansDelivered' /\ DeadLettersAreListed' /\ LeaseOnlyWhileSending'
    BY <1>0, <1>5, <2>1 DEF IInv, Lease, TypeOK, SentMeansDelivered, DeadLettersAreListed,
       LeaseOnlyWhileSending
  <2>5. SuccessWasAccepted' /\ FinishedIsNotWaiting'
    BY <1>0, <1>5, <2>1 DEF IInv, Lease, TypeOK, SuccessWasAccepted, FinishedIsNotWaiting, Terminal
  <2> QED
    BY <2>2, <2>3, <2>4, <2>5 DEF IInv
<1>6. ASSUME NEW e \in Events, FallDue(e) PROVE IInv'
  <2>1. /\ events' \in [Events -> Event]
        /\ \A x \in Events \ {e} : events'[x] = events[x]
        /\ events'[e].status = events[e].status
        /\ events'[e].attempts = events[e].attempts
        /\ events'[e].lease = events[e].lease
        /\ events'[e].due
    <3> DEFINE row == [events[e] EXCEPT !.due = TRUE]
    <3>1. events[e] \in Event
      BY <1>0 DEF TypeOK
    <3>2. row \in Event /\ row.status = events[e].status /\ row.attempts = events[e].attempts
          /\ row.lease = events[e].lease /\ row.due
      BY <3>1 DEF Event
    <3>3. events' = [events EXCEPT ![e] = row]
      BY <1>6 DEF FallDue
    <3> HIDE DEF row
    <3> QED
      BY <1>0, <3>2, <3>3 DEF TypeOK
  <2>2. /\ sends[e] <= events[e].attempts
        /\ failures[e].dead <=> events[e].status = "dead_lettered"
        /\ events[e].lease # None <=> events[e].status = "sending"
        /\ events[e].status = "sent" => e \in receipts \cup accepted
        /\ e \in receipts => events[e].status = "sent"
    BY DEF IInv, BudgetBoundsSends, DeadLettersAreListed, LeaseOnlyWhileSending, SentMeansDelivered
  <2>3. /\ UNCHANGED <<failures, receipts, allowed, jobs, accepted, sends>>
        /\ failures \in [Events -> Failure] /\ sends \in [Events -> Nat] /\ allowed \subseteq Events
    BY <1>0, <1>6 DEF FallDue, TypeOK
  <2> QED
    BY <2>1, <2>2, <2>3, OneEvent
<1>7. ASSUME NEW e \in Events, ChangePreference(e) PROVE IInv'
  BY <1>7, <1>0 DEF IInv, ChangePreference, TypeOK, BudgetBoundsSends, SentMeansDelivered,
     DeadLettersAreListed, LeaseOnlyWhileSending, SuccessWasAccepted, FinishedIsNotWaiting
<1>8. ASSUME NEW e \in Events, Retry(e) PROVE IInv'
  <2> DEFINE row == [NoEvent EXCEPT !.status = "pending"]
  <2>1. row \in Event /\ row.status = "pending" /\ row.attempts = 0 /\ row.lease = None /\ row.due
    BY PendingRow
  <2>2. events' = [events EXCEPT ![e] = row]
    BY <1>8 DEF Retry
  <2> HIDE DEF row
  <2>3. /\ events' \in [Events -> Event]
        /\ \A x \in Events \ {e} : events'[x] = events[x]
        /\ events'[e] = row
    BY <1>0, <2>1, <2>2 DEF TypeOK
  <2>4. NoFailure \in Failure /\ ~ NoFailure.dead
    BY DEF NoFailure, Failure
  <2>5. /\ failures' \in [Events -> Failure] /\ ~ failures'[e].dead
        /\ sends' \in [Events -> Nat] /\ sends'[e] = 0
        /\ \A x \in Events \ {e} : failures'[x] = failures[x] /\ sends'[x] = sends[x]
        /\ UNCHANGED <<receipts, allowed, jobs, accepted>>
        /\ e \notin receipts /\ allowed \subseteq Events
    BY <1>0, <1>8, <2>4 DEF Retry, TypeOK
  <2> QED
    BY <2>1, <2>3, <2>5, OneEvent DEF Terminal
<1>9. ASSUME NEW w \in Workers, Send(w) PROVE IInv'
  <2>1. PICK answer \in Answers :
          /\ jobs' = [jobs EXCEPT ![w].at = "answered", ![w].answer = answer]
          /\ \/ accepted' = accepted \cup {jobs[w].event}
             \/ answer # "success" /\ UNCHANGED accepted
    BY <1>9 DEF Send
  <2>2. jobs[w].event \in Events \ LocalEvents /\ jobs[w].at = "sending"
    BY <1>0, <1>9 DEF Send, TypeOK, Job, Idle
  <2>3. TypeOK'
    <3>1. jobs[w] \in [at: {"sending", "answered"}, event: Events \ LocalEvents, answer: Answers]
      BY <1>0, <2>2 DEF TypeOK, Job, Idle
    <3>2. [jobs[w] EXCEPT !.at = "answered", !.answer = answer] \in Job
      BY <3>1 DEF Job
    <3>3. jobs' \in [Workers -> Job]
      BY <1>0, <2>1, <3>1, <3>2 DEF TypeOK
    <3> QED
      BY <1>0, <1>9, <2>1, <2>2, <3>3 DEF Send, TypeOK
  <2>4. SuccessWasAccepted'
    BY <1>0, <1>9, <2>1, <2>2 DEF IInv, Send, TypeOK, SuccessWasAccepted
  <2> QED
    BY <1>0, <1>9, <2>1, <2>3, <2>4 DEF IInv, Send, BudgetBoundsSends, SentMeansDelivered,
       DeadLettersAreListed, LeaseOnlyWhileSending, FinishedIsNotWaiting
<1>10. ASSUME NEW w \in Workers, Record(w) PROVE IInv'
  <2> DEFINE e == jobs[w].event
  <2>1. /\ jobs[w].at = "answered"
        /\ jobs' = [jobs EXCEPT ![w] = Idle]
        /\ UNCHANGED <<receipts, allowed, accepted, sends>>
        /\ w # None
    BY <1>10 DEF Record
  <2>2. e \in Events /\ e \notin LocalEvents /\ jobs[w].answer \in Answers
    BY <1>0, <2>1 DEF TypeOK, Job, Idle
  <2>3. SuccessWasAccepted'
    BY <1>0, <2>1 DEF IInv, TypeOK, SuccessWasAccepted, Idle
  <2>4. jobs' \in [Workers -> Job]
    BY <1>0, <2>1 DEF TypeOK, Job
  <2>5. CASE LeaseHeld(w)
    <3>1. /\ events[e].status = "sending"
          /\ events[e].attempts \in 0..MaxAttempts
          /\ e \notin receipts
      BY <1>0, <2>1, <2>2, <2>5 DEF LeaseHeld, IInv, LeaseOnlyWhileSending, SentMeansDelivered,
         TypeOK, Event
    <3>2. Finish(e, jobs[w].answer, events[e].attempts)
      BY <1>10, <2>5 DEF Record
    <3>3. jobs[w].answer = "success" => e \in accepted
      BY <2>1 DEF IInv, SuccessWasAccepted
    <3>4. /\ events' \in [Events -> Event]
          /\ failures' \in [Events -> Failure]
          /\ \A x \in Events \ {e} : events'[x] = events[x] /\ failures'[x] = failures[x]
          /\ events'[e].attempts = events[e].attempts
          /\ events'[e].lease = None
          /\ events'[e].status \in {"sent", "dead_lettered", "pending"}
          /\ events'[e].status = "sent" <=> jobs[w].answer = "success"
          /\ events'[e].status \in Terminal => events'[e].due
          /\ failures'[e].dead <=> events'[e].status = "dead_lettered"
      BY <1>0, <2>2, <3>1, <3>2, FinishWrites
    <3> HIDE DEF e
    <3> QED
      BY <1>0, <2>1, <2>2, <2>3, <2>4, <3>1, <3>3, <3>4 DEF IInv, TypeOK, BudgetBoundsSends,
         SentMeansDelivered, DeadLettersAreListed, LeaseOnlyWhileSending, FinishedIsNotWaiting, Terminal
  <2>6. CASE ~ LeaseHeld(w)
    <3>1. UNCHANGED <<events, failures>>
      BY <1>10, <2>6 DEF Record
    <3> QED
      BY <1>0, <2>1, <2>3, <2>4, <3>1 DEF IInv, TypeOK, BudgetBoundsSends,
         SentMeansDelivered, DeadLettersAreListed, LeaseOnlyWhileSending, FinishedIsNotWaiting
  <2> QED
    BY <2>5, <2>6
<1>11. ASSUME NEW w \in Workers, Crash(w) PROVE IInv'
  BY <1>11, <1>0 DEF IInv, Crash, Idle, TypeOK, Job, BudgetBoundsSends, SentMeansDelivered,
     DeadLettersAreListed, LeaseOnlyWhileSending, SuccessWasAccepted, FinishedIsNotWaiting
<1>12. ASSUME UNCHANGED vars PROVE IInv'
  BY <1>12 DEF IInv, vars, TypeOK, BudgetBoundsSends, SentMeansDelivered, DeadLettersAreListed,
     LeaseOnlyWhileSending, SuccessWasAccepted, FinishedIsNotWaiting
<1> QED
  BY <1>1, <1>2, <1>3, <1>4, <1>5, <1>6, <1>7, <1>8, <1>9, <1>10, <1>11, <1>12 DEF Next, Deliver

(* The invariant holds in every reachable state.                           *)
THEOREM OutboxInvariant == Spec => []IInv
<1>1. Init => IInv
  BY InvInit
<1>2. IInv /\ [Next]_vars => IInv'
  BY InvNext
<1> QED
  BY <1>1, <1>2, PTL DEF Spec

(* Type correctness, for any number of events, workers and attempts.       *)
THEOREM TypeCorrect == Spec => []TypeOK
<1>1. IInv => TypeOK
  BY DEF IInv
<1> QED
  BY <1>1, OutboxInvariant, PTL

(* No more than MAX_ATTEMPTS sends begin before an operator's reset, each  *)
(* paid for beforehand.                                                    *)
THEOREM BudgetAlwaysBoundsSends == Spec => []BudgetBoundsSends
<1>1. IInv => BudgetBoundsSends
  BY DEF IInv
<1> QED
  BY <1>1, OutboxInvariant, PTL

(* What is recorded as sent has been delivered.                            *)
THEOREM SentAlwaysMeansDelivered == Spec => []SentMeansDelivered
<1>1. IInv => SentMeansDelivered
  BY DEF IInv
<1> QED
  BY <1>1, OutboxInvariant, PTL

(* The dead letters in job_failures are the dead events.                   *)
THEOREM DeadLettersAlwaysListed == Spec => []DeadLettersAreListed
<1>1. IInv => DeadLettersAreListed
  BY DEF IInv
<1> QED
  BY <1>1, OutboxInvariant, PTL

(* Only events that are being sent carry a lease.                          *)
THEOREM LeaseAlwaysWhileSending == Spec => []LeaseOnlyWhileSending
<1>1. IInv => LeaseOnlyWhileSending
  BY DEF IInv
<1> QED
  BY <1>1, OutboxInvariant, PTL

-----------------------------------------------------------------------------

FinishedStep ==
  \A e \in Events :
    events[e].status \in Terminal /\ events'[e] # events[e] =>
      events[e].status = "dead_lettered" /\ events'[e] = [NoEvent EXCEPT !.status = "pending"]

(* A finished event is left alone by every step but a reset.               *)
LEMMA StepKeepsFinished == IInv /\ [Next]_vars => FinishedStep
<1> SUFFICES ASSUME IInv, [Next]_vars,
                    NEW x \in Events, events[x].status \in Terminal, events'[x] # events[x]
             PROVE  events[x].status = "dead_lettered"
                    /\ events'[x] = [NoEvent EXCEPT !.status = "pending"]
  BY DEF FinishedStep
<1> USE OutboxAssumption
<1>0. TypeOK /\ LeaseOnlyWhileSending /\ events[x].due /\ events \in [Events -> Event]
  BY DEF IInv, FinishedIsNotWaiting, TypeOK
<1>1. ASSUME NEW e \in Events, Enqueue(e) \/ Cancel(e) \/ FallDue(e) PROVE FALSE
  BY <1>0, <1>1 DEF Enqueue, Cancel, FallDue, Deliverable, NoEvent, Terminal
<1>2. ASSUME NEW e \in Events, Exhaust(e) \/ DeliverLocally(e) PROVE FALSE
  BY <1>0, <1>2 DEF Exhaust, DeliverLocally, Ready, Deliverable, Finish, Terminal
<1>3. ASSUME NEW e \in Events, NEW w \in Workers, Lease(w, e) PROVE FALSE
  BY <1>0, <1>3 DEF Lease, Ready, Deliverable, Terminal
<1>4. ASSUME NEW w \in Workers, Record(w) PROVE FALSE
  <2>1. CASE LeaseHeld(w)
    <3>1. jobs[w].event \in Events /\ w # None
      BY <1>0, <1>4 DEF Record, TypeOK, Job, Idle
    <3>2. events[jobs[w].event].status = "sending"
      BY <1>0, <2>1, <3>1 DEF LeaseHeld, LeaseOnlyWhileSending
    <3> QED
      BY <1>0, <1>4, <2>1, <3>1, <3>2 DEF Record, Finish, Terminal
  <2>2. CASE ~ LeaseHeld(w)
    BY <1>4, <2>2 DEF Record
  <2> QED
    BY <2>1, <2>2
<1>5. ASSUME NEW e \in Events, Retry(e)
      PROVE  events[x].status = "dead_lettered" /\ events'[x] = [NoEvent EXCEPT !.status = "pending"]
  BY <1>0, <1>5 DEF Retry
<1>6. ASSUME NEW e \in Events, ChangePreference(e) PROVE FALSE
  BY <1>6 DEF ChangePreference
<1>7. ASSUME NEW w \in Workers, Send(w) \/ Crash(w) PROVE FALSE
  BY <1>7 DEF Send, Crash
<1>8. ASSUME UNCHANGED vars PROVE FALSE
  BY <1>8 DEF vars
<1> QED
  BY <1>1, <1>2, <1>3, <1>4, <1>5, <1>6, <1>7, <1>8 DEF Next, Deliver

(* Nothing but an operator's retry of a dead letter changes a finished     *)
(* event.                                                                  *)
THEOREM FinishedAlwaysStaysFinished == Spec => FinishedStaysFinished
<1>1. IInv /\ [Next]_vars => [FinishedStep]_vars
  BY StepKeepsFinished
<1> QED
  BY <1>1, OutboxInvariant, PTL DEF Spec, FinishedStaysFinished, FinishedStep

-----------------------------------------------------------------------------
(***************************************************************************)
(* The outbox implements BoundedDelivery.                                  *)
(***************************************************************************)

(* Local events are never on their way, and what waits has an attempt left. *)
WaitingInv ==
  \A e \in Events :
    /\ events[e].status = "sending" => e \notin LocalEvents
    /\ events[e].status = "pending" => events[e].attempts < MaxAttempts

(* What is seen of the events, as one function.                            *)
Seen     == [e \in Events |-> Progress(e)]
SeenVars == <<Seen, OnTheirWay, receipts \cup accepted>>

(* _finish lets an event wait only for an attempt that it has left.        *)
LEMMA FinishLeavesBudget ==
  ASSUME TypeOK, NEW e \in Events, NEW answer \in Answers, NEW n \in 0..MaxAttempts,
         Finish(e, answer, n), events'[e].status = "pending"
  PROVE  n < MaxAttempts
<1> SUFFICES ASSUME n >= MaxAttempts PROVE FALSE
  BY OutboxAssumption
<1>1. CASE answer = "success"
  BY <1>1 DEF Finish, TypeOK
<1>2. CASE answer # "success"
  BY <1>2 DEF Finish, TypeOK
<1> QED
  BY <1>1, <1>2

(* A step that changes the row of one event is seen as a change of that    *)
(* event.                                                                  *)
LEMMA OneIsSeen ==
  ASSUME NEW e \in Events, \A x \in Events \ {e} : events'[x] = events[x]
  PROVE  /\ Seen[e].state = events[e].status /\ Seen[e].attempts = events[e].attempts
         /\ Seen' = [Seen EXCEPT ![e] = [state |-> events'[e].status, attempts |-> events'[e].attempts]]
         /\ events'[e].attempts = events[e].attempts =>
              Seen' = [Seen EXCEPT ![e].state = events'[e].status]
<1>1. Progress(e)' = [state |-> events'[e].status, attempts |-> events'[e].attempts]
  BY DEF Progress
<1>2. \A x \in Events \ {e} : Progress(x)' = Progress(x)
  BY DEF Progress
<1>3. Seen' = [x \in Events |-> Progress(x)']
  BY DEF Seen
<1>4. Progress(e) = [state |-> events[e].status, attempts |-> events[e].attempts]
  BY DEF Progress
<1>5. Seen' = [Seen EXCEPT ![e] = [state |-> events'[e].status, attempts |-> events'[e].attempts]]
  <2>1. \A x \in Events :
          Progress(x)' = IF x = e THEN [state |-> events'[e].status, attempts |-> events'[e].attempts]
                                  ELSE Progress(x)
    BY <1>1, <1>2
  <2> QED
    BY <1>3, <2>1 DEF Seen
<1>6. [Progress(e) EXCEPT !.state = events'[e].status]
        = [state |-> events'[e].status, attempts |-> events[e].attempts]
  BY <1>4
<1>7. Seen[e] = Progress(e) /\ Seen[e].state = events[e].status
      /\ Seen[e].attempts = events[e].attempts
  BY <1>4 DEF Seen
<1>8. ASSUME events'[e].attempts = events[e].attempts
      PROVE  Seen' = [Seen EXCEPT ![e].state = events'[e].status]
  <2>1. Seen' = [Seen EXCEPT ![e] = [Seen[e] EXCEPT !.state = events'[e].status]]
    BY <1>5, <1>6, <1>7, <1>8
  <2> QED
    BY <2>1
<1> QED
  BY <1>5, <1>7, <1>8

(* The same for a step that leaves messages and receivers alone.           *)
LEMMA MoveIsSeen ==
  ASSUME NEW e \in Events, \A x \in Events \ {e} : events'[x] = events[x],
         events'[e].attempts = events[e].attempts,
         NEW from, NEW to, events[e].status \in from, events'[e].status = to,
         UNCHANGED OnTheirWay, UNCHANGED <<receipts, accepted>>
  PROVE  Outbox!Becomes(e, from, to)
<1>1. Seen[e].state \in from /\ Seen' = [Seen EXCEPT ![e].state = to]
  BY OneIsSeen
<1>2. UNCHANGED <<OnTheirWay, receipts \cup accepted>>
  OBVIOUS
<1> QED
  BY <1>1, <1>2 DEF Outbox!Becomes, Seen

(* A row of the abstract specification's budget.                           *)
LEMMA BudgetIsSeen ==
  ASSUME NEW e \in Events
  PROVE  Outbox!HasBudget(e) <=> events[e].attempts < MaxAttempts
BY DEF Outbox!HasBudget, Progress

(* A worker that stops sending takes no message off the way but its own.   *)
LEMMA WayAfterStop ==
  ASSUME TypeOK, NEW w \in Workers, NEW done, done.at # "sending",
         jobs' = [jobs EXCEPT ![w] = done]
  PROVE  /\ jobs[w].at # "sending" => OnTheirWay' = OnTheirWay
         /\ jobs[w].at = "sending" =>
              /\ jobs[w].event \in OnTheirWay
              /\ OnTheirWay' \in {OnTheirWay, OnTheirWay \ {jobs[w].event}}
<1>1. /\ jobs'[w] = done
      /\ \A v \in Workers \ {w} : jobs'[v] = jobs[v]
  BY DEF TypeOK
<1>2. OnTheirWay' = {jobs[v].event : v \in {u \in Workers \ {w} : jobs[u].at = "sending"}}
  <2>1. OnTheirWay' = {jobs'[v].event : v \in {u \in Workers : jobs'[u].at = "sending"}}
    BY DEF OnTheirWay
  <2>2. {u \in Workers : jobs'[u].at = "sending"} = {u \in Workers \ {w} : jobs[u].at = "sending"}
    BY <1>1
  <2> QED
    BY <1>1, <2>1, <2>2
<1>3. CASE jobs[w].at # "sending"
  <2>1. {u \in Workers \ {w} : jobs[u].at = "sending"} = {u \in Workers : jobs[u].at = "sending"}
    BY <1>3
  <2> QED
    BY <1>2, <1>3, <2>1 DEF OnTheirWay
<1>4. CASE jobs[w].at = "sending"
  <2> DEFINE others == {jobs[v].event : v \in {u \in Workers \ {w} : jobs[u].at = "sending"}}
  <2>1. OnTheirWay = others \cup {jobs[w].event}
    BY <1>4 DEF OnTheirWay
  <2>2. OnTheirWay' = others
    BY <1>2
  <2> HIDE DEF others
  <2> QED
    BY <1>4, <2>1, <2>2
<1> QED
  BY <1>3, <1>4

(* No step gives up a message's budget or puts a local event on its way.   *)
LEMMA WaitingKeeps == IInv /\ WaitingInv /\ [Next]_vars => WaitingInv'
<1> SUFFICES ASSUME IInv, WaitingInv, [Next]_vars PROVE WaitingInv'
  OBVIOUS
<1> USE OutboxAssumption
<1>0. TypeOK
  BY DEF IInv
<1>1. ASSUME NEW e \in Events, \A x \in Events \ {e} : events'[x] = events[x],
             events'[e].status = "sending" => e \notin LocalEvents,
             events'[e].status = "pending" => events'[e].attempts < MaxAttempts
      PROVE  WaitingInv'
  BY <1>1 DEF WaitingInv
<1>2. ASSUME NEW e \in Events, NEW answer \in Answers, NEW n \in 0..MaxAttempts, Finish(e, answer, n)
      PROVE  WaitingInv'
  <2>1. /\ \A x \in Events \ {e} : events'[x] = events[x]
        /\ events'[e].attempts = n
        /\ events'[e].status \in {"sent", "dead_lettered", "pending"}
    BY <1>0, <1>2, FinishWrites
  <2>2. events'[e].status = "pending" => n < MaxAttempts
    BY <1>0, <1>2, FinishLeavesBudget
  <2> HIDE DEF Finish
  <2> QED
    BY <1>1, <2>1, <2>2
<1>3. ASSUME NEW e \in Events, Enqueue(e) PROVE WaitingInv'
  <2>1. /\ \A x \in Events \ {e} : events'[x] = events[x]
        /\ events'[e].status = "pending" /\ events'[e].attempts = 0
    BY <1>0, <1>3 DEF Enqueue, TypeOK, NoEvent, Event
  <2> QED
    BY <1>1, <2>1
<1>4. ASSUME NEW e \in Events, Cancel(e) PROVE WaitingInv'
  <2>1. /\ \A x \in Events \ {e} : events'[x] = events[x]
        /\ events'[e].status = "cancelled"
    BY <1>0, <1>4 DEF Cancel, TypeOK, Event
  <2> QED
    BY <1>1, <2>1
<1>5. ASSUME NEW e \in Events, Exhaust(e) PROVE WaitingInv'
  <2>1. "terminal" \in Answers /\ events[e].attempts \in 0..MaxAttempts
    BY <1>0 DEF Answers, TypeOK, Event
  <2> QED
    BY <1>2, <1>5, <2>1 DEF Exhaust
<1>6. ASSUME NEW e \in Events, DeliverLocally(e) PROVE WaitingInv'
  <2>1. "success" \in Answers /\ events[e].attempts + 1 \in 0..MaxAttempts
    BY <1>0, <1>6 DEF DeliverLocally, Ready, Answers, TypeOK, Event
  <2> QED
    BY <1>2, <1>6, <2>1 DEF DeliverLocally
<1>7. ASSUME NEW e \in Events, NEW w \in Workers, Lease(w, e) PROVE WaitingInv'
  <2>1. /\ \A x \in Events \ {e} : events'[x] = events[x]
        /\ events'[e].status = "sending" /\ e \notin LocalEvents
    BY <1>0, <1>7 DEF Lease, TypeOK
  <2> QED
    BY <1>1, <2>1
<1>8. ASSUME NEW e \in Events, FallDue(e) PROVE WaitingInv'
  <2>1. /\ \A x \in Events \ {e} : events'[x] = events[x]
        /\ events'[e].status = events[e].status /\ events'[e].attempts = events[e].attempts
    BY <1>0, <1>8 DEF FallDue, TypeOK, Event
  <2> QED
    BY <1>1, <2>1 DEF WaitingInv
<1>9. ASSUME NEW e \in Events, Retry(e) PROVE WaitingInv'
  <2>1. /\ \A x \in Events \ {e} : events'[x] = events[x]
        /\ events'[e].status = "pending" /\ events'[e].attempts = 0
    BY <1>0, <1>9, PendingRow DEF Retry, TypeOK
  <2> QED
    BY <1>1, <2>1
<1>10. ASSUME UNCHANGED events PROVE WaitingInv'
  BY <1>10 DEF WaitingInv
<1>11. ASSUME NEW w \in Workers, Record(w) PROVE WaitingInv'
  <2>1. jobs[w].event \in Events /\ jobs[w].answer \in Answers
    BY <1>0, <1>11 DEF Record, TypeOK, Job, Idle
  <2>2. events[jobs[w].event].attempts \in 0..MaxAttempts
    BY <1>0, <2>1 DEF TypeOK, Event
  <2> QED
    BY <1>2, <1>10, <1>11, <2>1, <2>2 DEF Record
<1>12. ASSUME NEW e \in Events, ChangePreference(e) PROVE WaitingInv'
  BY <1>10, <1>12 DEF ChangePreference
<1>13. ASSUME NEW w \in Workers, Send(w) \/ Crash(w) PROVE WaitingInv'
  BY <1>10, <1>13 DEF Send, Crash
<1>14. ASSUME UNCHANGED vars PROVE WaitingInv'
  BY <1>10, <1>14 DEF vars
<1> QED
  BY <1>3, <1>4, <1>5, <1>6, <1>7, <1>8, <1>9, <1>11, <1>12, <1>13, <1>14 DEF Next, Deliver

(* An answer that counts settles the event: it is sent because its receiver *)
(* has it, dead, or waits for an attempt it has left.                      *)
LEMMA AnswerIsSeen ==
  ASSUME IInv, NEW e \in Events, NEW answer \in Answers, Finish(e, answer, events[e].attempts),
         events[e].status = "sending", answer = "success" => e \in receipts \cup accepted,
         UNCHANGED OnTheirWay, UNCHANGED <<receipts, accepted>>
  PROVE  Outbox!Confirm(e) \/ Outbox!TryLater(e) \/ Outbox!GiveUp(e)
<1>1. TypeOK /\ events[e].attempts \in 0..MaxAttempts
  BY DEF IInv, TypeOK, Event
<1>2. /\ \A x \in Events \ {e} : events'[x] = events[x]
      /\ events'[e].attempts = events[e].attempts
      /\ events'[e].status \in {"sent", "dead_lettered", "pending"}
      /\ events'[e].status = "sent" <=> answer = "success"
  BY <1>1, FinishWrites
<1>3. events'[e].status = "pending" => events[e].attempts < MaxAttempts
  BY <1>1, FinishLeavesBudget
<1> HIDE DEF Finish
<1>4. Outbox!Becomes(e, {"sending"}, events'[e].status)
  BY <1>2, MoveIsSeen
<1> QED
  BY <1>2, <1>3, <1>4, BudgetIsSeen DEF Outbox!Confirm, Outbox!TryLater, Outbox!GiveUp

(* Every step is seen as one of BoundedDelivery, or not at all.            *)
LEMMA StepIsSeen == IInv /\ WaitingInv /\ [Next]_vars => [Outbox!Next]_SeenVars
<1> SUFFICES ASSUME IInv, WaitingInv, [Next]_vars PROVE Outbox!Next \/ UNCHANGED SeenVars
  OBVIOUS
<1> USE OutboxAssumption
<1>0. TypeOK
  BY DEF IInv
<1>1. ASSUME UNCHANGED events, UNCHANGED OnTheirWay, UNCHANGED <<receipts, accepted>>
      PROVE  UNCHANGED SeenVars
  BY <1>1 DEF SeenVars, Seen, Progress
<1>2. ASSUME UNCHANGED jobs PROVE UNCHANGED OnTheirWay
  BY <1>2 DEF OnTheirWay
<1>3. ASSUME NEW e \in Events, Enqueue(e) PROVE Outbox!Next
  <2>1. /\ \A x \in Events \ {e} : events'[x] = events[x]
        /\ events[e].status = "absent" /\ events'[e].status = "pending"
        /\ events'[e].attempts = events[e].attempts
        /\ UNCHANGED OnTheirWay /\ UNCHANGED <<receipts, accepted>>
    BY <1>0, <1>2, <1>3 DEF Enqueue, TypeOK, NoEvent, Event
  <2>2. Outbox!Promise(e)
    BY <2>1, MoveIsSeen DEF Outbox!Promise
  <2> QED
    BY <2>2 DEF Outbox!Next
<1>4. ASSUME NEW e \in Events, Cancel(e) PROVE Outbox!Next
  <2>1. /\ \A x \in Events \ {e} : events'[x] = events[x]
        /\ events[e].status \in {"pending", "sending"} /\ events'[e].status = "cancelled"
        /\ events'[e].attempts = events[e].attempts
        /\ UNCHANGED OnTheirWay /\ UNCHANGED <<receipts, accepted>>
    BY <1>0, <1>2, <1>4 DEF Cancel, Deliverable, TypeOK, Event
  <2>2. Outbox!Withdraw(e)
    BY <2>1, MoveIsSeen DEF Outbox!Withdraw
  <2> QED
    BY <2>2 DEF Outbox!Next
<1>5. ASSUME NEW e \in Events, Exhaust(e) PROVE Outbox!Next
  <2>1. /\ events[e].status = "sending" /\ "terminal" \in Answers
        /\ Finish(e, "terminal", events[e].attempts)
        /\ UNCHANGED OnTheirWay /\ UNCHANGED <<receipts, accepted>>
    <3>1. events[e].attempts >= MaxAttempts /\ events[e].attempts \in Nat
      BY <1>0, <1>5 DEF Exhaust, TypeOK, Event
    <3>2. events[e].status # "pending"
      BY <3>1 DEF WaitingInv
    <3> QED
      BY <1>2, <1>5, <3>2 DEF Exhaust, Deliverable, Answers
  <2>2. Outbox!Confirm(e) \/ Outbox!TryLater(e) \/ Outbox!GiveUp(e)
    BY <2>1, AnswerIsSeen
  <2> QED
    BY <2>2 DEF Outbox!Next
<1>6. ASSUME NEW e \in Events, DeliverLocally(e) PROVE Outbox!Next
  <2>1. "success" \in Answers /\ events[e].attempts + 1 \in 0..MaxAttempts
    BY <1>0, <1>6 DEF DeliverLocally, Ready, Answers, TypeOK, Event
  <2>2. /\ \A x \in Events \ {e} : events'[x] = events[x]
        /\ events'[e].attempts = events[e].attempts + 1
        /\ events'[e].status = "sent"
    BY <1>0, <1>6, <2>1, FinishWrites DEF DeliverLocally
  <2>3. /\ e \in LocalEvents /\ events[e].attempts < MaxAttempts
        /\ events[e].status \in {"pending", "sending"}
        /\ receipts' = receipts \cup {e} /\ UNCHANGED <<jobs, accepted>>
    BY <1>6 DEF DeliverLocally, Ready, Deliverable
  <2>4. events[e].status = "pending"
    BY <2>3 DEF WaitingInv
  <2>5. /\ Seen' = [Seen EXCEPT ![e] = [state |-> "sent", attempts |-> events[e].attempts + 1]]
        /\ Seen[e].state = "pending" /\ Seen[e].attempts = events[e].attempts
    BY <2>2, <2>4, OneIsSeen
  <2>6. Outbox!Attempt(e, {"pending"}, "sent")
    BY <2>3, <2>5, BudgetIsSeen DEF Outbox!Attempt, Seen
  <2>7. /\ UNCHANGED OnTheirWay
        /\ (receipts \cup accepted)' = (receipts \cup accepted) \cup {e}
    BY <1>2, <2>3
  <2> QED
    BY <2>3, <2>6, <2>7 DEF Outbox!Next, Outbox!HandOver
<1>7. ASSUME NEW e \in Events, NEW w \in Workers, Lease(w, e) PROVE Outbox!Next
  <2>1. /\ e \notin LocalEvents /\ events[e].attempts < MaxAttempts
        /\ events[e].status \in {"pending", "sending"}
        /\ UNCHANGED <<receipts, accepted>>
    BY <1>7 DEF Lease, Ready, Deliverable
  <2>2. /\ \A x \in Events \ {e} : events'[x] = events[x]
        /\ events'[e].status = "sending" /\ events'[e].attempts = events[e].attempts + 1
    BY <1>0, <1>7 DEF Lease, AttemptSpent, TypeOK
  <2>3. /\ Seen' = [Seen EXCEPT ![e] = [state |-> "sending", attempts |-> events[e].attempts + 1]]
        /\ Seen[e].state = events[e].status /\ Seen[e].attempts = events[e].attempts
    BY <2>2, OneIsSeen
  <2>4. Outbox!Attempt(e, {"pending", "sending"}, "sending")
    BY <2>1, <2>3, BudgetIsSeen DEF Outbox!Attempt, Seen
  <2>5. OnTheirWay' = OnTheirWay \cup {e}
    <3>1. /\ jobs'[w].at = "sending" /\ jobs'[w].event = e /\ jobs[w].at # "sending"
          /\ \A v \in Workers \ {w} : jobs'[v] = jobs[v]
      BY <1>0, <1>7 DEF Lease, TypeOK, Idle
    <3>2. {u \in Workers : jobs'[u].at = "sending"} = {u \in Workers : jobs[u].at = "sending"} \cup {w}
      BY <3>1
    <3>3. OnTheirWay' = {jobs'[v].event : v \in {u \in Workers : jobs'[u].at = "sending"}}
      BY DEF OnTheirWay
    <3> QED
      BY <3>1, <3>2, <3>3 DEF OnTheirWay
  <2>6. UNCHANGED (receipts \cup accepted)
    BY <2>1
  <2> QED
    BY <2>1, <2>4, <2>5, <2>6 DEF Outbox!Next, Outbox!Send
<1>8. ASSUME NEW e \in Events, FallDue(e) PROVE UNCHANGED SeenVars
  <2>1. \A x \in Events : events'[x].status = events[x].status /\ events'[x].attempts = events[x].attempts
    BY <1>0, <1>8 DEF FallDue, TypeOK, Event
  <2>2. Seen' = Seen
    <3>1. \A x \in Events : Progress(x)' = Progress(x)
      BY <2>1 DEF Progress
    <3> QED
      BY <3>1 DEF Seen
  <2> QED
    BY <1>2, <1>8, <2>2 DEF FallDue, SeenVars
<1>9. ASSUME NEW e \in Events, Retry(e) PROVE Outbox!Next
  <2>1. /\ \A x \in Events \ {e} : events'[x] = events[x]
        /\ events[e].status = "dead_lettered"
        /\ events'[e].status = "pending" /\ events'[e].attempts = 0
        /\ UNCHANGED OnTheirWay /\ UNCHANGED <<receipts, accepted>>
    BY <1>0, <1>2, <1>9, PendingRow DEF Retry, TypeOK
  <2>2. /\ Seen' = [Seen EXCEPT ![e] = [state |-> "pending", attempts |-> 0]]
        /\ Seen[e].state = "dead_lettered"
    BY <2>1, OneIsSeen
  <2>3. UNCHANGED (receipts \cup accepted)
    BY <2>1
  <2>4. Outbox!Reset(e)
    BY <2>1, <2>2, <2>3 DEF Outbox!Reset, Seen
  <2> QED
    BY <2>4 DEF Outbox!Next
<1>10. ASSUME NEW w \in Workers, Record(w) PROVE Outbox!Next \/ UNCHANGED SeenVars
  <2>1. /\ jobs[w].at = "answered" /\ jobs' = [jobs EXCEPT ![w] = Idle]
        /\ UNCHANGED <<receipts, accepted>>
    BY <1>10 DEF Record
  <2>2. UNCHANGED OnTheirWay
    BY <1>0, <2>1, WayAfterStop DEF Idle
  <2>3. jobs[w].event \in Events /\ jobs[w].answer \in Answers /\ w # None
    BY <1>0, <2>1 DEF TypeOK, Job, Idle
  <2>4. CASE LeaseHeld(w)
    <3>1. Finish(jobs[w].event, jobs[w].answer, events[jobs[w].event].attempts)
      BY <1>10, <2>4 DEF Record
    <3>2. events[jobs[w].event].status = "sending"
      BY <2>3, <2>4 DEF LeaseHeld, IInv, LeaseOnlyWhileSending
    <3>3. jobs[w].answer = "success" => jobs[w].event \in receipts \cup accepted
      BY <2>1 DEF IInv, SuccessWasAccepted
    <3> QED
      BY <2>1, <2>2, <2>3, <3>1, <3>2, <3>3, AnswerIsSeen DEF Outbox!Next
  <2>5. CASE ~ LeaseHeld(w)
    BY <1>1, <1>10, <2>1, <2>2, <2>5 DEF Record
  <2> QED
    BY <2>4, <2>5
<1>11. ASSUME NEW w \in Workers, jobs[w].at = "sending", NEW done, done.at # "sending",
              jobs' = [jobs EXCEPT ![w] = done], UNCHANGED <<events, receipts>>,
              accepted' \in {accepted, accepted \cup {jobs[w].event}}
       PROVE  Outbox!Next
  <2>1. /\ jobs[w].event \in OnTheirWay
        /\ OnTheirWay' \in {OnTheirWay, OnTheirWay \ {jobs[w].event}}
    BY <1>0, <1>11, WayAfterStop
  <2>2. (receipts \cup accepted)' \in {receipts \cup accepted, (receipts \cup accepted) \cup {jobs[w].event}}
    BY <1>11
  <2>3. UNCHANGED Seen
    BY <1>11 DEF Seen, Progress
  <2>4. jobs[w].event \in Events
    BY <1>0, <1>11 DEF TypeOK, Job, Idle
  <2>5. Outbox!Land(jobs[w].event)
    BY <2>1, <2>2, <2>3 DEF Outbox!Land, Seen
  <2> QED
    BY <2>4, <2>5 DEF Outbox!Next
<1>12. ASSUME NEW w \in Workers, Send(w) PROVE Outbox!Next
  <2>1. PICK answer \in Answers :
          /\ jobs' = [jobs EXCEPT ![w].at = "answered", ![w].answer = answer]
          /\ \/ accepted' = accepted \cup {jobs[w].event}
             \/ answer # "success" /\ UNCHANGED accepted
    BY <1>12 DEF Send
  <2>2. jobs[w] \in Job /\ jobs[w].at = "sending" /\ UNCHANGED <<events, receipts>>
    BY <1>0, <1>12 DEF Send, TypeOK
  <2>3. PICK done : done = [jobs[w] EXCEPT !.at = "answered", !.answer = answer]
    OBVIOUS
  <2>4. done.at # "sending"
    BY <2>2, <2>3 DEF Job, Idle
  <2>5. jobs' = [jobs EXCEPT ![w] = done]
    BY <2>1, <2>3
  <2> QED
    BY <1>11, <2>1, <2>2, <2>4, <2>5
<1>13. ASSUME NEW w \in Workers, Crash(w) PROVE Outbox!Next \/ UNCHANGED SeenVars
  <2>1. /\ jobs' = [jobs EXCEPT ![w] = Idle] /\ Idle.at # "sending"
        /\ UNCHANGED <<events, receipts, accepted>>
    BY <1>13 DEF Crash, Idle
  <2>2. CASE jobs[w].at = "sending"
    BY <1>11, <2>1, <2>2
  <2>3. CASE jobs[w].at # "sending"
    BY <1>0, <1>1, <2>1, <2>3, WayAfterStop
  <2> QED
    BY <2>2, <2>3
<1>14. ASSUME NEW e \in Events, ChangePreference(e) PROVE UNCHANGED SeenVars
  BY <1>1, <1>2, <1>14 DEF ChangePreference
<1>15. ASSUME UNCHANGED vars PROVE UNCHANGED SeenVars
  BY <1>1, <1>2, <1>15 DEF vars
<1> QED
  BY <1>3, <1>4, <1>5, <1>6, <1>7, <1>8, <1>9, <1>10, <1>12, <1>13, <1>14, <1>15 DEF Next, Deliver

(* At first there is no event.                                             *)
LEMMA AllAbsent ==
  ASSUME NEW e \in Events
  PROVE  Init => events[e].status = "absent" /\ events[e].attempts = 0
<1> SUFFICES ASSUME Init PROVE events[e].status = "absent" /\ events[e].attempts = 0
  OBVIOUS
<1>1. events[e] = NoEvent
  BY Zenon DEF Init
<1> QED
  BY <1>1 DEF NoEvent

(* Seen through the rows' states and attempts, the messages on their way   *)
(* and the receivers, any number of workers with their leases, crashes and *)
(* late answers behaves as BoundedDelivery.                                *)
THEOREM OutboxImplementsDelivery == Spec => ImplementsDelivery
<1>1. Init => Outbox!Init
  <2> SUFFICES ASSUME Init
               PROVE  /\ Seen = [e \in Events |-> [state |-> "absent", attempts |-> 0]]
                      /\ OnTheirWay = {} /\ receipts \cup accepted = {}
    BY DEF Outbox!Init, Seen
  <2>1. \A e \in Events : Progress(e) = [state |-> "absent", attempts |-> 0]
    <3>1. ASSUME NEW e \in Events
          PROVE  Progress(e) = [state |-> "absent", attempts |-> 0]
      <4>1. events[e].status = "absent" /\ events[e].attempts = 0
        BY AllAbsent, Zenon
      <4> QED
        BY <4>1 DEF Progress
    <3> QED
      BY <3>1, Zenon
  <2>2. {w \in Workers : jobs[w].at = "sending"} = {}
    BY DEF Init, Idle
  <2>3. OnTheirWay = {}
    BY <2>2 DEF OnTheirWay
  <2>4. receipts \cup accepted = {}
    BY DEF Init
  <2> QED
    BY <2>1, <2>3, <2>4 DEF Seen
<1>2. Init => WaitingInv
  <2> SUFFICES ASSUME Init, NEW e \in Events
               PROVE  events[e].status # "sending" /\ events[e].status # "pending"
    BY Zenon DEF WaitingInv
  <2>1. events[e].status = "absent"
    BY AllAbsent, Zenon
  <2> QED
    BY <2>1
<1>3. [Outbox!Next]_SeenVars
        => [Outbox!Next]_<<[e \in Events |-> Progress(e)], OnTheirWay, receipts \cup accepted>>
  BY DEF SeenVars, Seen
<1> QED
  BY <1>1, <1>2, <1>3, WaitingKeeps, StepIsSeen, OutboxInvariant, PTL
     DEF Spec, ImplementsDelivery, Outbox!Spec

=============================================================================
