------------------------ MODULE ExtractionFenceProofs ------------------------
(***************************************************************************)
(* Theorems about the hosted extraction of one version under the credit    *)
(* fence, for every number of workers, identities and accounts, and any    *)
(* number of crashes, and about what an accepted answer says.              *)
(***************************************************************************)
EXTENDS ExtractionFence, ExtractionClaims, FiniteSetTheorems, TLAPS

-----------------------------------------------------------------------------
(***************************************************************************)
(* The inductive invariant.                                                *)
(***************************************************************************)

(* A worker on its way through persist_extraction has a key, and the one   *)
(* with the provider on the line is the one with the version's row lock.   *)
WorkersInv ==
  /\ \A w \in Workers : job[w].at # "idle" => job[w].key \in Keys
  /\ \A w \in Workers : job[w].at = "reserved" => job[w].policy # None
  /\ \A w \in Workers : job[w].at = "calling" <=> lock = w

(* The workers between the commit of their hold and its settlement.        *)
Fenced(w) == job[w].at = "reserved" \/ (job[w].at = "calling" /\ job[w].policy # None)

(* An identity is held by one account, by one worker.                      *)
HoldersInv ==
  /\ \A k \in Keys : \A a, b \in Holders(k) : a = b
  /\ \A w \in Workers : Fenced(w) => OwnHold(w).status # "absent"
  /\ \A v, w \in Workers : Fenced(v) /\ Fenced(w) /\ job[v].key = job[w].key => v = w

(* While the provider is on the line no row of the call changes.           *)
CallingInv ==
  \A w \in Workers : job[w].at = "calling" =>
    /\ job[w].key \notin results
    /\ job[w].policy # None => OwnHold(w).status = "reserved"
    /\ job[w].policy = None => Holders(job[w].key) = {}

(* Calls are counted from the first hold on, and the worker with the hold  *)
(* has not called yet.                                                     *)
CallsInv ==
  /\ \A k \in Keys : calls[k] <= 1
  /\ \A k \in Keys : Holders(k) = {} => calls[k] = 0
  /\ \A w \in Workers : job[w].at = "reserved" => calls[job[w].key] = 0

(* The identities an account has paid or is about to pay for.              *)
Charged(a) == {k \in Keys : holds[a][k].status \in {"reserved", "committed"}}

(* Every unit an account misses is on a hold.                              *)
UnitsInv ==
  \A a \in Accounts :
    IsFiniteSet(Charged(a)) /\ available[a] = Funding[a] - Cardinality(Charged(a))

Hold    == [status: {"absent", "reserved", "committed", "refunded"},
            recent: BOOLEAN, by: {None, "worker", "operator"}]
Failure == [attempts: 0..MaxAttempts, dead: BOOLEAN, due: BOOLEAN]
Job     == [at: Stages, key: Keys \cup {None}, policy: Accounts \cup {None}]

(* The types of all variables but the balances.                            *)
RowsOK ==
  /\ input \in Keys \cup {None}
  /\ results \subseteq Keys
  /\ available \in [Accounts -> Int]
  /\ holds \in [Accounts -> [Keys -> Hold]]
  /\ failure \in [Keys -> Failure]
  /\ job \in [Workers -> Job]
  /\ lock \in Workers \cup {None}
  /\ calls \in [Keys -> Nat]
  /\ crashes \in 0..MaxCrashes

(* No account is overdrawn: TypeOK's range of the balances.                *)
NotOverdrawn == \A a \in Accounts : available[a] >= 0

FenceInv ==
  /\ WorkersInv /\ HoldersInv /\ CallingInv /\ CallsInv /\ ResultIffDebited

IInv == RowsOK /\ FenceInv /\ UnitsInv /\ NotOverdrawn

-----------------------------------------------------------------------------
(***************************************************************************)
(* Rows keep their types.                                                  *)
(***************************************************************************)

(* A worker's record, its key and its account.                             *)
LEMMA JobType ==
  ASSUME RowsOK, NEW w \in Workers
  PROVE  /\ job[w].at \in Stages
         /\ job[w].key \in Keys \cup {None}
         /\ job[w].policy \in Accounts \cup {None}
         /\ job[w] = [at |-> job[w].at, key |-> job[w].key, policy |-> job[w].policy]
BY DEF RowsOK, Job

(* A worker that moves to a stage keeps its key and its account; the others *)
(* keep everything.                                                        *)
LEMMA GotoFacts ==
  ASSUME RowsOK, NEW w \in Workers, NEW stage \in Stages, Goto(w, stage)
  PROVE  /\ job' \in [Workers -> Job]
         /\ job'[w].at = stage /\ job'[w].key = job[w].key /\ job'[w].policy = job[w].policy
         /\ \A v \in Workers \ {w} : job'[v] = job[v]
BY DEF RowsOK, Goto, Job

LEMMA FinishFacts ==
  ASSUME RowsOK, NEW w \in Workers, Finish(w)
  PROVE  /\ job' \in [Workers -> Job]
         /\ job'[w].at = "idle"
         /\ \A v \in Workers \ {w} : job'[v] = job[v]
<1>1. Idle \in Job
  BY DEF Idle, Job, Stages
<1> QED BY <1>1 DEF RowsOK, Finish, Idle

(* The failure row stays a failure row.                                    *)
LEMMA FailureType ==
  ASSUME RowsOK, NEW k \in Keys, NEW dead \in BOOLEAN, RecordFailure(k, dead) \/ ResetFailure(k)
  PROVE  failure' \in [Keys -> Failure]
<1>1. CASE ResetFailure(k)
  BY <1>1, FenceAssumption DEF RowsOK, ResetFailure, NoFailure, Failure
<1>2. CASE RecordFailure(k, dead)
  <2> DEFINE n == IF failure[k].attempts < MaxAttempts THEN failure[k].attempts + 1
                  ELSE MaxAttempts
             row == [attempts |-> n, dead |-> dead \/ n >= MaxAttempts, due |-> FALSE]
  <2>1. failure[k].attempts \in 0..MaxAttempts /\ MaxAttempts \in Nat \ {0}
    BY FenceAssumption DEF RowsOK, Failure
  <2>2. n \in 0..MaxAttempts
    BY <2>1
  <2>3. (dead \/ n >= MaxAttempts) \in BOOLEAN
    OBVIOUS
  <2>4. row \in Failure
    <3> HIDE DEF n
    <3> QED BY <2>2, <2>3 DEF Failure
  <2>5. failure' = [failure EXCEPT ![k] = row]
    BY <1>2 DEF RecordFailure
  <2> HIDE DEF row
  <2> QED BY <2>4, <2>5 DEF RowsOK
<1> QED BY <1>1, <1>2

(* Settling a reservation touches its own row, and the balance on a refund. *)
LEMMA SettleFacts ==
  ASSUME RowsOK, NEW a \in Accounts, NEW k \in Keys, NEW status \in {"committed", "refunded"},
         NEW by \in {"worker", "operator"}, Settle(a, k, status, by)
  PROVE  /\ holds' \in [Accounts -> [Keys -> Hold]]
         /\ holds[a][k].status = "reserved"
         /\ holds'[a][k].status = status /\ holds'[a][k].by = by
         /\ \A b \in Accounts, j \in Keys : b # a \/ j # k => holds'[b][j] = holds[b][j]
         /\ available' = IF status = "refunded" THEN [available EXCEPT ![a] = @ + 1]
                         ELSE available
<1> DEFINE row == [holds[a][k] EXCEPT !.status = status, !.by = by]
<1>1. holds[a] \in [Keys -> Hold] /\ holds[a][k] \in Hold
  BY DEF RowsOK
<1>2. row \in Hold /\ row.status = status /\ row.by = by
  BY <1>1 DEF Hold
<1>3. holds' = [holds EXCEPT ![a] = [holds[a] EXCEPT ![k] = row]]
  BY DEF Settle, RowsOK
<1>4. available' = IF status = "refunded" THEN [available EXCEPT ![a] = @ + 1] ELSE available
  BY DEF Settle
<1>5. holds[a][k].status = "reserved"
  BY DEF Settle, Settleable
<1> HIDE DEF row
<1>6. holds' \in [Accounts -> [Keys -> Hold]]
  BY <1>1, <1>2, <1>3 DEF RowsOK
<1>7. holds'[a][k] = row
  BY <1>1, <1>3 DEF RowsOK
<1>8. \A b \in Accounts, j \in Keys : b # a \/ j # k => holds'[b][j] = holds[b][j]
  BY <1>1, <1>3 DEF RowsOK
<1> QED BY <1>2, <1>4, <1>5, <1>6, <1>7, <1>8

-----------------------------------------------------------------------------
(***************************************************************************)
(* The steps, sorted by what they touch.                                   *)
(***************************************************************************)

(* What a step of a worker does to the rows of the other workers.          *)
OnlyJob(w) == \A v \in Workers \ {w} : job'[v] = job[v]

(* The worker goes somewhere it neither holds units nor has the provider   *)
(* on the line, and gives up the lock if it has it; holds stay.            *)
Leaves(w) ==
  /\ results' = results /\ available' = available /\ holds' = holds /\ calls' = calls
  /\ job'[w].at \notin {"reserved", "calling"}
  /\ job'[w].at # "idle" => job'[w].key \in Keys
  /\ OnlyJob(w)
  /\ lock' = IF lock = w THEN None ELSE lock

(* The failure rows, the documents and the clock of the crashes.           *)
MinorOK ==
  /\ input' \in Keys \cup {None}
  /\ failure' \in [Keys -> Failure]
  /\ crashes' \in 0..MaxCrashes

(* A worker other than the lock's holder does not have the provider on the *)
(* line, and the lock is only held over a call.                            *)
LEMMA LockFacts ==
  ASSUME RowsOK, WorkersInv, NEW w \in Workers
  PROVE  /\ job[w].at = "calling" => lock = w
         /\ job[w].at # "calling" => lock # w
         /\ lock = None => \A v \in Workers : job[v].at # "calling"
         /\ lock = w => \A v \in Workers \ {w} : job[v].at # "calling"
         /\ w # None
BY FenceAssumption DEF WorkersInv, RowsOK

(* The actions after which the worker holds nothing any more.              *)
LEMMA LeavingSteps ==
  ASSUME IInv, NEW w \in Workers, NEW policy \in Accounts \cup {None},
         \/ StartJob(w, policy) \/ SkipWork(w) \/ MeetPriorAttempt(w) \/ RefuseForBalance(w)
         \/ LoseReservation(w) \/ CallFails(w) \/ DatabaseFails(w) \/ CloseJob(w) \/ FailJob(w)
         \/ Crash(w)
  PROVE  Leaves(w) /\ MinorOK /\ job' \in [Workers -> Job] /\ lock' \in Workers \cup {None}
<1> USE DEF IInv, FenceInv
<1>0. /\ RowsOK /\ WorkersInv
      /\ job[w].at \in Stages /\ (job[w].at # "idle" => job[w].key \in Keys)
      /\ input \in Keys \cup {None} /\ failure \in [Keys -> Failure] /\ crashes \in 0..MaxCrashes
      /\ lock \in Workers \cup {None}
  BY JobType DEF RowsOK, WorkersInv
<1>l. /\ job[w].at = "calling" => lock = w
      /\ job[w].at # "calling" => lock # w
      /\ w # None
  BY <1>0, LockFacts
<1>g. ASSUME NEW stage \in {"review", "retryable"}, Goto(w, stage), job[w].at # "idle"
      PROVE  /\ job' \in [Workers -> Job] /\ OnlyJob(w)
             /\ job'[w].at = stage /\ job'[w].key \in Keys
  <2>1. stage \in Stages
    BY DEF Stages
  <2> QED BY <1>0, <1>g, <2>1, GotoFacts DEF OnlyJob
<1>f. ASSUME Finish(w)
      PROVE  job' \in [Workers -> Job] /\ OnlyJob(w) /\ job'[w].at = "idle"
  BY <1>0, <1>f, FinishFacts DEF OnlyJob
<1>1. CASE StartJob(w, policy)
  <2>1. job[w].at = "idle" /\ input \in Keys
    BY <1>0, <1>1 DEF StartJob, Idle
  <2>2. job' = [job EXCEPT ![w] = [at |-> "queued", key |-> input, policy |-> policy]]
    BY <1>1 DEF StartJob
  <2>3. [at |-> "queued", key |-> input, policy |-> policy] \in Job
    BY <2>1 DEF Job, Stages
  <2>4. /\ job' \in [Workers -> Job] /\ OnlyJob(w)
        /\ job'[w].at = "queued" /\ job'[w].key = input
    BY <2>2, <2>3 DEF RowsOK, OnlyJob
  <2> QED BY <1>0, <1>1, <1>l, <2>1, <2>4 DEF StartJob, Leaves, MinorOK
<1>2. CASE SkipWork(w)
  <2>1. job[w].key \in Keys /\ job[w].at = "queued"
    BY <1>0, <1>2 DEF SkipWork, AtFirstLock
  <2>2. failure' \in [Keys -> Failure]
    BY <1>0, <1>2, <2>1, FailureType DEF SkipWork
  <2> QED BY <1>0, <1>2, <1>f, <1>l, <2>1, <2>2 DEF SkipWork, Leaves, MinorOK
<1>3. CASE MeetPriorAttempt(w)
  <2>1. job[w].at = "queued" /\ (Finish(w) \/ Goto(w, "review"))
    BY <1>3 DEF MeetPriorAttempt, AtFirstLock
  <2> QED BY <1>0, <1>3, <1>f, <1>g, <1>l, <2>1 DEF MeetPriorAttempt, Leaves, MinorOK
<1>4. CASE RefuseForBalance(w)
  <2>1. job[w].at = "queued" /\ Goto(w, "review")
    BY <1>4 DEF RefuseForBalance, Clear, AtFirstLock
  <2> QED BY <1>0, <1>4, <1>g, <1>l, <2>1 DEF RefuseForBalance, Leaves, MinorOK
<1>5. CASE LoseReservation(w)
  <2>1. job[w].at = "reserved" /\ Goto(w, "review")
    BY <1>5 DEF LoseReservation, AtSecondLock
  <2> QED BY <1>0, <1>5, <1>g, <1>l, <2>1 DEF LoseReservation, Leaves, MinorOK
<1>6. CASE CallFails(w)
  <2>1. job[w].at = "calling" /\ (Goto(w, "review") \/ Goto(w, "retryable"))
    BY <1>6 DEF CallFails
  <2> QED BY <1>0, <1>6, <1>g, <1>l, <2>1 DEF CallFails, Leaves, MinorOK
<1>7. CASE DatabaseFails(w)
  <2>1. /\ job[w].at \in {"queued", "reserved", "closing"}
        /\ Goto(w, "review") \/ Goto(w, "retryable")
    BY <1>7 DEF DatabaseFails
  <2> QED BY <1>0, <1>7, <1>g, <1>l, <2>1 DEF DatabaseFails, Leaves, MinorOK
<1>8. CASE CloseJob(w)
  <2>1. job[w].key \in Keys /\ job[w].at = "closing"
    BY <1>0, <1>8 DEF CloseJob
  <2>2. failure' \in [Keys -> Failure]
    BY <1>0, <1>8, <2>1, FailureType DEF CloseJob
  <2> QED BY <1>0, <1>8, <1>f, <1>l, <2>1, <2>2 DEF CloseJob, Leaves, MinorOK
<1>9. CASE FailJob(w)
  <2>1. job[w].key \in Keys /\ job[w].at \in {"review", "retryable"}
    BY <1>0, <1>9 DEF FailJob
  <2>2. failure' \in [Keys -> Failure]
    BY <1>0, <1>9, <2>1, FailureType DEF FailJob
  <2> QED BY <1>0, <1>9, <1>f, <1>l, <2>1, <2>2 DEF FailJob, Leaves, MinorOK
<1>10. CASE Crash(w)
  <2>1. crashes' \in 0..MaxCrashes
    BY <1>0, <1>10, FenceAssumption DEF Crash
  <2> QED BY <1>0, <1>10, <1>f, <2>1 DEF Crash, Leaves, MinorOK
<1> QED BY <1>1, <1>2, <1>3, <1>4, <1>5, <1>6, <1>7, <1>8, <1>9, <1>10

(* Holders depend on the holds alone, and so do the identities charged.     *)
LEMMA SameHolds ==
  ASSUME holds' = holds
  PROVE  /\ \A k \in Keys : Holders(k)' = Holders(k)
         /\ \A a \in Accounts : Charged(a)' = Charged(a)
BY DEF Holders, Charged

(* A worker that lets go of everything leaves a sound state behind.        *)
LEMMA LeavesKeeps ==
  ASSUME IInv, NEW w \in Workers, Leaves(w), job' \in [Workers -> Job]
  PROVE  FenceInv' /\ UnitsInv' /\ NotOverdrawn'
<1> USE DEF IInv, FenceInv
<1>0. /\ RowsOK /\ job[w].at \in Stages
      /\ \A v \in Workers : job'[v].at # "idle" /\ v # w => job'[v].key = job[v].key
  BY JobType DEF Leaves, OnlyJob
<1>1. WorkersInv'
  <2>1. \A v \in Workers : job'[v].at # "idle" => job'[v].key \in Keys
    BY DEF WorkersInv, Leaves, OnlyJob
  <2>2. \A v \in Workers : job'[v].at = "reserved" => job'[v].policy # None
    BY DEF WorkersInv, Leaves, OnlyJob
  <2>3. ASSUME NEW v \in Workers PROVE job'[v].at = "calling" <=> lock' = v
    <3>1. v # None /\ w # None
      BY FenceAssumption
    <3> QED BY <3>1 DEF WorkersInv, Leaves, OnlyJob
  <2> QED BY <2>1, <2>2, <2>3 DEF WorkersInv
<1>2. HoldersInv'
  <2>1. \A v \in Workers : Fenced(v)' => v # w /\ Fenced(v) /\ job'[v] = job[v]
    BY DEF Fenced, Leaves, OnlyJob
  <2>2. \A v \in Workers : job'[v] = job[v] => OwnHold(v)' = OwnHold(v)
    BY DEF OwnHold, Leaves
  <2>3. \A k \in Keys : Holders(k)' = Holders(k)
    BY SameHolds DEF Leaves
  <2> QED BY <2>1, <2>2, <2>3 DEF HoldersInv
<1>3. CallingInv'
  <2> SUFFICES ASSUME NEW v \in Workers, job'[v].at = "calling"
               PROVE  /\ job'[v].key \notin results'
                      /\ job'[v].policy # None => OwnHold(v)'.status = "reserved"
                      /\ job'[v].policy = None => Holders(job[v].key)' = {}
                      /\ job'[v] = job[v]
    BY DEF CallingInv
  <2>1. v # w /\ job'[v] = job[v] /\ job[v].at = "calling"
    BY DEF Leaves, OnlyJob
  <2>2. OwnHold(v)' = OwnHold(v) /\ Holders(job[v].key)' = Holders(job[v].key)
    BY <2>1 DEF OwnHold, Leaves, Holders
  <2> QED BY <2>1, <2>2 DEF CallingInv, Leaves
<1>4. CallsInv'
  <2>1. \A k \in Keys : Holders(k)' = Holders(k)
    BY SameHolds DEF Leaves
  <2> QED BY <2>1 DEF CallsInv, Leaves, OnlyJob
<1>5. ResultIffDebited'
  <2>1. \A k \in Keys : Holders(k)' = Holders(k)
    BY SameHolds DEF Leaves
  <2> QED BY <2>1 DEF ResultIffDebited, Leaves
<1>6. UnitsInv' /\ NotOverdrawn'
  <2>1. \A a \in Accounts : Charged(a)' = Charged(a)
    BY SameHolds DEF Leaves
  <2> QED BY <2>1 DEF UnitsInv, NotOverdrawn, Leaves
<1> QED BY <1>1, <1>2, <1>3, <1>4, <1>5, <1>6

-----------------------------------------------------------------------------
(***************************************************************************)
(* Reserving units, calling the provider.                                  *)
(***************************************************************************)

(* A hold is opened on an identity that has none, and its units are taken  *)
(* from an account that has them.                                          *)
LEMMA ReserveKeeps ==
  ASSUME IInv, NEW w \in Workers, ReserveUnits(w)
  PROVE  IInv'
<1> USE DEF IInv, FenceInv
<1> DEFINE hold == [status |-> "reserved", recent |-> TRUE, by |-> None]
<1>0. PICK a \in Accounts, k \in Keys :
        /\ a = job[w].policy /\ k = job[w].key
        /\ job[w].at = "queued" /\ lock = None /\ k \notin results /\ Holders(k) = {}
        /\ holds[a][k].status = "absent" /\ available[a] >= 1
        /\ available' = [available EXCEPT ![a] = @ - 1]
        /\ holds' = [holds EXCEPT ![a] = [holds[a] EXCEPT ![k] = hold]]
        /\ Goto(w, "reserved")
        /\ UNCHANGED <<input, results, failure, lock, calls, crashes>>
  <2>1. job[w].policy \in Accounts /\ job[w].key \in Keys /\ job[w].at = "queued"
    BY JobType DEF ReserveUnits, Clear, AtFirstLock, WorkersInv
  <2> QED BY <2>1 DEF ReserveUnits, Clear, AtFirstLock, NothingToDo, PriorAttempts, Sufficient,
                      RowsOK
<1>1. hold \in Hold /\ hold.status = "reserved" /\ hold.by = None
  BY DEF Hold
<1>2. /\ holds' \in [Accounts -> [Keys -> Hold]] /\ holds'[a][k] = hold
      /\ \A b \in Accounts, j \in Keys : b # a \/ j # k => holds'[b][j] = holds[b][j]
  <2>1. holds[a] \in [Keys -> Hold]
    BY DEF RowsOK
  <2> HIDE DEF hold
  <2> QED BY <1>0, <1>1, <2>1 DEF RowsOK
<1> HIDE DEF hold
<1>3. /\ job' \in [Workers -> Job] /\ job'[w].at = "reserved"
      /\ job'[w].key = k /\ job'[w].policy = a
      /\ \A v \in Workers \ {w} : job'[v] = job[v]
  BY <1>0, GotoFacts DEF Stages
<1>4. /\ available' \in [Accounts -> Int] /\ available'[a] = available[a] - 1
      /\ \A b \in Accounts \ {a} : available'[b] = available[b]
  BY <1>0 DEF RowsOK
<1>5. RowsOK'
  BY <1>0, <1>2, <1>3, <1>4 DEF RowsOK
<1>6. /\ Holders(k)' = {a}
      /\ \A j \in Keys \ {k} : Holders(j)' = Holders(j)
  BY <1>0, <1>1, <1>2 DEF Holders
<1>7. /\ \A v \in Workers : job[v].at # "calling" /\ job'[v].at # "calling"
      /\ a # None
  BY <1>0, <1>3, LockFacts, FenceAssumption
<1>8. ASSUME NEW v \in Workers, Fenced(v)'
      PROVE  /\ OwnHold(v)'.status # "absent"
             /\ v # w => job'[v] = job[v] /\ Fenced(v) /\ job[v].key \in Keys \ {k}
  <2>1. CASE v = w
    BY <1>1, <1>2, <1>3, <2>1 DEF OwnHold
  <2>2. CASE v # w
    <3>1. job'[v] = job[v] /\ Fenced(v) /\ job[v].at = "reserved"
      BY <1>3, <1>7, <1>8, <2>2 DEF Fenced
    <3>2. /\ job[v].policy \in Accounts /\ job[v].key \in Keys
          /\ holds[job[v].policy][job[v].key].status # "absent"
      BY <3>1, JobType DEF HoldersInv, OwnHold, WorkersInv
    <3>3. job[v].key # k
      BY <1>0, <3>2 DEF Holders
    <3> QED BY <1>2, <3>1, <3>2, <3>3 DEF OwnHold
  <2> QED BY <2>1, <2>2
<1>9. WorkersInv'
  BY <1>0, <1>3, <1>7 DEF WorkersInv
<1>10. HoldersInv'
  <2>1. \A j \in Keys : \A b, c \in Holders(j)' : b = c
    BY <1>6 DEF HoldersInv
  <2>2. \A v \in Workers : Fenced(v)' => OwnHold(v)'.status # "absent"
    BY <1>8
  <2>3. \A v, u \in Workers : Fenced(v)' /\ Fenced(u)' /\ job'[v].key = job'[u].key => v = u
    BY <1>3, <1>8 DEF HoldersInv
  <2> QED BY <2>1, <2>2, <2>3 DEF HoldersInv
<1>11. CallingInv'
  BY <1>7 DEF CallingInv
<1>12. CallsInv'
  BY <1>0, <1>3, <1>6 DEF CallsInv
<1>13. ResultIffDebited'
  <2> SUFFICES ASSUME NEW b \in Accounts, NEW j \in Keys
               PROVE  /\ j \in results /\ b \in Holders(j)' =>
                           holds'[b][j].status = "committed" /\ holds'[b][j].by = "worker"
                      /\ holds'[b][j].status = "committed" /\ holds'[b][j].by = "worker"
                           => j \in results
                      /\ holds'[b][j].status = "refunded" /\ holds'[b][j].by = "worker"
                           => calls[j] = 0
    BY <1>0 DEF ResultIffDebited
  <2>1. CASE b = a /\ j = k
    BY <1>0, <1>1, <1>2, <2>1
  <2>2. CASE ~ (b = a /\ j = k)
    <3>1. b \in Holders(j)' => b \in Holders(j)
      BY <1>6, <2>2
    <3> QED BY <1>2, <2>2, <3>1 DEF ResultIffDebited
  <2> QED BY <2>1, <2>2
<1>14. UnitsInv' /\ NotOverdrawn'
  <2>1. /\ Charged(a)' = Charged(a) \cup {k} /\ k \notin Charged(a)
        /\ \A b \in Accounts \ {a} : Charged(b)' = Charged(b)
    BY <1>0, <1>1, <1>2 DEF Charged
  <2>2. IsFiniteSet(Charged(a)') /\ Cardinality(Charged(a)') = Cardinality(Charged(a)) + 1
    BY <2>1, FS_AddElement DEF UnitsInv
  <2>3. Cardinality(Charged(a)) \in Nat /\ Funding[a] \in Nat
    BY FS_CardinalityType, FenceAssumption DEF UnitsInv
  <2>4. available'[a] = Funding[a] - Cardinality(Charged(a)')
    BY <1>4, <2>2, <2>3 DEF UnitsInv
  <2>5. UnitsInv'
    BY <1>4, <2>1, <2>2, <2>4 DEF UnitsInv
  <2>6. NotOverdrawn'
    BY <1>0, <1>4 DEF NotOverdrawn, RowsOK
  <2> QED BY <2>5, <2>6
<1> QED BY <1>5, <1>9, <1>10, <1>11, <1>12, <1>13, <1>14

(* The provider is called: by a worker whose hold is open and which has not *)
(* called yet, or without credits for an identity nobody holds.            *)
LEMMA CallKeeps ==
  ASSUME IInv, NEW w \in Workers, CallUnbilled(w) \/ CallProvider(w)
  PROVE  IInv'
<1> USE DEF IInv, FenceInv
<1>0. PICK k \in Keys :
        /\ k = job[w].key /\ k \notin results /\ lock = None /\ lock' = w
        /\ \/ job[w].at = "queued" /\ job[w].policy = None /\ Holders(k) = {}
           \/ job[w].at = "reserved" /\ job[w].policy # None /\ OwnHold(w).status = "reserved"
        /\ Goto(w, "calling") /\ CountCall(k)
        /\ UNCHANGED <<input, results, available, holds, failure, crashes>>
  <2>1. CASE CallUnbilled(w)
    <3>1. job[w].key \in Keys /\ job[w].at = "queued"
      BY <2>1 DEF CallUnbilled, Clear, AtFirstLock, WorkersInv
    <3> QED BY <2>1, <3>1 DEF CallUnbilled, Clear, AtFirstLock, NothingToDo, PriorAttempts
  <2>2. CASE CallProvider(w)
    <3>1. job[w].key \in Keys /\ job[w].at = "reserved" /\ job[w].policy # None
      BY <2>2 DEF CallProvider, AtSecondLock, WorkersInv
    <3> QED BY <2>2, <3>1 DEF CallProvider, AtSecondLock, NothingToDo, OpenForCall
  <2> QED BY <2>1, <2>2
<1>1. /\ job' \in [Workers -> Job] /\ job'[w].at = "calling"
      /\ job'[w].key = k /\ job'[w].policy = job[w].policy
      /\ \A v \in Workers \ {w} : job'[v] = job[v]
  BY <1>0, GotoFacts DEF Stages
<1>2. /\ calls' \in [Keys -> Nat]
      /\ calls'[k] = IF Holders(k) = {} THEN 0 ELSE calls[k] + 1
      /\ \A j \in Keys \ {k} : calls'[j] = calls[j]
  BY <1>0 DEF CountCall, RowsOK
<1>3. calls'[k] \in {0, 1} /\ (Holders(k) = {} => calls'[k] = 0)
  <2>1. CASE Holders(k) = {}
    BY <1>2, <2>1
  <2>2. CASE Holders(k) # {}
    <3>1. calls[k] = 0
      BY <1>0, <2>2 DEF CallsInv
    <3> QED BY <1>2, <2>2, <3>1
  <2> QED BY <2>1, <2>2
<1>4. /\ \A j \in Keys : Holders(j)' = Holders(j)
      /\ \A a \in Accounts : Charged(a)' = Charged(a)
      /\ \A v \in Workers : OwnHold(v)' = holds[job'[v].policy][job'[v].key]
  BY <1>0, SameHolds DEF OwnHold
<1>5. RowsOK'
  BY <1>0, <1>1, <1>2 DEF RowsOK
<1>6. /\ \A v \in Workers : job[v].at # "calling"
      /\ w # None
  BY <1>0, LockFacts
<1>7. ASSUME NEW v \in Workers, Fenced(v)'
      PROVE  Fenced(v) /\ OwnHold(v)' = OwnHold(v) /\ job'[v].key = job[v].key
  BY <1>0, <1>1, <1>4, <1>7 DEF Fenced, OwnHold
<1>8. WorkersInv'
  BY <1>0, <1>1, <1>6 DEF WorkersInv
<1>9. HoldersInv'
  <2>1. \A j \in Keys : \A b, c \in Holders(j)' : b = c
    BY <1>4 DEF HoldersInv
  <2>2. \A v \in Workers : Fenced(v)' => OwnHold(v)'.status # "absent"
    BY <1>7 DEF HoldersInv
  <2>3. \A v, u \in Workers : Fenced(v)' /\ Fenced(u)' /\ job'[v].key = job'[u].key => v = u
    BY <1>7 DEF HoldersInv
  <2> QED BY <2>1, <2>2, <2>3 DEF HoldersInv
<1>10. CallingInv'
  <2> SUFFICES ASSUME NEW v \in Workers, job'[v].at = "calling"
               PROVE  /\ job'[v].key \notin results'
                      /\ job'[v].policy # None => OwnHold(v)'.status = "reserved"
                      /\ job'[v].policy = None => Holders(k)' = {}
                      /\ job'[v].key = k
    BY DEF CallingInv
  <2>1. v = w
    BY <1>1, <1>6
  <2>2. job[w].policy # None => OwnHold(w)' = OwnHold(w)
    BY <1>0, <1>1, <1>4 DEF OwnHold
  <2> QED BY <1>0, <1>1, <1>4, <2>1, <2>2
<1>11. CallsInv'
  <2>1. \A j \in Keys : calls'[j] <= 1 /\ (Holders(j)' = {} => calls'[j] = 0)
    BY <1>2, <1>3, <1>4 DEF CallsInv
  <2>2. ASSUME NEW v \in Workers, job'[v].at = "reserved"
        PROVE  calls'[job'[v].key] = 0
    <3>1. v # w /\ job'[v] = job[v] /\ job[v].at = "reserved" /\ job[v].key \in Keys
      BY <1>1, <2>2 DEF WorkersInv
    <3>2. calls[job[v].key] = 0
      BY <3>1 DEF CallsInv
    <3>3. CASE job[v].key # k
      BY <1>2, <3>1, <3>2, <3>3
    <3>4. CASE job[v].key = k
      <4>1. Fenced(v) /\ OwnHold(v).status # "absent" /\ job[v].policy \in Accounts
        BY <3>1, JobType DEF Fenced, HoldersInv, WorkersInv
      <4>2. job[v].policy \in Holders(k)
        BY <3>4, <4>1 DEF Holders, OwnHold
      <4>3. Fenced(w)
        BY <1>0, <4>2 DEF Fenced
      <4> QED BY <1>0, <3>1, <3>4, <4>1, <4>3 DEF HoldersInv
    <3> QED BY <3>3, <3>4
  <2> QED BY <2>1, <2>2 DEF CallsInv
<1>12. ResultIffDebited'
  <2> SUFFICES ASSUME NEW b \in Accounts, NEW j \in Keys
               PROVE  /\ j \in results /\ b \in Holders(j) =>
                           holds[b][j].status = "committed" /\ holds[b][j].by = "worker"
                      /\ holds[b][j].status = "committed" /\ holds[b][j].by = "worker"
                           => j \in results
                      /\ holds[b][j].status = "refunded" /\ holds[b][j].by = "worker"
                           => calls'[j] = 0
    BY <1>0, <1>4 DEF ResultIffDebited
  <2>1. /\ j \in results /\ b \in Holders(j) =>
             holds[b][j].status = "committed" /\ holds[b][j].by = "worker"
        /\ holds[b][j].status = "committed" /\ holds[b][j].by = "worker" => j \in results
        /\ holds[b][j].status = "refunded" /\ holds[b][j].by = "worker" => calls[j] = 0
    BY DEF ResultIffDebited
  <2>2. CASE j # k
    BY <1>2, <2>1, <2>2
  <2>3. CASE j = k
    <3>1. holds[b][k].status # "absent" => b \in Holders(k)
      BY DEF Holders
    <3>2. CASE Holders(k) = {}
      BY <1>3, <2>1, <2>3, <3>1, <3>2
    <3>3. CASE Holders(k) # {}
      <4>1. job[w].policy \in Accounts /\ job[w].policy \in Holders(k)
        BY <1>0, <3>3, JobType DEF Holders, OwnHold
      <4>2. b \in Holders(k) => b = job[w].policy
        BY <4>1 DEF HoldersInv
      <4>3. holds[b][k].status # "absent" => holds[b][k].status = "reserved"
        BY <1>0, <3>1, <3>3, <4>2 DEF OwnHold
      <4> QED BY <2>1, <2>3, <4>3
    <3> QED BY <3>2, <3>3
  <2> QED BY <2>2, <2>3
<1>13. UnitsInv' /\ NotOverdrawn'
  BY <1>0, <1>4 DEF UnitsInv, NotOverdrawn
<1> QED BY <1>5, <1>8, <1>9, <1>10, <1>11, <1>12, <1>13

-----------------------------------------------------------------------------
(***************************************************************************)
(* Settlements.                                                            *)
(***************************************************************************)

(* A settlement releases or keeps the units of an open hold; nobody else's *)
(* units move and no hold disappears.                                      *)
LEMMA SettleKeepsUnits ==
  ASSUME IInv, NEW a \in Accounts, NEW k \in Keys, NEW status \in {"committed", "refunded"},
         NEW by \in {"worker", "operator"}, Settle(a, k, status, by)
  PROVE  /\ \A j \in Keys : Holders(j)' = Holders(j)
         /\ available' \in [Accounts -> Int]
         /\ UnitsInv' /\ NotOverdrawn'
<1> USE DEF IInv
<1>1. /\ holds[a][k].status = "reserved" /\ holds'[a][k].status = status
      /\ \A b \in Accounts, j \in Keys : b # a \/ j # k => holds'[b][j] = holds[b][j]
      /\ available' = IF status = "refunded" THEN [available EXCEPT ![a] = @ + 1] ELSE available
  BY SettleFacts
<1>2. \A j \in Keys : Holders(j)' = Holders(j)
  BY <1>1 DEF Holders
<1>3. available' \in [Accounts -> Int]
  BY <1>1 DEF RowsOK
<1>4. \A b \in Accounts \ {a} : Charged(b)' = Charged(b) /\ available'[b] = available[b]
  BY <1>1 DEF Charged, RowsOK
<1>5. /\ Cardinality(Charged(a)) \in Nat /\ Funding[a] \in Nat /\ k \in Charged(a)
      /\ IsFiniteSet(Charged(a)) /\ available[a] = Funding[a] - Cardinality(Charged(a))
  BY <1>1, FS_CardinalityType, FenceAssumption DEF UnitsInv, Charged
<1>6. CASE status = "committed"
  <2>1. Charged(a)' = Charged(a) /\ available' = available
    BY <1>1, <1>6 DEF Charged
  <2> QED BY <1>2, <1>3, <1>4, <1>5, <2>1 DEF UnitsInv, NotOverdrawn
<1>7. CASE status = "refunded"
  <2>1. Charged(a)' = Charged(a) \ {k} /\ available'[a] = available[a] + 1
    BY <1>1, <1>7 DEF Charged, RowsOK
  <2>2. IsFiniteSet(Charged(a)') /\ Cardinality(Charged(a)') = Cardinality(Charged(a)) - 1
    BY <1>5, <2>1, FS_RemoveElement
  <2>3. available'[a] = Funding[a] - Cardinality(Charged(a)') /\ available'[a] >= 0
    BY <1>5, <2>1, <2>2 DEF NotOverdrawn
  <2> QED BY <1>2, <1>3, <1>4, <2>2, <2>3 DEF UnitsInv, NotOverdrawn
<1> QED BY <1>6, <1>7

(* The documents changed, or a result is there: the units go back and the  *)
(* provider has not been called for them.                                  *)
LEMMA RefundKeeps ==
  ASSUME IInv, NEW w \in Workers, RefundUnused(w)
  PROVE  IInv'
<1> USE DEF IInv, FenceInv
<1>0. PICK a \in Accounts, k \in Keys :
        /\ a = job[w].policy /\ k = job[w].key
        /\ job[w].at = "reserved" /\ lock = None
        /\ Settle(a, k, "refunded", "worker") /\ Goto(w, "closing")
        /\ UNCHANGED <<input, results, failure, lock, calls, crashes>>
  <2>1. job[w].policy \in Accounts /\ job[w].key \in Keys /\ job[w].at = "reserved"
    BY JobType DEF RefundUnused, AtSecondLock, WorkersInv
  <2> QED BY <2>1 DEF RefundUnused, AtSecondLock
<1>1. /\ job' \in [Workers -> Job] /\ job'[w].at = "closing" /\ job'[w].key = k
      /\ \A v \in Workers \ {w} : job'[v] = job[v]
  BY <1>0, GotoFacts DEF Stages
<1>2. /\ holds' \in [Accounts -> [Keys -> Hold]]
      /\ holds[a][k].status = "reserved"
      /\ holds'[a][k].status = "refunded" /\ holds'[a][k].by = "worker"
      /\ \A b \in Accounts, j \in Keys : b # a \/ j # k => holds'[b][j] = holds[b][j]
  BY <1>0, SettleFacts
<1>3. /\ \A j \in Keys : Holders(j)' = Holders(j)
      /\ available' \in [Accounts -> Int]
      /\ UnitsInv' /\ NotOverdrawn'
  BY <1>0, SettleKeepsUnits
<1>4. RowsOK'
  BY <1>0, <1>1, <1>2, <1>3 DEF RowsOK
<1>5. \A v \in Workers : job'[v].at # "calling" /\ lock' # v
  BY <1>0, <1>1, LockFacts
<1>6. Fenced(w) /\ calls[k] = 0
  BY <1>0 DEF Fenced, CallsInv
<1>7. ASSUME NEW v \in Workers, Fenced(v)'
      PROVE  Fenced(v) /\ OwnHold(v)' = OwnHold(v) /\ job'[v].key = job[v].key
  <2>1. v # w /\ job'[v] = job[v] /\ Fenced(v) /\ job[v].policy \in Accounts /\ job[v].key \in Keys
    BY <1>1, <1>7, <1>5, JobType DEF Fenced, WorkersInv
  <2>2. job[v].key # k
    BY <1>0, <1>6, <2>1 DEF HoldersInv
  <2> QED BY <1>2, <2>1, <2>2 DEF OwnHold
<1>8. WorkersInv'
  BY <1>0, <1>1, <1>5 DEF WorkersInv
<1>9. HoldersInv'
  BY <1>3, <1>7 DEF HoldersInv
<1>10. CallingInv'
  BY <1>5 DEF CallingInv
<1>11. CallsInv'
  BY <1>0, <1>1, <1>3 DEF CallsInv
<1>12. ResultIffDebited'
  <2> SUFFICES ASSUME NEW b \in Accounts, NEW j \in Keys
               PROVE  /\ j \in results /\ b \in Holders(j) =>
                           holds'[b][j].status = "committed" /\ holds'[b][j].by = "worker"
                      /\ holds'[b][j].status = "committed" /\ holds'[b][j].by = "worker"
                           => j \in results
                      /\ holds'[b][j].status = "refunded" /\ holds'[b][j].by = "worker"
                           => calls[j] = 0
    BY <1>0, <1>3 DEF ResultIffDebited
  <2>1. CASE b = a /\ j = k
    <3>1. k \notin results
      BY <1>2 DEF ResultIffDebited, Holders
    <3> QED BY <1>2, <1>6, <2>1, <3>1
  <2>2. CASE ~ (b = a /\ j = k)
    BY <1>2, <2>2 DEF ResultIffDebited
  <2> QED BY <2>1, <2>2
<1> QED BY <1>3, <1>4, <1>8, <1>9, <1>10, <1>11, <1>12

(* The operator settles a hold while the version's lock is free, so no     *)
(* call is active on it.                                                   *)
LEMMA ResolveKeeps ==
  ASSUME IInv, NEW a \in Accounts, NEW k \in Keys, NEW status \in {"committed", "refunded"},
         Resolve(a, k, status)
  PROVE  IInv'
<1> USE DEF IInv, FenceInv
<1>0. /\ lock = None /\ Settle(a, k, status, "operator")
      /\ UNCHANGED <<input, results, failure, job, lock, calls, crashes>>
  BY DEF Resolve, VersionFree
<1>1. /\ holds' \in [Accounts -> [Keys -> Hold]]
      /\ holds[a][k].status = "reserved"
      /\ holds'[a][k].status = status /\ holds'[a][k].by = "operator"
      /\ \A b \in Accounts, j \in Keys : b # a \/ j # k => holds'[b][j] = holds[b][j]
  BY <1>0, SettleFacts
<1>2. /\ \A j \in Keys : Holders(j)' = Holders(j)
      /\ available' \in [Accounts -> Int]
      /\ UnitsInv' /\ NotOverdrawn'
  BY <1>0, SettleKeepsUnits
<1>3. RowsOK'
  BY <1>0, <1>1, <1>2 DEF RowsOK
<1>4. \A v \in Workers : job'[v].at # "calling"
  BY <1>0, LockFacts
<1>5. WorkersInv'
  BY <1>0 DEF WorkersInv
<1>6. HoldersInv'
  <2>1. ASSUME NEW v \in Workers, Fenced(v)'
        PROVE  Fenced(v) /\ OwnHold(v)'.status # "absent"
    <3>1. /\ Fenced(v) /\ OwnHold(v).status # "absent"
          /\ job[v].policy \in Accounts /\ job[v].key \in Keys
      BY <1>0, <2>1, JobType DEF Fenced, HoldersInv, WorkersInv
    <3> QED BY <1>0, <1>1, <3>1 DEF OwnHold
  <2> QED BY <1>0, <1>2, <2>1 DEF HoldersInv
<1>7. CallingInv'
  BY <1>4 DEF CallingInv
<1>8. CallsInv'
  BY <1>0, <1>2 DEF CallsInv
<1>9. ResultIffDebited'
  <2> SUFFICES ASSUME NEW b \in Accounts, NEW j \in Keys
               PROVE  /\ j \in results /\ b \in Holders(j) =>
                           holds'[b][j].status = "committed" /\ holds'[b][j].by = "worker"
                      /\ holds'[b][j].status = "committed" /\ holds'[b][j].by = "worker"
                           => j \in results
                      /\ holds'[b][j].status = "refunded" /\ holds'[b][j].by = "worker"
                           => calls[j] = 0
    BY <1>0, <1>2 DEF ResultIffDebited
  <2>1. CASE b = a /\ j = k
    <3>1. k \notin results
      BY <1>1 DEF ResultIffDebited, Holders
    <3> QED BY <1>1, <2>1, <3>1
  <2>2. CASE ~ (b = a /\ j = k)
    BY <1>1, <2>2 DEF ResultIffDebited
  <2> QED BY <2>1, <2>2
<1> QED BY <1>2, <1>3, <1>5, <1>6, <1>7, <1>8, <1>9

(* The answer is stored: row and debit are one commit.                     *)
LEMMA StoreKeeps ==
  ASSUME IInv, NEW w \in Workers, StoreResult(w)
  PROVE  IInv'
<1> USE DEF IInv, FenceInv
<1>0. PICK k \in Keys :
        /\ k = job[w].key /\ job[w].at = "calling" /\ lock = w /\ lock' = None
        /\ results' = results \cup {k} /\ k \notin results
        /\ input' = input /\ calls' = calls /\ crashes' = crashes
  <2>1. job[w].key \in Keys /\ job[w].at = "calling" /\ lock = w
    BY LockFacts DEF StoreResult, WorkersInv
  <2> QED BY <2>1 DEF StoreResult, CallingInv
<1>1. \A v \in Workers \ {w} : job[v].at # "calling"
  BY <1>0, LockFacts
<1>2. CASE job[w].policy = None
  <2>1. /\ ResetFailure(k) /\ Finish(w) /\ available' = available /\ holds' = holds
        /\ Holders(k) = {}
    BY <1>0, <1>2 DEF StoreResult, CallingInv
  <2>2. /\ job' \in [Workers -> Job] /\ job'[w].at = "idle"
        /\ \A v \in Workers \ {w} : job'[v] = job[v]
    BY <2>1, FinishFacts
  <2>3. failure' \in [Keys -> Failure]
    BY <2>1, FailureType
  <2>4. RowsOK'
    BY <1>0, <2>1, <2>2, <2>3 DEF RowsOK
  <2>5. /\ \A j \in Keys : Holders(j)' = Holders(j)
        /\ \A a \in Accounts : Charged(a)' = Charged(a)
    BY <2>1, SameHolds
  <2>6. ASSUME NEW v \in Workers, Fenced(v)'
        PROVE  Fenced(v) /\ OwnHold(v)' = OwnHold(v) /\ job'[v].key = job[v].key
    BY <2>1, <2>2, <2>6 DEF Fenced, OwnHold
  <2>7. WorkersInv'
    <3>1. \A v \in Workers : job'[v].at # "calling" /\ v # None
      BY <1>1, <2>2, FenceAssumption
    <3> QED BY <1>0, <2>2, <3>1 DEF WorkersInv
  <2>8. HoldersInv'
    BY <2>5, <2>6 DEF HoldersInv
  <2>9. CallingInv'
    BY <1>1, <2>2 DEF CallingInv
  <2>10. CallsInv'
    BY <1>0, <2>2, <2>5 DEF CallsInv
  <2>11. ResultIffDebited'
    <3> SUFFICES ASSUME NEW b \in Accounts, NEW j \in Keys
                 PROVE  /\ j \in results' /\ b \in Holders(j) =>
                             holds[b][j].status = "committed" /\ holds[b][j].by = "worker"
                        /\ holds[b][j].status = "committed" /\ holds[b][j].by = "worker"
                             => j \in results'
                        /\ holds[b][j].status = "refunded" /\ holds[b][j].by = "worker"
                             => calls[j] = 0
      BY <1>0, <2>1, <2>5 DEF ResultIffDebited
    <3> QED BY <1>0, <2>1 DEF ResultIffDebited
  <2>12. UnitsInv' /\ NotOverdrawn'
    BY <2>1, <2>5 DEF UnitsInv, NotOverdrawn
  <2> QED BY <2>4, <2>7, <2>8, <2>9, <2>10, <2>11, <2>12
<1>3. CASE job[w].policy # None
  <2>1. PICK a \in Accounts : a = job[w].policy
    BY <1>3, JobType
  <2>2. /\ Settle(a, k, "committed", "worker") /\ Goto(w, "closing")
        /\ failure' = failure /\ Fenced(w)
    BY <1>0, <1>3, <2>1 DEF StoreResult, Fenced
  <2>3. /\ job' \in [Workers -> Job] /\ job'[w].at = "closing" /\ job'[w].key = k
        /\ \A v \in Workers \ {w} : job'[v] = job[v]
    BY <1>0, <2>2, GotoFacts DEF Stages
  <2>4. /\ holds' \in [Accounts -> [Keys -> Hold]]
        /\ holds[a][k].status = "reserved"
        /\ holds'[a][k].status = "committed" /\ holds'[a][k].by = "worker"
        /\ \A b \in Accounts, j \in Keys : b # a \/ j # k => holds'[b][j] = holds[b][j]
    BY <2>2, SettleFacts
  <2>5. /\ \A j \in Keys : Holders(j)' = Holders(j)
        /\ available' \in [Accounts -> Int]
        /\ UnitsInv' /\ NotOverdrawn'
    BY <2>2, SettleKeepsUnits
  <2>6. RowsOK'
    BY <1>0, <2>2, <2>3, <2>4, <2>5 DEF RowsOK
  <2>7. ASSUME NEW v \in Workers, Fenced(v)'
        PROVE  Fenced(v) /\ OwnHold(v)' = OwnHold(v) /\ job'[v].key = job[v].key
    <3>1. /\ v # w /\ job'[v] = job[v] /\ Fenced(v)
          /\ job[v].policy \in Accounts /\ job[v].key \in Keys
      BY <2>3, <2>7, JobType DEF Fenced, WorkersInv
    <3>2. job[v].key # k
      BY <1>0, <2>2, <3>1 DEF HoldersInv
    <3> QED BY <2>4, <3>1, <3>2 DEF OwnHold
  <2>8. WorkersInv'
    <3>1. \A v \in Workers : job'[v].at # "calling" /\ v # None
      BY <1>1, <2>3, FenceAssumption
    <3> QED BY <1>0, <2>3, <3>1 DEF WorkersInv
  <2>9. HoldersInv'
    BY <2>5, <2>7 DEF HoldersInv
  <2>10. CallingInv'
    BY <1>1, <2>3 DEF CallingInv
  <2>11. CallsInv'
    BY <1>0, <2>3, <2>5 DEF CallsInv
  <2>12. ResultIffDebited'
    <3> SUFFICES ASSUME NEW b \in Accounts, NEW j \in Keys
                 PROVE  /\ j \in results' /\ b \in Holders(j) =>
                             holds'[b][j].status = "committed" /\ holds'[b][j].by = "worker"
                        /\ holds'[b][j].status = "committed" /\ holds'[b][j].by = "worker"
                             => j \in results'
                        /\ holds'[b][j].status = "refunded" /\ holds'[b][j].by = "worker"
                             => calls[j] = 0
      BY <1>0, <2>5 DEF ResultIffDebited
    <3>1. CASE b = a /\ j = k
      BY <1>0, <2>4, <3>1
    <3>2. CASE j # k
      BY <1>0, <2>4, <3>2 DEF ResultIffDebited
    <3>3. CASE b # a /\ j = k
      <4>1. a \in Holders(k)
        BY <2>4 DEF Holders
      <4>2. b \notin Holders(k) /\ holds'[b][k].status = "absent"
        BY <2>4, <3>3, <4>1 DEF HoldersInv, Holders
      <4> QED BY <3>3, <4>2
    <3> QED BY <3>1, <3>2, <3>3
  <2> QED BY <2>5, <2>6, <2>8, <2>9, <2>10, <2>11, <2>12
<1> QED BY <1>2, <1>3

-----------------------------------------------------------------------------
(***************************************************************************)
(* Time, the documents and the failure rows.                               *)
(***************************************************************************)

(* A hold grows older; its status stays.                                   *)
LEMMA GraceKeeps ==
  ASSUME IInv, NEW a \in Accounts, NEW k \in Keys, GraceEnds(a, k)
  PROVE  IInv'
<1> USE DEF IInv, FenceInv
<1>0. UNCHANGED <<input, results, available, failure, job, lock, calls, crashes>>
  BY DEF GraceEnds
<1>1. /\ holds' \in [Accounts -> [Keys -> Hold]]
      /\ \A b \in Accounts, j \in Keys :
           holds'[b][j].status = holds[b][j].status /\ holds'[b][j].by = holds[b][j].by
  <2> DEFINE row == [holds[a][k] EXCEPT !.recent = FALSE]
  <2>1. holds[a] \in [Keys -> Hold] /\ holds[a][k] \in Hold
    BY DEF RowsOK
  <2>2. row \in Hold /\ row.status = holds[a][k].status /\ row.by = holds[a][k].by
    BY <2>1 DEF Hold
  <2>3. holds' = [holds EXCEPT ![a] = [holds[a] EXCEPT ![k] = row]]
    BY DEF GraceEnds, RowsOK
  <2> HIDE DEF row
  <2> QED BY <2>1, <2>2, <2>3 DEF RowsOK
<1>2. /\ \A j \in Keys : Holders(j)' = Holders(j)
      /\ \A b \in Accounts : Charged(b)' = Charged(b)
  BY <1>1 DEF Holders, Charged
<1>3. \A v \in Workers : Fenced(v) => OwnHold(v)'.status = OwnHold(v).status
  BY <1>0, <1>1, JobType DEF Fenced, OwnHold, WorkersInv
<1>4. RowsOK'
  BY <1>0, <1>1 DEF RowsOK
<1>5. WorkersInv'
  BY <1>0 DEF WorkersInv
<1>6. HoldersInv'
  <2>1. \A v \in Workers : Fenced(v)' <=> Fenced(v)
    BY <1>0 DEF Fenced
  <2> QED BY <1>0, <1>2, <1>3, <2>1 DEF HoldersInv
<1>7. CallingInv'
  <2>1. \A v \in Workers : job[v].at = "calling" => job[v].key \in Keys
    BY DEF WorkersInv
  <2> QED BY <1>0, <1>2, <1>3, <2>1 DEF CallingInv, Fenced
<1>8. CallsInv'
  BY <1>0, <1>2 DEF CallsInv
<1>9. ResultIffDebited'
  BY <1>0, <1>1, <1>2 DEF ResultIffDebited
<1>10. UnitsInv' /\ NotOverdrawn'
  BY <1>0, <1>2 DEF UnitsInv, NotOverdrawn
<1> QED BY <1>4, <1>5, <1>6, <1>7, <1>8, <1>9, <1>10

(* Steps that touch neither the workers nor the ledger nor the results.    *)
LEMMA MinorKeeps ==
  ASSUME IInv, MinorOK, UNCHANGED <<results, available, holds, job, lock, calls>>
  PROVE  IInv'
<1> USE DEF IInv, FenceInv
<1>1. RowsOK'
  BY DEF RowsOK, MinorOK
<1>2. WorkersInv'
  BY DEF WorkersInv
<1>3. HoldersInv'
  BY DEF HoldersInv, Holders, Fenced, OwnHold
<1>4. CallingInv'
  BY DEF CallingInv, Holders, OwnHold
<1>5. CallsInv'
  BY DEF CallsInv, Holders
<1>6. ResultIffDebited'
  BY DEF ResultIffDebited, Holders
<1>7. UnitsInv' /\ NotOverdrawn'
  BY DEF UnitsInv, NotOverdrawn, Charged
<1> QED BY <1>1, <1>2, <1>3, <1>4, <1>5, <1>6, <1>7

-----------------------------------------------------------------------------
(***************************************************************************)
(* The theorems.                                                           *)
(***************************************************************************)

(* The initial state: nothing is held, called or stored.                   *)
LEMMA InitHolds == Init => IInv
<1> SUFFICES ASSUME Init PROVE IInv
  OBVIOUS
<1>1. NoHold \in Hold /\ NoHold.status = "absent"
  BY DEF NoHold, Hold
<1>2. Idle \in Job /\ Idle.at = "idle"
  BY DEF Idle, Job, Stages
<1>3. NoFailure \in Failure
  BY FenceAssumption DEF NoFailure, Failure
<1>4. /\ \A a \in Accounts, k \in Keys : holds[a][k] = NoHold
      /\ \A w \in Workers : job[w] = Idle
      /\ \A k \in Keys : calls[k] = 0
  BY DEF Init
<1>5. RowsOK
  <2>1. available \in [Accounts -> Int] /\ crashes \in 0..MaxCrashes
    BY FenceAssumption DEF Init
  <2> QED BY <1>1, <1>2, <1>3, <2>1 DEF Init, RowsOK
<1>6. /\ \A k \in Keys : Holders(k) = {}
      /\ \A a \in Accounts : Charged(a) = {}
  BY <1>1, <1>4 DEF Holders, Charged
<1>7. WorkersInv
  BY <1>2, <1>4, FenceAssumption DEF Init, WorkersInv
<1>8. HoldersInv /\ CallingInv /\ CallsInv
  BY <1>2, <1>4, <1>6 DEF HoldersInv, CallingInv, CallsInv, Fenced
<1>9. ResultIffDebited
  BY <1>1, <1>4, <1>6 DEF Init, ResultIffDebited
<1>10. UnitsInv /\ NotOverdrawn
  <2>1. ASSUME NEW a \in Accounts
        PROVE  /\ IsFiniteSet(Charged(a)) /\ Cardinality(Charged(a)) = 0
               /\ available[a] = Funding[a] /\ Funding[a] \in Nat
    BY <1>6, FS_EmptySet, FenceAssumption DEF Init
  <2> QED BY <2>1 DEF UnitsInv, NotOverdrawn
<1> QED BY <1>5, <1>7, <1>8, <1>9, <1>10 DEF IInv, FenceInv

(* Every step of a worker, an operator, the clock or the documents keeps   *)
(* the invariant.                                                          *)
LEMMA StepKeeps == IInv /\ [Next]_vars => IInv'
<1> SUFFICES ASSUME IInv, [Next]_vars PROVE IInv'
  OBVIOUS
<1>0. RowsOK
  BY DEF IInv
<1>1. ASSUME NEW w \in Workers, NEW policy \in Accounts \cup {None},
             \/ StartJob(w, policy) \/ SkipWork(w) \/ MeetPriorAttempt(w) \/ RefuseForBalance(w)
             \/ LoseReservation(w) \/ CallFails(w) \/ DatabaseFails(w) \/ CloseJob(w) \/ FailJob(w)
             \/ Crash(w)
      PROVE  IInv'
  <2>1. Leaves(w) /\ MinorOK /\ job' \in [Workers -> Job] /\ lock' \in Workers \cup {None}
    BY <1>1, LeavingSteps
  <2>2. FenceInv' /\ UnitsInv' /\ NotOverdrawn'
    BY <2>1, LeavesKeeps
  <2>3. RowsOK'
    BY <1>0, <2>1 DEF RowsOK, Leaves, MinorOK
  <2> QED BY <2>2, <2>3 DEF IInv
<1>2. ASSUME NEW w \in Workers, Step(w) PROVE IInv'
  <2>1. None \in Accounts \cup {None}
    OBVIOUS
  <2> QED BY <1>1, <1>2, <2>1, ReserveKeeps, CallKeeps, RefundKeeps, StoreKeeps DEF Step
<1>3. ASSUME NEW a \in Accounts, NEW k \in Keys,
             (\E status \in {"committed", "refunded"} : Resolve(a, k, status)) \/ GraceEnds(a, k)
      PROVE  IInv'
  BY <1>3, ResolveKeeps, GraceKeeps
<1>4. ASSUME NEW k \in Keys, RetryDeadLetter(k) \/ RetryFallsDue(k) PROVE IInv'
  <2>1. UNCHANGED <<input, results, available, holds, job, lock, calls, crashes>>
    BY <1>4 DEF RetryDeadLetter, RetryFallsDue
  <2>2. failure' \in [Keys -> Failure]
    <3>1. CASE RetryDeadLetter(k)
      BY <1>0, <3>1, FailureType DEF RetryDeadLetter
    <3>2. CASE RetryFallsDue(k)
      BY <1>0, <3>2 DEF RetryFallsDue, RowsOK, Failure
    <3> QED BY <1>4, <3>1, <3>2
  <2>3. MinorOK
    BY <1>0, <2>1, <2>2 DEF MinorOK, RowsOK
  <2> QED BY <2>1, <2>3, MinorKeeps
<1>5. ASSUME NEW k \in Keys \cup {None}, ChangeDocuments(k) PROVE IInv'
  <2>1. MinorOK
    BY <1>0, <1>5 DEF ChangeDocuments, MinorOK, RowsOK
  <2> QED BY <1>5, <2>1, MinorKeeps DEF ChangeDocuments
<1>6. CASE UNCHANGED vars
  <2>1. MinorOK
    BY <1>0, <1>6 DEF vars, MinorOK, RowsOK
  <2> QED BY <1>6, <2>1, MinorKeeps DEF vars
<1>7. ASSUME NEW w \in Workers, Crash(w) PROVE IInv'
  <2>1. None \in Accounts \cup {None}
    OBVIOUS
  <2> QED BY <1>1, <1>7, <2>1
<1> QED BY <1>1, <1>2, <1>3, <1>4, <1>5, <1>6, <1>7 DEF Next

(* The invariant holds throughout.                                         *)
LEMMA Invariant == Spec => []IInv
BY InitHolds, StepKeeps, PTL DEF Spec

(* The fence is global: for any number of workers, duplicate jobs, crashes, *)
(* settlements, changes of the documents and of the configured account, an *)
(* identity is reserved for at most once and, once it is, the provider is  *)
(* called for it at most once.                                             *)
THEOREM OneFencedCall == Spec => []AtMostOneFencedCall
<1>1. IInv => AtMostOneFencedCall
  <2> SUFFICES ASSUME IInv, NEW k \in Keys
               PROVE  Cardinality(Holders(k)) <= 1 /\ calls[k] <= 1
    BY DEF AtMostOneFencedCall
  <2>1. \A a, b \in Holders(k) : a = b
    BY DEF IInv, FenceInv, HoldersInv
  <2>2. Holders(k) = {} \/ \E a \in Holders(k) : Holders(k) = {a}
    BY <2>1
  <2>3. Cardinality(Holders(k)) \in {0, 1}
    BY <2>2, FS_EmptySet, FS_Singleton
  <2> QED BY <2>3 DEF IInv, FenceInv, CallsInv
<1> QED BY <1>1, Invariant, PTL

(* A billed call is covered by an open hold and by the version's row lock  *)
(* from its start to its end.                                              *)
THEOREM CallIsCovered == Spec => []ActiveCallIsCovered
<1>1. IInv => ActiveCallIsCovered
  BY DEF IInv, FenceInv, WorkersInv, CallingInv, ActiveCallIsCovered
<1> QED BY <1>1, Invariant, PTL

(* Result and debit are one: no result of a fenced identity without its    *)
(* debit, no debit by a worker without its result, and no refund by a      *)
(* worker after a call.                                                    *)
THEOREM ResultsArePaid == Spec => []ResultIffDebited
<1>1. IInv => ResultIffDebited
  BY DEF IInv, FenceInv
<1> QED BY <1>1, Invariant, PTL

(* Every row is well formed, no account is overdrawn, and an account       *)
(* misses exactly the units of its open and its committed holds.           *)
THEOREM UnitsConserved == Spec => []UnitsAreConserved
<1>1. IInv => UnitsAreConserved
  <2> SUFFICES ASSUME IInv PROVE UnitsAreConserved
    OBVIOUS
  <2>1. \A a \in Accounts : available[a] = Funding[a] - Cardinality(Charged(a))
    BY DEF IInv, UnitsInv
  <2>2. ASSUME NEW a \in Accounts PROVE available[a] \in 0..Funding[a]
    <3>1. Cardinality(Charged(a)) \in Nat /\ Funding[a] \in Nat /\ available[a] >= 0
      BY FS_CardinalityType, FenceAssumption DEF IInv, UnitsInv, NotOverdrawn
    <3> QED BY <2>1, <3>1
  <2>3. TypeOK
    BY <2>2 DEF IInv, RowsOK, TypeOK, Hold, Failure, Job
  <2> QED BY <2>1, <2>3 DEF UnitsAreConserved, Charged
<1> QED BY <1>1, Invariant, PTL

-----------------------------------------------------------------------------
(***************************************************************************)
(* The fence implements FencedCall.                                        *)
(***************************************************************************)

(* A billed call that is being made has been counted.                      *)
AskedInv ==
  \A w \in Workers : job[w].at = "calling" /\ job[w].policy # None => calls[job[w].key] = 1

(* What is seen of an identity: its holder's hold, or that it has none.    *)
SeenInv ==
  \A k \in Keys :
    /\ Holders(k) = {} =>
         CallOf(k) = [state |-> IF k \in results THEN "unbilled" ELSE "free", payer |-> None]
    /\ \A a \in Holders(k) : CallOf(k) = [state |-> Progress(a, k), payer |-> a]

LEMMA InvariantShowsCalls == IInv => SeenInv
<1> SUFFICES ASSUME IInv, NEW k \in Keys, NEW a \in Holders(k)
             PROVE  CallOf(k) = [state |-> Progress(a, k), payer |-> a]
  BY DEF SeenInv, CallOf
<1>1. \A b \in Holders(k) : b = a
  BY DEF IInv, FenceInv, HoldersInv
<1>2. (CHOOSE b \in Holders(k) : TRUE) = a
  BY <1>1
<1> QED BY <1>2 DEF CallOf

(* An identity whose rows, worker and calls do not change is seen as       *)
(* before; the calls and the worker count only once it is held.            *)
LEMMA UntouchedIsUnchanged ==
  ASSUME NEW k \in Keys,
         \A a \in Accounts : holds'[a][k].status = holds[a][k].status
                             /\ holds'[a][k].by = holds[a][k].by,
         k \in results' <=> k \in results,
         Holders(k) # {} => calls'[k] = calls[k] /\ (OnTheLine(k)' <=> OnTheLine(k))
  PROVE  CallOf(k)' = CallOf(k)
<1>1. Holders(k)' = Holders(k)
  BY DEF Holders
<1>2. ASSUME NEW a \in Holders(k) PROVE Progress(a, k)' = Progress(a, k)
  <2>1. a \in Accounts /\ calls'[k] = calls[k] /\ (OnTheLine(k)' <=> OnTheLine(k))
    BY DEF Holders
  <2>2. holds'[a][k].status = holds[a][k].status /\ holds'[a][k].by = holds[a][k].by
    BY <2>1
  <2> QED BY <2>1, <2>2 DEF Progress
<1>3. CASE Holders(k) = {}
  BY <1>1, <1>3 DEF CallOf
<1>4. CASE Holders(k) # {}
  <2>1. PICK a \in Holders(k) : a = CHOOSE b \in Holders(k) : TRUE
    BY <1>4
  <2>2. CallOf(k) = [state |-> Progress(a, k), payer |-> a]
    BY <1>4, <2>1 DEF CallOf
  <2>3. CallOf(k)' = [state |-> Progress(a, k)', payer |-> a]
    BY <1>1, <1>4, <2>1 DEF CallOf
  <2> QED BY <1>2, <2>1, <2>2, <2>3
<1> QED BY <1>3, <1>4

(* What is seen, as one function.                                          *)
Seen == [k \in Keys |-> CallOf(k)]

(* One identity moves on, all others are seen as before.                   *)
Moves(k, from, to) ==
  /\ CallOf(k).state \in from
  /\ CallOf(k)' = [state |-> to, payer |-> CallOf(k).payer]
  /\ \A j \in Keys \ {k} : CallOf(j)' = CallOf(j)

LEMMA MovesBecomes ==
  ASSUME SeenInv, NEW k \in Keys, NEW from, NEW to, Moves(k, from, to)
  PROVE  Fence!Becomes(k, from, to)
<1>1. Seen[k].state \in from
  BY DEF Moves, Seen
<1>2. CallOf(k) = [state |-> CallOf(k).state, payer |-> CallOf(k).payer]
  <2>1. CASE Holders(k) = {}
    <3> DEFINE s == IF k \in results THEN "unbilled" ELSE "free"
    <3>1. CallOf(k) = [state |-> s, payer |-> None]
      BY <2>1 DEF SeenInv
    <3> HIDE DEF s
    <3> QED BY <3>1
  <2>2. ASSUME NEW a \in Holders(k) PROVE CallOf(k) = [state |-> CallOf(k).state, payer |-> CallOf(k).payer]
    BY DEF SeenInv
  <2> QED BY <2>1, <2>2
<1>3. [CallOf(k) EXCEPT !.state = to] = [state |-> to, payer |-> CallOf(k).payer]
  BY <1>2
<1>4. Seen' = [Seen EXCEPT ![k] = [CallOf(k) EXCEPT !.state = to]]
  <2>1. Seen' = [j \in Keys |-> CallOf(j)']
    BY DEF Seen
  <2>2. \A j \in Keys : CallOf(j)' = IF j = k THEN [CallOf(k) EXCEPT !.state = to] ELSE CallOf(j)
    BY <1>3 DEF Moves
  <2> QED BY <2>1, <2>2 DEF Seen
<1>5. Seen' = [Seen EXCEPT ![k].state = to]
  BY <1>4 DEF Seen
<1> QED BY <1>1, <1>5 DEF Fence!Becomes, Seen

(* Nothing is seen of the step.                                            *)
Unseen == available' = available /\ \A k \in Keys : CallOf(k)' = CallOf(k)

LEMMA UnseenStutters ==
  ASSUME Unseen PROVE Seen' = Seen /\ available' = available
BY DEF Unseen, Seen

(* Only the worker that is on the line is.                                 *)
LEMMA LineFacts ==
  ASSUME IInv, NEW k \in Keys
  PROVE  /\ lock = None => ~ OnTheLine(k)
         /\ \A w \in Workers : job[w].at = "calling" => (OnTheLine(k) <=> job[w].key = k)
BY FenceAssumption DEF IInv, FenceInv, WorkersInv, OnTheLine, RowsOK

(* A step that leaves holds, results and calls alone and after which every *)
(* worker is where it was, or is not on the line, is seen at most as the   *)
(* end of a call without an answer.                                        *)
LEMMA LeavingIsSeen ==
  ASSUME IInv, AskedInv, SeenInv, SeenInv', NEW w \in Workers, Leaves(w)
  PROVE  Unseen \/ \E k \in Keys : Fence!GiveUp(k)
<1>0. /\ results' = results /\ available' = available /\ holds' = holds /\ calls' = calls
      /\ job'[w].at # "calling"
      /\ \A v \in Workers \ {w} : job'[v] = job[v]
  BY DEF Leaves, OnlyJob
<1>1. CASE job[w].at = "calling" /\ job[w].policy # None
  <2>1. PICK a \in Accounts, k \in Keys :
          /\ a = job[w].policy /\ k = job[w].key /\ holds[a][k].status = "reserved"
          /\ calls[k] = 1
    <3>1. job[w].policy \in Accounts /\ job[w].key \in Keys
      BY <1>1, JobType DEF IInv, FenceInv, WorkersInv
    <3> QED BY <1>1, <3>1 DEF AskedInv, IInv, FenceInv, CallingInv, OwnHold
  <2>2. a \in Holders(k) /\ a \in Holders(k)'
    BY <1>0, <2>1 DEF Holders
  <2>3. OnTheLine(k) /\ \A j \in Keys \ {k} : ~ OnTheLine(j)
    BY <1>1, <2>1, LineFacts
  <2>4. \A v \in Workers : job'[v].at # "calling"
    BY <1>0, <1>1, LockFacts DEF IInv, FenceInv, WorkersInv
  <2>5. \A j \in Keys : ~ OnTheLine(j)'
    BY <2>4 DEF OnTheLine
  <2>6. Progress(a, k) = "asking" /\ Progress(a, k)' = "uncertain"
    BY <1>0, <2>1, <2>3, <2>5 DEF Progress
  <2>7. CallOf(k) = [state |-> "asking", payer |-> a] /\ CallOf(k)' = [state |-> "uncertain", payer |-> a]
    BY <2>2, <2>6 DEF SeenInv
  <2>8. \A j \in Keys \ {k} : CallOf(j)' = CallOf(j)
    BY <1>0, <2>3, <2>5, UntouchedIsUnchanged
  <2>9. Moves(k, {"asking"}, "uncertain")
    BY <2>7, <2>8 DEF Moves
  <2> QED BY <1>0, <2>9, MovesBecomes DEF Fence!GiveUp, Fence!Keep
<1>2. CASE ~ (job[w].at = "calling" /\ job[w].policy # None)
  <2>1. ASSUME NEW k \in Keys PROVE CallOf(k)' = CallOf(k)
    <3>1. ASSUME Holders(k) # {} PROVE OnTheLine(k)' <=> OnTheLine(k)
      <4>1. job[w].at = "calling" => job[w].key # k
        BY <1>2, <3>1 DEF IInv, FenceInv, CallingInv
      <4> QED BY <1>0, <4>1 DEF OnTheLine
    <3> QED BY <1>0, <3>1, UntouchedIsUnchanged
  <2> QED BY <1>0, <2>1 DEF Unseen
<1> QED BY <1>1, <1>2

(* Units are taken for an identity nobody pays for.                        *)
LEMMA ReserveIsSeen ==
  ASSUME IInv, SeenInv, SeenInv', NEW w \in Workers, ReserveUnits(w)
  PROVE  \E k \in Keys, a \in Accounts : Fence!Take(k, a)
<1> DEFINE hold == [status |-> "reserved", recent |-> TRUE, by |-> None]
<1>0. PICK a \in Accounts, k \in Keys :
        /\ a = job[w].policy /\ k = job[w].key
        /\ job[w].at = "queued" /\ lock = None /\ k \notin results /\ Holders(k) = {}
        /\ available[a] >= 1
        /\ available' = [available EXCEPT ![a] = @ - 1]
        /\ holds' = [holds EXCEPT ![a] = [holds[a] EXCEPT ![k] = hold]]
        /\ Goto(w, "reserved")
        /\ UNCHANGED <<results, calls>>
  <2>1. job[w].policy \in Accounts /\ job[w].key \in Keys /\ job[w].at = "queued"
    BY JobType DEF ReserveUnits, Clear, AtFirstLock, WorkersInv, IInv, FenceInv
  <2> QED BY <2>1 DEF ReserveUnits, Clear, AtFirstLock, NothingToDo, PriorAttempts, Sufficient,
                      RowsOK, IInv
<1>1. /\ holds'[a][k] = hold
      /\ \A b \in Accounts, j \in Keys : j # k => holds'[b][j] = holds[b][j]
  <2>1. holds[a] \in [Keys -> Hold]
    BY DEF RowsOK, IInv
  <2> HIDE DEF hold
  <2> QED BY <1>0, <2>1 DEF RowsOK, IInv
<1>2. \A j \in Keys : ~ OnTheLine(j)
  BY <1>0, LineFacts
<1>3. \A j \in Keys : ~ OnTheLine(j)'
  <2>1. job'[w].at = "reserved" /\ \A v \in Workers \ {w} : job'[v] = job[v]
    BY <1>0, GotoFacts DEF Stages, IInv
  <2>2. \A v \in Workers : job[v].at # "calling"
    BY <1>0, FenceAssumption DEF IInv, FenceInv, WorkersInv, RowsOK
  <2> QED BY <2>1, <2>2 DEF OnTheLine
<1>4. calls[k] = 0
  BY <1>0 DEF IInv, FenceInv, CallsInv
<1>5. a \in Holders(k)' /\ Progress(a, k)' = "held"
  BY <1>0, <1>1, <1>3, <1>4 DEF Holders, Progress
<1>6. CallOf(k) = [state |-> "free", payer |-> None] /\ CallOf(k)' = [state |-> "held", payer |-> a]
  BY <1>0, <1>5 DEF SeenInv
<1>7. \A j \in Keys \ {k} : CallOf(j)' = CallOf(j)
  BY <1>0, <1>1, <1>2, <1>3, UntouchedIsUnchanged
<1>8. Seen' = [Seen EXCEPT ![k] = [state |-> "held", payer |-> a]]
  <2>1. Seen' = [j \in Keys |-> CallOf(j)']
    BY DEF Seen
  <2> QED BY <1>6, <1>7, <2>1 DEF Seen
<1>9. Seen[k].state = "free"
  BY <1>6 DEF Seen
<1> QED BY <1>0, <1>8, <1>9 DEF Fence!Take, Seen

(* A held identity is asked of the provider, once; an unbilled call is not *)
(* seen.                                                                   *)
LEMMA CallIsSeen ==
  ASSUME IInv, IInv', SeenInv, SeenInv', NEW w \in Workers, CallUnbilled(w) \/ CallProvider(w)
  PROVE  Unseen \/ \E k \in Keys : Fence!Ask(k)
<1>0. PICK k \in Keys :
        /\ k = job[w].key /\ lock = None
        /\ \/ job[w].at = "queued" /\ job[w].policy = None /\ Holders(k) = {}
           \/ job[w].at = "reserved" /\ job[w].policy # None /\ OwnHold(w).status = "reserved"
        /\ Goto(w, "calling") /\ CountCall(k)
        /\ UNCHANGED <<results, available, holds>>
  <2>1. CASE CallUnbilled(w)
    <3>1. job[w].key \in Keys /\ job[w].at = "queued"
      BY <2>1 DEF CallUnbilled, Clear, AtFirstLock, WorkersInv, IInv, FenceInv
    <3> QED BY <2>1, <3>1 DEF CallUnbilled, Clear, AtFirstLock, PriorAttempts
  <2>2. CASE CallProvider(w)
    <3>1. job[w].key \in Keys /\ job[w].at = "reserved" /\ job[w].policy # None
      BY <2>2 DEF CallProvider, AtSecondLock, WorkersInv, IInv, FenceInv
    <3> QED BY <2>2, <3>1 DEF CallProvider, AtSecondLock, OpenForCall
  <2> QED BY <2>1, <2>2
<1>1. /\ job'[w].at = "calling" /\ job'[w].key = k
      /\ \A j \in Keys \ {k} : calls'[j] = calls[j]
  BY <1>0, GotoFacts DEF Stages, CountCall, RowsOK, IInv
<1>2. /\ \A j \in Keys : ~ OnTheLine(j)
      /\ \A j \in Keys : OnTheLine(j)' <=> j = k
  <2>1. \A v \in Workers : job[v].at # "calling"
    BY <1>0, FenceAssumption DEF IInv, FenceInv, WorkersInv, RowsOK
  <2>2. \A v \in Workers \ {w} : job'[v] = job[v]
    BY <1>0, GotoFacts DEF Stages, IInv
  <2> QED BY <1>1, <2>1, <2>2 DEF OnTheLine
<1>3. \A j \in Keys \ {k} : CallOf(j)' = CallOf(j)
  BY <1>0, <1>1, <1>2, UntouchedIsUnchanged
<1>4. CASE Holders(k) = {}
  <2>1. CallOf(k)' = CallOf(k)
    BY <1>0, <1>4, UntouchedIsUnchanged
  <2> QED BY <1>0, <1>3, <2>1 DEF Unseen
<1>5. CASE Holders(k) # {}
  <2>1. PICK a \in Accounts : a = job[w].policy /\ holds[a][k].status = "reserved"
    BY <1>0, <1>5, JobType DEF OwnHold, IInv
  <2>2. a \in Holders(k) /\ a \in Holders(k)'
    BY <1>0, <2>1 DEF Holders
  <2>3. calls[k] = 0
    BY <1>0, <1>5 DEF IInv, FenceInv, CallsInv
  <2>4. Progress(a, k) = "held" /\ Progress(a, k)' = "asking"
    BY <1>0, <1>2, <2>1, <2>3 DEF Progress
  <2>5. CallOf(k) = [state |-> "held", payer |-> a] /\ CallOf(k)' = [state |-> "asking", payer |-> a]
    BY <2>2, <2>4 DEF SeenInv
  <2>6. Moves(k, {"held"}, "asking")
    BY <1>3, <2>5 DEF Moves
  <2> QED BY <1>0, <2>6, MovesBecomes DEF Fence!Ask, Fence!Keep
<1> QED BY <1>4, <1>5

(* A hold is settled by someone who is not on another call's line.         *)
LEMMA SettlementIsSeen ==
  ASSUME IInv, SeenInv, SeenInv', NEW a \in Accounts, NEW k \in Keys,
         NEW status \in {"committed", "refunded"}, NEW by \in {"worker", "operator"},
         Settle(a, k, status, by), calls' = calls, results' \ {k} = results \ {k},
         \A j \in Keys \ {k} : OnTheLine(j)' <=> OnTheLine(j)
  PROVE  /\ CallOf(k).payer = a
         /\ CallOf(k).state = IF OnTheLine(k) THEN "asking"
                              ELSE IF calls[k] = 0 THEN "held" ELSE "uncertain"
         /\ Moves(k, {CallOf(k).state},
                  IF status = "committed" THEN IF by = "worker" THEN "answered" ELSE "charged"
                  ELSE IF by = "worker" THEN "returned" ELSE "repaid")
         /\ IF status = "refunded" THEN Fence!GiveBack(k) ELSE Fence!Keep
<1>1. /\ holds[a][k].status = "reserved"
      /\ holds'[a][k].status = status /\ holds'[a][k].by = by
      /\ \A b \in Accounts, j \in Keys : b # a \/ j # k => holds'[b][j] = holds[b][j]
      /\ available' = IF status = "refunded" THEN [available EXCEPT ![a] = @ + 1] ELSE available
  BY SettleFacts DEF IInv
<1>2. a \in Holders(k) /\ a \in Holders(k)'
  BY <1>1 DEF Holders
<1> DEFINE from == IF OnTheLine(k) THEN "asking" ELSE IF calls[k] = 0 THEN "held" ELSE "uncertain"
           to   == IF status = "committed" THEN IF by = "worker" THEN "answered" ELSE "charged"
                   ELSE IF by = "worker" THEN "returned" ELSE "repaid"
<1>3. Progress(a, k) = from
  BY <1>1 DEF Progress
<1>4. Progress(a, k)' = to
  BY <1>1 DEF Progress
<1> HIDE DEF from, to
<1>5. CallOf(k) = [state |-> from, payer |-> a] /\ CallOf(k)' = [state |-> to, payer |-> a]
  BY <1>2, <1>3, <1>4 DEF SeenInv
<1>6. \A j \in Keys \ {k} : CallOf(j)' = CallOf(j)
  BY <1>1, UntouchedIsUnchanged
<1>7. Moves(k, {CallOf(k).state}, to)
  BY <1>5, <1>6 DEF Moves
<1>8. IF status = "refunded" THEN Fence!GiveBack(k) ELSE Fence!Keep
  <2>1. Seen[k].payer = a
    BY <1>5 DEF Seen
  <2> QED BY <1>1, <2>1 DEF Fence!GiveBack, Fence!Keep, Seen
<1> QED BY <1>5, <1>7, <1>8 DEF from, to


(* The settlements of the workers and the operators.                       *)
LEMMA RefundIsSeen ==
  ASSUME IInv, SeenInv, SeenInv', NEW w \in Workers, RefundUnused(w)
  PROVE  \E k \in Keys : Fence!Return(k)
<1>1. PICK a \in Accounts, k \in Keys :
        /\ job[w].at = "reserved" /\ lock = None /\ a = job[w].policy /\ k = job[w].key
        /\ Settle(a, k, "refunded", "worker") /\ Goto(w, "closing")
        /\ UNCHANGED <<results, calls>>
  <2>1. job[w].policy \in Accounts /\ job[w].key \in Keys /\ job[w].at = "reserved"
    BY JobType DEF RefundUnused, AtSecondLock, WorkersInv, IInv, FenceInv
  <2> QED BY <2>1 DEF RefundUnused, AtSecondLock
<1>2. \A j \in Keys : ~ OnTheLine(j) /\ ~ OnTheLine(j)'
  <2>1. \A v \in Workers : job[v].at # "calling"
    BY <1>1, FenceAssumption DEF IInv, FenceInv, WorkersInv, RowsOK
  <2>2. job'[w].at = "closing" /\ \A v \in Workers \ {w} : job'[v] = job[v]
    BY <1>1, GotoFacts DEF Stages, IInv
  <2> QED BY <2>1, <2>2 DEF OnTheLine
<1>3. calls[k] = 0
  BY <1>1 DEF IInv, FenceInv, CallsInv
<1>4. /\ CallOf(k).state = "held" /\ Fence!GiveBack(k)
      /\ Moves(k, {CallOf(k).state}, "returned")
  BY <1>1, <1>2, <1>3, SettlementIsSeen
<1> QED BY <1>4, MovesBecomes DEF Fence!Return

LEMMA StoreIsSeen ==
  ASSUME IInv, SeenInv, SeenInv', NEW w \in Workers, StoreResult(w)
  PROVE  \E k \in Keys : Fence!Answer(k) \/ Fence!AnswerUnbilled(k)
<1>1. PICK k \in Keys :
        /\ job[w].at = "calling" /\ k = job[w].key
        /\ results' = results \cup {k} /\ calls' = calls
  BY DEF StoreResult, WorkersInv, IInv, FenceInv
<1>2. /\ \A v \in Workers : job[v].at = "calling" => v = w
      /\ job'[w].at # "calling" /\ \A v \in Workers \ {w} : job'[v] = job[v]
  <2>1. \A v \in Workers : job[v].at = "calling" => v = w
    BY <1>1 DEF IInv, FenceInv, WorkersInv
  <2>2. Finish(w) \/ Goto(w, "closing")
    BY DEF StoreResult
  <2> QED BY <2>1, <2>2, GotoFacts, FinishFacts DEF Stages, IInv
<1>3. /\ OnTheLine(k) /\ \A j \in Keys \ {k} : ~ OnTheLine(j)
      /\ \A j \in Keys : ~ OnTheLine(j)'
  BY <1>1, <1>2 DEF OnTheLine
<1>4. CASE job[w].policy = None
  <2>1. /\ Holders(k) = {} /\ k \notin results /\ holds' = holds /\ available' = available
    BY <1>1, <1>4 DEF StoreResult, IInv, FenceInv, CallingInv
  <2>2. Holders(k)' = {} /\ k \in results'
    BY <1>1, <2>1 DEF Holders
  <2>3. CallOf(k) = [state |-> "free", payer |-> None]
        /\ CallOf(k)' = [state |-> "unbilled", payer |-> None]
    BY <2>1, <2>2 DEF SeenInv
  <2>4. \A j \in Keys \ {k} : CallOf(j)' = CallOf(j)
    BY <1>1, <1>3, <2>1, UntouchedIsUnchanged
  <2>5. Moves(k, {"free"}, "unbilled")
    BY <2>3, <2>4 DEF Moves
  <2> QED BY <2>1, <2>5, MovesBecomes DEF Fence!AnswerUnbilled, Fence!Keep
<1>5. CASE job[w].policy # None
  <2>1. PICK a \in Accounts : a = job[w].policy /\ Settle(a, k, "committed", "worker")
    BY <1>1, <1>5, JobType DEF StoreResult, IInv
  <2>2. /\ CallOf(k).state = "asking" /\ Fence!Keep
        /\ Moves(k, {CallOf(k).state}, "answered")
    BY <1>1, <1>3, <2>1, SettlementIsSeen
  <2> QED BY <2>2, MovesBecomes DEF Fence!Answer
<1> QED BY <1>4, <1>5

LEMMA ResolveIsSeen ==
  ASSUME IInv, SeenInv, SeenInv', NEW a \in Accounts, NEW k \in Keys,
         NEW status \in {"committed", "refunded"}, Resolve(a, k, status)
  PROVE  Fence!Charge(k) \/ Fence!Repay(k)
<1>1. /\ lock = None /\ Settle(a, k, status, "operator")
      /\ UNCHANGED <<results, job, calls>>
  BY DEF Resolve, VersionFree
<1>2. \A j \in Keys : ~ OnTheLine(j) /\ ~ OnTheLine(j)'
  BY <1>1, LineFacts DEF OnTheLine
<1>3. /\ CallOf(k).state \in {"held", "uncertain"}
      /\ Moves(k, {CallOf(k).state}, IF status = "committed" THEN "charged" ELSE "repaid")
      /\ IF status = "refunded" THEN Fence!GiveBack(k) ELSE Fence!Keep
  BY <1>1, <1>2, SettlementIsSeen
<1>4. Moves(k, {"held", "uncertain"}, IF status = "committed" THEN "charged" ELSE "repaid")
  BY <1>3 DEF Moves
<1>5. CASE status = "committed"
  BY <1>3, <1>4, <1>5, MovesBecomes DEF Fence!Charge
<1>6. CASE status = "refunded"
  BY <1>3, <1>4, <1>6, MovesBecomes DEF Fence!Repay
<1> QED BY <1>5, <1>6

(* Time, operators' retries and changing documents are not seen.           *)
LEMMA MinorIsUnseen ==
  ASSUME IInv, UNCHANGED <<results, available, job, calls>>,
         \A a \in Accounts, k \in Keys :
           holds'[a][k].status = holds[a][k].status /\ holds'[a][k].by = holds[a][k].by
  PROVE  Unseen
<1>1. \A k \in Keys : OnTheLine(k)' <=> OnTheLine(k)
  BY DEF OnTheLine
<1> QED BY <1>1, UntouchedIsUnchanged DEF Unseen

(* A call that is being made was counted, from its start to its end.       *)
LEMMA AskedKeeps ==
  ASSUME IInv, AskedInv, IInv', [Next]_vars
  PROVE  AskedInv'
<1> SUFFICES ASSUME NEW v \in Workers, job'[v].at = "calling", job'[v].policy # None
             PROVE  calls'[job'[v].key] = 1
  BY DEF AskedInv
<1>0. /\ RowsOK /\ WorkersInv
      /\ None \in Accounts \cup {None}
  BY DEF IInv, FenceInv
<1>1. ASSUME job[v].at = "calling", job'[v] = job[v], calls' = calls PROVE calls'[job'[v].key] = 1
  BY <1>1 DEF AskedInv
<1>2. ASSUME NEW w \in Workers, Leaves(w) PROVE calls'[job'[v].key] = 1
  BY <1>1, <1>2 DEF Leaves, OnlyJob
<1>3. ASSUME NEW w \in Workers, CallUnbilled(w) \/ CallProvider(w)
      PROVE  calls'[job'[v].key] = 1
  <2>1. /\ job[w].key \in Keys /\ lock = None /\ lock' = w /\ Goto(w, "calling")
        /\ CountCall(job[w].key)
        /\ job[w].policy # None => job[w].at = "reserved" /\ OwnHold(w).status = "reserved"
    <3>1. CASE CallUnbilled(w)
      BY <1>0, <3>1 DEF CallUnbilled, Clear, AtFirstLock, WorkersInv
    <3>2. CASE CallProvider(w)
      BY <1>0, <3>2 DEF CallProvider, AtSecondLock, OpenForCall, WorkersInv
    <3> QED BY <1>3, <3>1, <3>2
  <2>2. v = w
    BY <1>0, <2>1 DEF IInv, FenceInv, WorkersInv
  <2>3. job'[v].key = job[v].key /\ job'[v].policy = job[v].policy
    BY <1>0, <2>1, <2>2, GotoFacts DEF Stages
  <2>4. job[v].policy \in Accounts /\ job[v].policy \in Holders(job[v].key)
    BY <1>0, <2>1, <2>2, <2>3, JobType DEF Holders, OwnHold
  <2>5. calls[job[v].key] = 0
    BY <1>0, <2>1, <2>2, <2>3 DEF IInv, FenceInv, CallsInv
  <2>6. Holders(job[v].key) # {} /\ calls \in [Keys -> Nat] /\ job[v].key \in Keys
    BY <1>0, <2>1, <2>2, <2>4 DEF RowsOK
  <2>7. calls' = [calls EXCEPT ![job[v].key] = calls[job[v].key] + 1]
    BY <2>1, <2>2, <2>6 DEF CountCall
  <2> QED BY <2>3, <2>5, <2>6, <2>7
<1>4. ASSUME NEW w \in Workers, ReserveUnits(w) \/ RefundUnused(w) \/ StoreResult(w)
      PROVE  calls'[job'[v].key] = 1
  <2>1. PICK stage \in {"reserved", "closing", "idle"} :
          IF stage = "idle" THEN Finish(w) ELSE Goto(w, stage)
    BY <1>4 DEF ReserveUnits, RefundUnused, StoreResult
  <2>2. job'[w].at = stage /\ \A u \in Workers \ {w} : job'[u] = job[u]
    BY <1>0, <2>1, GotoFacts, FinishFacts DEF Stages
  <2>3. v # w /\ job'[v] = job[v] /\ calls' = calls
    BY <1>4, <2>2 DEF ReserveUnits, RefundUnused, StoreResult
  <2> QED BY <1>1, <2>3
<1>5. ASSUME NEW w \in Workers, NEW policy \in Accounts \cup {None},
             StartJob(w, policy) \/ Step(w) \/ Crash(w)
      PROVE  calls'[job'[v].key] = 1
  BY <1>2, <1>3, <1>4, <1>5, LeavingSteps DEF Step
<1>6. ASSUME job' = job, calls' = calls PROVE calls'[job'[v].key] = 1
  BY <1>1, <1>6
<1>7. ASSUME NEW a \in Accounts, NEW k \in Keys,
             (\E status \in {"committed", "refunded"} : Resolve(a, k, status)) \/ GraceEnds(a, k)
      PROVE  calls'[job'[v].key] = 1
  BY <1>6, <1>7 DEF Resolve, GraceEnds
<1>8. ASSUME NEW k \in Keys, RetryDeadLetter(k) \/ RetryFallsDue(k)
      PROVE  calls'[job'[v].key] = 1
  BY <1>6, <1>8 DEF RetryDeadLetter, RetryFallsDue
<1>9. ASSUME NEW k \in Keys \cup {None}, ChangeDocuments(k) PROVE calls'[job'[v].key] = 1
  BY <1>6, <1>9 DEF ChangeDocuments
<1>10. CASE UNCHANGED vars
  BY <1>6, <1>10 DEF vars
<1> QED BY <1>0, <1>5, <1>7, <1>8, <1>9, <1>10 DEF Next

(* Every step of the workers, the operators, the clock and the documents   *)
(* is a step of FencedCall, or is not seen there.                          *)
LEMMA StepIsSeen ==
  ASSUME IInv, IInv', AskedInv, SeenInv, SeenInv', [Next]_vars
  PROVE  Fence!Next \/ Unseen
<1>1. ASSUME NEW w \in Workers, NEW policy \in Accounts \cup {None},
             \/ StartJob(w, policy) \/ SkipWork(w) \/ MeetPriorAttempt(w) \/ RefuseForBalance(w)
             \/ LoseReservation(w) \/ CallFails(w) \/ DatabaseFails(w) \/ CloseJob(w) \/ FailJob(w)
             \/ Crash(w)
      PROVE  Fence!Next \/ Unseen
  <2>1. Leaves(w)
    BY <1>1, LeavingSteps
  <2> QED BY <2>1, LeavingIsSeen DEF Fence!Next
<1>2. ASSUME NEW w \in Workers, Step(w) \/ Crash(w) PROVE Fence!Next \/ Unseen
  <2>1. None \in Accounts \cup {None}
    OBVIOUS
  <2>2. CASE ReserveUnits(w)
    BY <2>2, ReserveIsSeen DEF Fence!Next
  <2>3. CASE CallUnbilled(w) \/ CallProvider(w)
    BY <2>3, CallIsSeen DEF Fence!Next
  <2>4. CASE RefundUnused(w)
    BY <2>4, RefundIsSeen DEF Fence!Next
  <2>5. CASE StoreResult(w)
    BY <2>5, StoreIsSeen DEF Fence!Next
  <2> QED BY <1>1, <1>2, <2>1, <2>2, <2>3, <2>4, <2>5 DEF Step
<1>3. ASSUME NEW a \in Accounts, NEW k \in Keys, NEW status \in {"committed", "refunded"},
             Resolve(a, k, status)
      PROVE  Fence!Next \/ Unseen
  BY <1>3, ResolveIsSeen DEF Fence!Next
<1>4. ASSUME NEW a \in Accounts, NEW k \in Keys, GraceEnds(a, k) PROVE Unseen
  <2>1. \A b \in Accounts, j \in Keys :
          holds'[b][j].status = holds[b][j].status /\ holds'[b][j].by = holds[b][j].by
    <3> DEFINE row == [holds[a][k] EXCEPT !.recent = FALSE]
    <3>1. holds[a] \in [Keys -> Hold] /\ holds[a][k] \in Hold
      BY DEF RowsOK, IInv
    <3>2. row.status = holds[a][k].status /\ row.by = holds[a][k].by
      BY <3>1 DEF Hold
    <3>3. holds' = [holds EXCEPT ![a] = [holds[a] EXCEPT ![k] = row]]
      BY <1>4 DEF GraceEnds, RowsOK, IInv
    <3> HIDE DEF row
    <3> QED BY <3>1, <3>2, <3>3 DEF RowsOK, IInv
  <2> QED BY <1>4, <2>1, MinorIsUnseen DEF GraceEnds
<1>5. ASSUME UNCHANGED <<results, available, holds, job, calls>> PROVE Unseen
  BY <1>5, MinorIsUnseen
<1>6. ASSUME NEW k \in Keys, RetryDeadLetter(k) \/ RetryFallsDue(k) PROVE Unseen
  BY <1>5, <1>6 DEF RetryDeadLetter, RetryFallsDue
<1>7. ASSUME NEW k \in Keys \cup {None}, ChangeDocuments(k) PROVE Unseen
  BY <1>5, <1>7 DEF ChangeDocuments
<1>8. CASE UNCHANGED vars
  BY <1>5, <1>8 DEF vars
<1> QED BY <1>1, <1>2, <1>3, <1>4, <1>6, <1>7, <1>8 DEF Next

(* Seen through the holds, the results and the balances, any number of     *)
(* workers with their locks, jobs, crashes and retries behaves as          *)
(* FencedCall: each identity's one paid call goes from held to asked to    *)
(* answered, and a unit is returned only to an identity that was never     *)
(* asked or by an operator.                                                *)
THEOREM FenceImplementsFencedCall == Spec => ImplementsFencedCall
<1>1. Init => Fence!Init
  <2> SUFFICES ASSUME Init PROVE available = Funding /\ Seen = [k \in Keys |-> Fence!Uncalled]
    BY DEF Fence!Init, Seen
  <2>1. ASSUME NEW k \in Keys PROVE CallOf(k) = [state |-> "free", payer |-> None]
    <3>1. Holders(k) = {}
      BY DEF Init, Holders, NoHold
    <3> QED BY <3>1 DEF CallOf, Init
  <2> QED BY <2>1 DEF Init, Seen, Fence!Uncalled
<1>2. Init => AskedInv
  BY DEF Init, AskedInv, Idle
<1>3. IInv /\ AskedInv /\ IInv' /\ [Next]_vars => AskedInv'
  BY AskedKeeps
<1>4. IInv /\ IInv' /\ AskedInv /\ SeenInv /\ SeenInv' /\ [Next]_vars
        => [Fence!Next]_<<available, Seen>>
  BY StepIsSeen, UnseenStutters
<1>5. [Fence!Next]_<<available, Seen>> => [Fence!Next]_<<available, [k \in Keys |-> CallOf(k)]>>
  BY DEF Seen
<1> QED BY <1>1, <1>2, <1>3, <1>4, <1>5, Invariant, InvariantShowsCalls, PTL
     DEF Spec, ImplementsFencedCall, Fence!Spec

-----------------------------------------------------------------------------
(***************************************************************************)
(* What the stored answer of the extractor says (ExtractionClaims), for    *)
(* every text of finitely many lines and every answer.                     *)
(***************************************************************************)

(* What a text says of a field is finitely much.                           *)
LEMMA ObservedIsFinite ==
  ASSUME NEW bundle, NEW f, IsFiniteSet(TextOf(bundle))
  PROVE  IsFiniteSet(Observed(bundle, f))
<1> DEFINE T == {t \in TextOf(bundle) : Speaks(t, f)}
           reading == [s \in T |-> Says(s)[f]]
<1>1. IsFiniteSet(T)
  BY FS_Subset
<1>2. Observed(bundle, f) = {Says(s)[f] : s \in T}
  BY DEF Observed, TextOf
<1>3. reading \in Surjection(T, Observed(bundle, f))
  BY <1>2 DEF Surjection
<1> QED
  BY <1>1, <1>3, FS_Surjection

(* A requirement that is only qualified binds nobody; titles, amounts and  *)
(* times never are.                                                        *)
LEMMA OnlyRegionsAreQualified ==
  ASSUME NEW bundle
  PROVE  /\ Qualified(bundle) \subseteq {"regions"}
         /\ \A s \in TextOf(bundle) : \A f : Qualifies(s, f) => f \in Qualified(bundle)
BY DEF Qualified, Qualifies, Fields, TextOf

(* What a line says is observed.                                           *)
LEMMA ObservedByLines ==
  ASSUME NEW bundle, NEW f, NEW s \in TextOf(bundle), Speaks(s, f)
  PROVE  Says(s)[f] \in Observed(bundle, f)
BY DEF Observed, TextOf

(* A field the text speaks of and does not qualify has one value.          *)
LEMMA BindingIsUnique ==
  ASSUME NEW claims, NEW evidence, NEW bundle, IsFiniteSet(TextOf(bundle)),
         Accepted(claims, evidence, bundle), NEW f \in Binding(claims, bundle)
  PROVE  \E v : Observed(bundle, f) = {v}
<1>1. Cardinality(Observed(bundle, f)) = 1
  BY DEF Accepted
<1> QED
  BY <1>1, ObservedIsFinite, FS_Singleton

(* validate_extraction: whatever an extractor answers, with whatever       *)
(* quotes: an accepted claim is stated in the text, no line of it says     *)
(* otherwise or qualifies it, and whatever the text says without           *)
(* qualification, claimed or not, contradicts nothing else in it.          *)
THEOREM AcceptedIsGrounded ==
  ASSUME NEW claims, NEW evidence, NEW bundle, IsFiniteSet(TextOf(bundle)),
         Accepted(claims, evidence, bundle)
  PROVE  /\ \A f \in DOMAIN claims :
              /\ \E s \in TextOf(bundle) : Speaks(s, f)
              /\ \A s \in TextOf(bundle) :
                   ~ Qualifies(s, f) /\ (Speaks(s, f) => Says(s)[f] = claims[f])
         /\ \A f \in Fields \ Qualified(bundle), s, t \in TextOf(bundle) :
              Speaks(s, f) /\ Speaks(t, f) => Says(s)[f] = Says(t)[f]
         /\ \A s, t \in TextOf(bundle) :
              Speaks(s, "published") /\ Speaks(t, "closes") =>
                Says(s)["published"][1] <= Says(t)["closes"][1]
<1>1. ASSUME NEW f \in DOMAIN claims
      PROVE  \E s \in TextOf(bundle) : Speaks(s, f)
  BY DEF Accepted, Supported, TextOf
<1>2. ASSUME NEW f \in DOMAIN claims, NEW s \in TextOf(bundle)
      PROVE  ~ Qualifies(s, f) /\ (Speaks(s, f) => Says(s)[f] = claims[f])
  <2>1. f \notin Qualified(bundle) /\ Observed(bundle, f) \subseteq {claims[f]}
    BY DEF Accepted
  <2> QED
    BY <2>1, OnlyRegionsAreQualified, ObservedByLines
<1>3. ASSUME NEW f \in Fields \ Qualified(bundle),
             NEW s \in TextOf(bundle), NEW t \in TextOf(bundle),
             Speaks(s, f), Speaks(t, f)
      PROVE  f \in Binding(claims, bundle) /\ Says(s)[f] = Says(t)[f]
                /\ Observed(bundle, f) = {Says(s)[f]}
  <2>1. Says(s)[f] \in Observed(bundle, f) /\ Says(t)[f] \in Observed(bundle, f)
    BY <1>3, ObservedByLines
  <2>2. f \in Binding(claims, bundle)
    BY <2>1 DEF Binding
  <2> QED
    BY <2>1, <2>2, BindingIsUnique
<1>4. ASSUME NEW s \in TextOf(bundle), NEW t \in TextOf(bundle),
             Speaks(s, "published"), Speaks(t, "closes")
      PROVE  Says(s)["published"][1] <= Says(t)["closes"][1]
  <2> DEFINE known == Overlaid(claims, bundle)
  <2>1. "published" \notin Qualified(bundle) /\ "closes" \notin Qualified(bundle)
    BY OnlyRegionsAreQualified
  <2>2. /\ "published" \in Binding(claims, bundle)
        /\ Observed(bundle, "published") = {Says(s)["published"]}
    BY <2>1, <1>3, <1>4 DEF Fields
  <2>3. /\ "closes" \in Binding(claims, bundle)
        /\ Observed(bundle, "closes") = {Says(t)["closes"]}
    BY <2>1, <1>3, <1>4 DEF Fields
  <2>4. /\ {"published", "closes"} \subseteq DOMAIN known
        /\ known["published"] = Says(s)["published"]
        /\ known["closes"] = Says(t)["closes"]
    BY <2>2, <2>3 DEF Overlaid
  <2>5. Coherent(known)
    BY DEF Accepted
  <2> HIDE DEF known
  <2> QED
    BY <2>4, <2>5 DEF Coherent
<1> QED
  BY <1>1, <1>2, <1>3, <1>4

(* trusted_extraction_view: beside any upstream record the others see a    *)
(* whole budget or none, and nothing upstream denies.                      *)
THEOREM ViewsAreWholeAndUncontested ==
  ASSUME NEW claims, NEW upstream, Coherent(claims)
  PROVE  LET view == TrustedView(claims, upstream)
         IN  /\ "amount" \in DOMAIN view <=> "currency" \in DOMAIN view
             /\ \A f \in DOMAIN upstream \cap DOMAIN view : Equivalent(f, upstream[f], view[f])
             /\ \A f \in DOMAIN view : view[f] = claims[f]
<1> DEFINE own == {f \in DOMAIN claims \cap DOMAIN upstream :
                      ~ Equivalent(f, upstream[f], claims[f])}
<1>1. Conflicts(claims, upstream) = IF own \cap BudgetFields = {} THEN own ELSE own \cup BudgetFields
  BY DEF Conflicts
<1>2. "amount" \in DOMAIN claims <=> "currency" \in DOMAIN claims
  BY DEF Coherent
<1> QED
  BY <1>1, <1>2 DEF TrustedView, BudgetFields

(* docs/EXTRACTION.md, the property of the rules as the runs check it, for *)
(* every set of texts of finitely many lines, of answers to them and of    *)
(* upstream records: what validate_extraction lets through is grounded,    *)
(* and what trusted_extraction_view shows of it is whole and uncontested.  *)
THEOREM AnswersAreGrounded == texts \subseteq Texts => AcceptedMeansGrounded
<1> SUFFICES ASSUME NEW bundle \in Texts, NEW answer \in AnswersTo(bundle),
                    NEW claims, claims = [f \in DOMAIN answer |-> answer[f].value],
                    NEW evidence, evidence = [f \in DOMAIN answer |-> answer[f].evidence],
                    Accepted(claims, evidence, bundle)
             PROVE  /\ \A f \in DOMAIN claims :
                         /\ \E s \in TextOf(bundle) : Speaks(s, f)
                         /\ \A s \in TextOf(bundle) :
                              ~ Qualifies(s, f) /\ (Speaks(s, f) => Says(s)[f] = claims[f])
                    /\ \A f \in Fields \ Qualified(bundle), s, t \in TextOf(bundle) :
                         Speaks(s, f) /\ Speaks(t, f) => Says(s)[f] = Says(t)[f]
                    /\ \A s, t \in TextOf(bundle) :
                         Speaks(s, "published") /\ Speaks(t, "closes") =>
                           Says(s)["published"][1] <= Says(t)["closes"][1]
                    /\ \A upstream \in UpstreamRecords :
                         LET view == TrustedView(claims, upstream)
                         IN  /\ "amount" \in DOMAIN view <=> "currency" \in DOMAIN view
                             /\ \A f \in DOMAIN upstream \cap DOMAIN view :
                                  Equivalent(f, upstream[f], view[f])
  BY Zenon DEF AcceptedMeansGrounded
<1>1. Coherent(claims)
  BY DEF Accepted
<1>2. IsFiniteSet(TextOf(bundle))
  BY TextsAssumption
<1>3. /\ \A f \in DOMAIN claims :
           /\ \E s \in TextOf(bundle) : Speaks(s, f)
           /\ \A s \in TextOf(bundle) :
                ~ Qualifies(s, f) /\ (Speaks(s, f) => Says(s)[f] = claims[f])
      /\ \A f \in Fields \ Qualified(bundle), s, t \in TextOf(bundle) :
           Speaks(s, f) /\ Speaks(t, f) => Says(s)[f] = Says(t)[f]
      /\ \A s, t \in TextOf(bundle) :
           Speaks(s, "published") /\ Speaks(t, "closes") =>
             Says(s)["published"][1] <= Says(t)["closes"][1]
  BY <1>2, AcceptedIsGrounded
<1>4. ASSUME NEW upstream \in UpstreamRecords
      PROVE  LET view == TrustedView(claims, upstream)
             IN  /\ "amount" \in DOMAIN view <=> "currency" \in DOMAIN view
                 /\ \A f \in DOMAIN upstream \cap DOMAIN view : Equivalent(f, upstream[f], view[f])
  BY <1>1, ViewsAreWholeAndUncontested
<1> QED
  BY <1>3, <1>4, Zenon

=============================================================================
