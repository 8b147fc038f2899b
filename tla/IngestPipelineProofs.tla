------------------------ MODULE IngestPipelineProofs ------------------------
(***************************************************************************)
(* Theorems about raw ingestion and normalisation, for every listing of    *)
(* the source, every set of malformed and offered records, any number of   *)
(* pollers, every size of the batch, and any number of troubles; and below *)
(* it about where the pages come from: the walk of the KONEPS cursor       *)
(* through its windows, for every length of them, and the pauses that an   *)
(* upstream asks for.                                                      *)
(***************************************************************************)
EXTENDS IngestPipeline, KonepsCursor, RetryAfter, FiniteSetTheorems, WellFoundedInduction, TLAPS

-----------------------------------------------------------------------------
(***************************************************************************)
(* The inductive invariant.                                                *)
(***************************************************************************)

(* Whoever polls has the advisory lock, and the cursor is the one it has   *)
(* started from or, once its page is committed, the next.                  *)
PollInv ==
  \A p \in Pollers : job[p] # Idle =>
    /\ polling = p
    /\ job[p].at = "discover" => cursor = job[p].before
    /\ cursor \in {job[p].before, job[p].before + 1}

(* A process that is beyond the choice of its record has one.              *)
RecordsInv ==
  \A j \in Jobs : job[j].at \in {"store", "attempt", "done", "failing"} => job[j].record \in Records

PassedIsStored == \A n \in 1..cursor : \A r \in Pages[n] : raws[r] # "absent"

(* A failure row that an operator sees.                                    *)
Shown(row) == row.attempts > 0 \/ row.dead \/ row.retry # "none"

(* A failed record is shown; and by its normalisation when its ingest_job  *)
(* has done its work, and is about to clear the other row.                 *)
FailedIsListed ==
  /\ \A r \in Records : raws[r] = "failed" => Shown(normals[r]) \/ Shown(ingests[r])
  /\ job[Ingester].at = "done" /\ raws[job[Ingester].record] = "failed" =>
       Shown(normals[job[Ingester].record])

IInv == TypeOK /\ PollInv /\ RecordsInv /\ PassedIsStored /\ FailedIsListed

-----------------------------------------------------------------------------
(***************************************************************************)
(* What the operators of the model return.                                 *)
(***************************************************************************)

(* The records are the natural numbers of the pages.                       *)
LEMMA RecordFacts ==
  /\ Len(Pages) \in Nat /\ DOMAIN Pages = 1..Len(Pages)
  /\ Records \subseteq Nat
  /\ \A n \in 1..Len(Pages) : Pages[n] \subseteq Records
BY PipelineAssumption DEF Records

(* Neither a process nor a record is the absent one.                       *)
LEMMA NoneFacts ==
  /\ None \notin Records /\ None \notin Jobs
  /\ Recoverer \in Jobs /\ Ingester \in Jobs /\ Pollers \subseteq Jobs
  /\ Recoverer # Ingester /\ Recoverer \notin Pollers /\ Ingester \notin Pollers
BY PipelineAssumption DEF Jobs

(* A batch goes on with the least of its records, which is one of them.    *)
LEMMA LeastIsMember ==
  ASSUME NEW S \in SUBSET Nat, S # {}
  PROVE  Min(S) \in S
<1>1. PICK x \in S : \A y \in S : <<y, x>> \notin OpToRel(<, Nat)
  BY NatLessThanWellFounded, WFMin
<1>2. ASSUME NEW y \in S PROVE ~ (y < x)
  <2>1. <<y, x>> \in Nat \X Nat /\ <<y, x>>[1] = y /\ <<y, x>>[2] = x
    OBVIOUS
  <2> QED BY <1>1, <2>1, Zenon DEF OpToRel
<1>3. \A y \in S : x <= y
  BY <1>2
<1> QED BY <1>3 DEF Min

(* The rows that a failure, a success, the clock and an operator leave.    *)
LEMMA RowFacts ==
  /\ Clear \in Rows
  /\ \A row \in Rows, transient, named \in BOOLEAN :
       LET failed == Failed(row, transient, named)
       IN  failed \in Rows /\ failed.attempts > 0 /\ Shown(failed)
  /\ \A row \in Rows :
       /\ Reset(row) \in Rows
       /\ Due(row) \in Rows /\ (Shown(row) => Shown(Due(row)))
       /\ Retried(row) \in Rows /\ Shown(Retried(row))
<1> USE PipelineAssumption
<1>1. Clear \in Rows
  BY DEF Clear, Rows
<1>2. ASSUME NEW row \in Rows, NEW transient \in BOOLEAN, NEW named \in BOOLEAN
      PROVE  LET failed == Failed(row, transient, named)
             IN  failed \in Rows /\ failed.attempts > 0 /\ Shown(failed)
  BY DEF Failed, Rows, Shown
<1>3. ASSUME NEW row \in Rows
      PROVE  /\ Reset(row) \in Rows
             /\ Due(row) \in Rows /\ (Shown(row) => Shown(Due(row)))
             /\ Retried(row) \in Rows /\ Shown(Retried(row))
  <2>1. Reset(row) \in Rows
    BY <1>1 DEF Reset, Rows
  <2>2. Due(row) \in Rows
    BY DEF Due, Rows
  <2>3. Due(row).attempts = row.attempts /\ Due(row).dead = row.dead
    BY DEF Due, Rows
  <2>4. row.retry # "none" => Due(row).retry # "none"
    BY DEF Due, Rows
  <2>5. Retried(row) \in Rows /\ Retried(row).retry = "now"
    <3>1. 0 \in 0..MaxAttempts
      OBVIOUS
    <3>2. Retried(row) = [row EXCEPT !.attempts = 0, !.dead = FALSE, !.retry = "now"]
      BY DEF Retried
    <3>3. Retried(row) = [attempts |-> 0, dead |-> FALSE, retry |-> "now", named |-> row.named]
      BY <3>2 DEF Rows
    <3> QED BY <3>1, <3>3 DEF Rows
  <2> QED BY <2>1, <2>2, <2>3, <2>4, <2>5 DEF Shown
<1> QED BY <1>1, <1>2, <1>3

(* An idle process.                                                        *)
LEMMA IdleFacts ==
  /\ Idle \in Work /\ Idle.at = "idle"
  /\ \A r \in Records : Ingest(r) \in Work /\ Ingest(r).at = "store" /\ Ingest(r).record = r
<1>1. Idle \in Work /\ Idle.at = "idle"
  BY RecordFacts DEF Idle, Work, Stages
<1>2. ASSUME NEW r \in Records
      PROVE  Ingest(r) \in Work /\ Ingest(r).at = "store" /\ Ingest(r).record = r
  BY <1>1 DEF Ingest, Work, Stages
<1> QED BY <1>1, <1>2

-----------------------------------------------------------------------------
(***************************************************************************)
(* Shapes of steps, and what they keep.                                    *)
(***************************************************************************)

(* A job that goes on, or ends and gives back the lock.                    *)
LEMMA ContinueMoves ==
  ASSUME TypeOK, NEW j \in Jobs, NEW left \in SUBSET Records, Continue(j, left)
  PROVE  /\ job' \in [Jobs -> Work] /\ polling' \in Pollers \cup {None}
         /\ \A i \in Jobs \ {j} : job'[i] = job[i]
         /\ job'[j].at \in {"idle", "normalize"}
         /\ job'[j] # Idle => job'[j].before = job[j].before /\ polling' = polling
         /\ polling # j => polling' = polling
<1> DEFINE work == [Idle EXCEPT !.at = "normalize", !.left = left, !.before = job[j].before]
<1>1. work \in Work /\ work.at = "normalize" /\ work.before = job[j].before
  BY IdleFacts DEF Work, Stages, TypeOK
<1>2. job' = [job EXCEPT ![j] = IF left = {} THEN Idle ELSE work]
  BY DEF Continue
<1> HIDE DEF work
<1>3. job' \in [Jobs -> Work] /\ \A i \in Jobs \ {j} : job'[i] = job[i]
  BY <1>1, <1>2, IdleFacts DEF TypeOK
<1>4. left = {} => job'[j] = Idle
  BY <1>2 DEF TypeOK
<1>5. left # {} => job'[j] = work
  BY <1>2 DEF TypeOK
<1> QED BY <1>1, <1>3, <1>4, <1>5, IdleFacts DEF Continue, TypeOK

(* The advisory lock lets one poll run.                                    *)
LEMMA OnePollAtATime ==
  ASSUME PollInv, NEW p \in Pollers, job[p] # Idle \/ polling = None
  PROVE  \A q \in Pollers \ {p} : job[q] = Idle
BY NoneFacts DEF PollInv

(* Steps of a job over a batch, and the commit of a page.                  *)
LEMMA ContinueKeepsPolls ==
  ASSUME TypeOK, PollInv, NEW j \in Pollers \cup {Recoverer}, NEW left \in SUBSET Records,
         Continue(j, left),
         \/ j = Recoverer /\ cursor' = cursor
         \/ j \in Pollers /\ job[j] # Idle /\ cursor' \in {job[j].before, job[j].before + 1}
  PROVE  PollInv'
<1>1. j \in Jobs
  BY NoneFacts
<1>2. /\ \A i \in Jobs \ {j} : job'[i] = job[i]
      /\ job'[j].at \in {"idle", "normalize"}
      /\ job'[j] # Idle => job'[j].before = job[j].before /\ polling' = polling
      /\ polling # j => polling' = polling
  BY <1>1, ContinueMoves
<1>3. CASE j = Recoverer /\ cursor' = cursor
  <2>1. \A p \in Pollers : job'[p] = job[p]
    BY <1>2, <1>3, NoneFacts
  <2>2. polling' = polling
    BY <1>2, <1>3, NoneFacts DEF TypeOK
  <2> QED BY <1>3, <2>1, <2>2 DEF PollInv
<1>4. CASE j \in Pollers /\ job[j] # Idle /\ cursor' \in {job[j].before, job[j].before + 1}
  <2>1. polling = j
    BY <1>4 DEF PollInv
  <2>2. \A q \in Pollers \ {j} : job'[q] = Idle
    BY <1>2, <1>4, OnePollAtATime, NoneFacts
  <2>3. job'[j] # Idle => /\ polling' = j
                          /\ job'[j].at = "discover" => cursor' = job'[j].before
                          /\ cursor' \in {job'[j].before, job'[j].before + 1}
    BY <1>2, <1>4, <2>1
  <2> QED BY <2>2, <2>3 DEF PollInv
<1> QED BY <1>3, <1>4

(* Steps of others.                                                        *)
LEMMA OthersKeepPolls ==
  ASSUME PollInv, \A p \in Pollers : job'[p] = job[p], polling' = polling, cursor' = cursor
  PROVE  PollInv'
BY DEF PollInv

(* A poll that ends.                                                       *)
LEMMA EndKeepsPolls ==
  ASSUME TypeOK, PollInv, NEW j \in Jobs,
         job' = [job EXCEPT ![j] = Idle],
         polling' = IF polling = j THEN None ELSE polling,
         cursor' = cursor \/ (j \in Pollers /\ job[j] # Idle)
  PROVE  PollInv'
<1>1. /\ job'[j] = Idle
      /\ \A q \in Pollers \ {j} : job'[q] = job[q]
  BY NoneFacts DEF TypeOK
<1>2. CASE j \in Pollers /\ job[j] # Idle
  BY <1>1, <1>2, OnePollAtATime DEF PollInv
<1>3. CASE cursor' = cursor
  <2> SUFFICES ASSUME NEW q \in Pollers, job'[q] # Idle
               PROVE  /\ polling' = q
                      /\ job'[q].at = "discover" => cursor' = job'[q].before
                      /\ cursor' \in {job'[q].before, job'[q].before + 1}
    BY DEF PollInv
  <2>1. q # j /\ job'[q] = job[q]
    BY <1>1
  <2> QED BY <1>3, <2>1 DEF PollInv
<1> QED BY <1>2, <1>3

(* No step makes a stored record absent, and none but the commit of a page *)
(* moves the cursor forward.                                               *)
LEMMA StaysStored ==
  ASSUME TypeOK, PassedIsStored, cursor' \in Nat, cursor' <= cursor,
         \A r \in Records : raws[r] # "absent" => raws'[r] # "absent"
  PROVE  PassedIsStored'
<1> SUFFICES ASSUME NEW n \in 1..cursor', NEW r \in Pages[n]
             PROVE  raws'[r] # "absent"
  BY DEF PassedIsStored
<1>1. n \in 1..cursor /\ n \in 1..Len(Pages)
  BY RecordFacts DEF TypeOK
<1> QED BY <1>1, RecordFacts DEF PassedIsStored

(* Rows do not disappear from the list of a failed record, and a record    *)
(* that fails gets the row of its normalisation.                           *)
LEMMA StaysListed ==
  ASSUME FailedIsListed, RecordsInv,
         \A r \in Records : raws'[r] = "failed" =>
           \/ Shown(normals'[r])
           \/ /\ raws[r] = "failed"
              /\ Shown(normals[r]) => Shown(normals'[r])
              /\ Shown(ingests[r]) => Shown(ingests'[r]),
         job'[Ingester].at = "done" =>
           job[Ingester].at = "done" /\ job'[Ingester].record = job[Ingester].record
  PROVE  FailedIsListed'
<1>1. \A r \in Records : raws'[r] = "failed" => Shown(normals'[r]) \/ Shown(ingests'[r])
  BY DEF FailedIsListed
<1>2. job'[Ingester].at = "done" /\ raws'[job'[Ingester].record] = "failed" =>
        Shown(normals'[job'[Ingester].record])
  BY NoneFacts DEF FailedIsListed, RecordsInv
<1> QED BY <1>1, <1>2 DEF FailedIsListed, Shown

(* A record whose normalisation is committed.                              *)
LEMMA NormalizedMoves ==
  ASSUME TypeOK, NEW r \in Records, Normalized(r)
  PROVE  /\ raws' \in [Records -> {"absent", "pending", "normalized", "failed"}]
         /\ normals' \in [Records -> Rows] /\ ingests' \in [Records -> Rows]
         /\ raws'[r] = "normalized"
         /\ \A q \in Records \ {r} :
              raws'[q] = raws[q] /\ normals'[q] = normals[q] /\ ingests'[q] = ingests[q]
<1>1. Reset(normals[r]) \in Rows /\ Reset(ingests[r]) \in Rows
  BY RowFacts DEF TypeOK
<1>2. CASE raws[r] = "normalized"
  BY <1>2 DEF Normalized, TypeOK
<1>3. CASE raws[r] # "normalized"
  <2>1. /\ raws' = [raws EXCEPT ![r] = "normalized"]
        /\ normals' = [normals EXCEPT ![r] = Reset(normals[r])]
        /\ ingests' = IF ingests[r].named THEN [ingests EXCEPT ![r] = Reset(ingests[r])] ELSE ingests
    BY <1>3 DEF Normalized
  <2> QED BY <1>1, <2>1 DEF TypeOK
<1> QED BY <1>2, <1>3

-----------------------------------------------------------------------------
(***************************************************************************)
(* The steps of a poll.                                                    *)
(***************************************************************************)

LEMMA StartPollKeeps ==
  ASSUME IInv, NEW p \in Pollers, StartPoll(p)
  PROVE  IInv'
<1> USE DEF IInv
<1> DEFINE work == [Idle EXCEPT !.at = "discover", !.before = cursor]
<1>1. work \in Work /\ work.at = "discover" /\ work.before = cursor
  BY IdleFacts DEF Work, Stages, TypeOK
<1>2. /\ polling = None /\ polling' = p /\ job' = [job EXCEPT ![p] = work]
      /\ UNCHANGED <<raws, cursor, rows, troubles>>
  BY DEF StartPoll, LockFree
<1> HIDE DEF work
<1>3. /\ job' \in [Jobs -> Work] /\ job'[p] = work
      /\ \A j \in Jobs \ {p} : job'[j] = job[j]
  BY <1>1, <1>2, NoneFacts DEF TypeOK
<1>4. TypeOK'
  BY <1>2, <1>3 DEF TypeOK, rows
<1>5. PollInv'
  <2>1. \A q \in Pollers \ {p} : job'[q] = Idle
    BY <1>2, <1>3, OnePollAtATime, NoneFacts
  <2> QED BY <1>1, <1>2, <1>3, <2>1 DEF PollInv, TypeOK
<1>6. RecordsInv'
  BY <1>1, <1>3 DEF RecordsInv
<1>7. PassedIsStored' /\ FailedIsListed'
  BY <1>2, <1>3, NoneFacts DEF PassedIsStored, FailedIsListed, rows
<1> QED BY <1>4, <1>5, <1>6, <1>7

(* The page, the cursor behind it, and the rows of the page.               *)
LEMMA DiscoverKeeps ==
  ASSUME IInv, NEW p \in Pollers, Discover(p)
  PROVE  IInv'
<1> USE DEF IInv
<1>1. /\ p \in Jobs /\ job[p].at = "discover" /\ job[p] # Idle
      /\ StorePage(p) /\ polls' = Reset(polls) /\ Continue(p, PendingBatch(raws'))
      /\ UNCHANGED <<normals, ingests, troubles>>
  BY IdleFacts, NoneFacts DEF Discover
<1>2. cursor = job[p].before /\ cursor \in 0..Len(Pages)
  BY <1>1 DEF PollInv, TypeOK
<1>3. /\ raws' \in [Records -> {"absent", "pending", "normalized", "failed"}]
      /\ cursor' \in 0..Len(Pages) /\ cursor' \in {cursor, cursor + 1}
      /\ \A r \in Records : raws[r] # "absent" => raws'[r] # "absent"
      /\ \A r \in Records : raws'[r] = "failed" => raws[r] = "failed"
      /\ cursor' = cursor + 1 => \A r \in Pages[cursor + 1] : raws'[r] # "absent"
  <2>1. CASE cursor + 1 \in DOMAIN Pages
    <3>1. raws' = Store(Pages[cursor + 1]) /\ cursor' = cursor + 1
      BY <1>1, <1>2, <2>1 DEF StorePage
    <3>2. Pages[cursor + 1] \subseteq Records
      BY <2>1, RecordFacts
    <3> QED BY <1>2, <2>1, <3>1, <3>2, RecordFacts DEF Store, TypeOK
  <2>2. CASE cursor + 1 \notin DOMAIN Pages
    <3>1. raws' = raws /\ cursor' = cursor
      BY <1>1, <1>2, <2>2 DEF StorePage
    <3> QED BY <1>2, <3>1 DEF TypeOK
  <2> QED BY <2>1, <2>2
<1>4. PendingBatch(raws') \in SUBSET Records
  BY DEF PendingBatch, Oldest
<1>5. /\ job' \in [Jobs -> Work] /\ polling' \in Pollers \cup {None}
      /\ \A i \in Jobs \ {p} : job'[i] = job[i]
      /\ job'[p].at \in {"idle", "normalize"}
  BY <1>1, <1>4, ContinueMoves
<1>6. TypeOK'
  BY <1>1, <1>3, <1>5, RowFacts DEF TypeOK
<1>7. PollInv'
  BY <1>1, <1>2, <1>3, <1>4, ContinueKeepsPolls
<1>8. RecordsInv'
  BY <1>5 DEF RecordsInv
<1>9. PassedIsStored'
  <2> SUFFICES ASSUME NEW n \in 1..cursor', NEW r \in Pages[n]
               PROVE  raws'[r] # "absent"
    BY DEF PassedIsStored
  <2>1. CASE n \in 1..cursor
    <3>1. r \in Records /\ raws[r] # "absent"
      BY <1>2, <2>1, RecordFacts DEF PassedIsStored
    <3> QED BY <1>3, <3>1
  <2>2. CASE n = cursor + 1 /\ cursor' = cursor + 1
    BY <1>3, <2>2
  <2> QED BY <1>2, <1>3, <2>1, <2>2
<1>10. FailedIsListed'
  <2>1. job'[Ingester] = job[Ingester]
    BY <1>5, NoneFacts
  <2> QED BY <1>1, <1>3, <2>1, StaysListed
<1> QED BY <1>6, <1>7, <1>8, <1>9, <1>10

LEMMA PollFailsKeeps ==
  ASSUME IInv, NEW p \in Pollers, PollFails(p)
  PROVE  IInv'
<1> USE DEF IInv
<1>1. /\ p \in Jobs /\ job[p].at \in {"discover", "normalize", "failing"} /\ job[p] # Idle
      /\ \E transient \in BOOLEAN : polls' = Failed(polls, transient, FALSE)
      /\ cursor' = IF job[p].at = "discover" THEN cursor ELSE job[p].before
      /\ polling' = IF polling = p THEN None ELSE polling
      /\ job' = [job EXCEPT ![p] = Idle]
      /\ UNCHANGED <<raws, normals, ingests, troubles>>
  BY IdleFacts, NoneFacts DEF PollFails
<1>2. cursor' \in 0..Len(Pages) /\ cursor' <= cursor
  BY <1>1, RecordFacts DEF PollInv, TypeOK, Work
<1>3. /\ job' \in [Jobs -> Work]
      /\ \A i \in Jobs \ {p} : job'[i] = job[i]
      /\ job'[p].at = "idle"
  BY <1>1, IdleFacts DEF TypeOK
<1>4. polls' \in Rows
  BY <1>1, RowFacts DEF TypeOK
<1>5. TypeOK'
  BY <1>1, <1>2, <1>3, <1>4 DEF TypeOK
<1>6. PollInv'
  BY <1>1, EndKeepsPolls
<1>7. RecordsInv'
  BY <1>3 DEF RecordsInv
<1>8. PassedIsStored'
  BY <1>1, <1>2, StaysStored
<1>9. FailedIsListed'
  <2>1. job'[Ingester] = job[Ingester]
    BY <1>3, NoneFacts
  <2> QED BY <1>1, <2>1, StaysListed
<1> QED BY <1>5, <1>6, <1>7, <1>8, <1>9

-----------------------------------------------------------------------------
(***************************************************************************)
(* The steps over a batch of pending records.                              *)
(***************************************************************************)

LEMMA StartRecoveryKeeps ==
  ASSUME IInv, StartRecovery
  PROVE  IInv'
<1> USE DEF IInv
<1>1. /\ Continue(Recoverer, PendingBatch(raws))
      /\ UNCHANGED <<raws, cursor, polls, normals, ingests, troubles>>
  BY DEF StartRecovery, rows
<1>2. PendingBatch(raws) \in SUBSET Records
  BY DEF PendingBatch, Oldest
<1>3. /\ job' \in [Jobs -> Work] /\ polling' \in Pollers \cup {None}
      /\ \A i \in Jobs \ {Recoverer} : job'[i] = job[i]
      /\ job'[Recoverer].at \in {"idle", "normalize"}
  BY <1>1, <1>2, ContinueMoves, NoneFacts
<1>4. TypeOK'
  BY <1>1, <1>3 DEF TypeOK
<1>5. PollInv'
  BY <1>1, <1>2, ContinueKeepsPolls
<1>6. RecordsInv'
  BY <1>3 DEF RecordsInv
<1>7. PassedIsStored' /\ FailedIsListed'
  BY <1>1, <1>3, NoneFacts DEF PassedIsStored, FailedIsListed
<1> QED BY <1>4, <1>5, <1>6, <1>7

(* What a step of a job over its batch leaves to be shown: it changes      *)
(* neither the cursor nor the ingest_job.                                  *)
LEMMA BatchStepKeeps ==
  ASSUME IInv, NEW j \in Pollers \cup {Recoverer}, NEW left \in SUBSET Records,
         job[j] # Idle, Continue(j, left),
         UNCHANGED <<cursor, polls, troubles>>,
         raws' \in [Records -> {"absent", "pending", "normalized", "failed"}],
         normals' \in [Records -> Rows], ingests' \in [Records -> Rows],
         \A q \in Records : raws[q] # "absent" => raws'[q] # "absent",
         \A q \in Records : raws'[q] = "failed" =>
           \/ Shown(normals'[q])
           \/ /\ raws[q] = "failed"
              /\ Shown(normals[q]) => Shown(normals'[q])
              /\ Shown(ingests[q]) => Shown(ingests'[q])
  PROVE  IInv'
<1> USE DEF IInv
<1>1. j \in Jobs /\ j # Ingester
  BY NoneFacts
<1>2. /\ job' \in [Jobs -> Work] /\ polling' \in Pollers \cup {None}
      /\ \A i \in Jobs \ {j} : job'[i] = job[i]
      /\ job'[j].at \in {"idle", "normalize"}
  BY <1>1, ContinueMoves
<1>3. TypeOK'
  BY <1>2 DEF TypeOK
<1>4. PollInv'
  BY ContinueKeepsPolls DEF PollInv
<1>5. RecordsInv'
  BY <1>2 DEF RecordsInv
<1>6. PassedIsStored'
  BY RecordFacts, StaysStored DEF TypeOK
<1>7. FailedIsListed'
  <2>1. job'[Ingester] = job[Ingester]
    BY <1>1, <1>2, NoneFacts
  <2> QED BY <2>1, StaysListed
<1> QED BY <1>3, <1>4, <1>5, <1>6, <1>7

(* The record a job tries next is one of its batch.                        *)
LEMMA NextIsRecord ==
  ASSUME TypeOK, NEW j \in Jobs, job[j].left # {}
  PROVE  Next1(j) \in Records
<1>1. job[j].left \subseteq Records
  BY DEF TypeOK, Work
<1>2. job[j].left \in SUBSET Nat
  BY <1>1, RecordFacts
<1> QED BY <1>1, <1>2, LeastIsMember DEF Next1

LEMMA NormalizeNextKeeps ==
  ASSUME IInv, NEW j \in Pollers \cup {Recoverer}, NormalizeNext(j)
  PROVE  IInv'
<1> USE DEF IInv
<1>1. /\ j \in Jobs /\ job[j].at = "normalize" /\ job[j] # Idle /\ job[j].left # {}
      /\ Normalized(Next1(j)) /\ Continue(j, job[j].left \ {Next1(j)})
      /\ UNCHANGED <<cursor, polls, troubles>>
  BY IdleFacts, NoneFacts DEF NormalizeNext
<1> DEFINE r == Next1(j)
<1>2. r \in Records
  BY <1>1, NextIsRecord
<1>3. /\ raws' \in [Records -> {"absent", "pending", "normalized", "failed"}]
      /\ normals' \in [Records -> Rows] /\ ingests' \in [Records -> Rows]
      /\ raws'[r] = "normalized"
      /\ \A q \in Records \ {r} :
           raws'[q] = raws[q] /\ normals'[q] = normals[q] /\ ingests'[q] = ingests[q]
  BY <1>1, <1>2, NormalizedMoves
<1>4. job[j].left \ {r} \in SUBSET Records
  BY <1>1 DEF TypeOK, Work
<1> HIDE DEF r
<1>5. /\ \A q \in Records : raws[q] # "absent" => raws'[q] # "absent"
      /\ \A q \in Records : raws'[q] = "failed" =>
           raws[q] = "failed" /\ normals'[q] = normals[q] /\ ingests'[q] = ingests[q]
  BY <1>3
<1>6. Continue(j, job[j].left \ {r})
  BY <1>1 DEF r
<1> QED BY <1>1, <1>3, <1>4, <1>5, <1>6, BatchStepKeeps

LEMMA RecordNormalizeFailureKeeps ==
  ASSUME IInv, NEW j \in Pollers \cup {Recoverer}, RecordNormalizeFailure(j)
  PROVE  IInv'
<1> USE DEF IInv
<1> DEFINE r      == job[j].record
           failed == Failed(normals[r], job[j].transient, TRUE)
<1>1. /\ j \in Jobs /\ job[j].at = "failing" /\ job[j] # Idle
      /\ normals' = [normals EXCEPT ![r] = failed]
      /\ raws' = IF normals'[r].dead THEN [raws EXCEPT ![r] = "failed"] ELSE raws
      /\ Continue(j, job[j].left \ {r})
      /\ UNCHANGED <<cursor, polls, ingests, troubles>>
  BY IdleFacts, NoneFacts DEF RecordNormalizeFailure
<1>2. r \in Records
  BY <1>1 DEF RecordsInv
<1>3. failed \in Rows /\ Shown(failed)
  BY <1>1, <1>2, RowFacts DEF TypeOK, Work
<1>4. job[j].left \ {r} \in SUBSET Records
  BY <1>1 DEF TypeOK, Work
<1> HIDE DEF r, failed
<1>5. /\ normals' \in [Records -> Rows] /\ normals'[r] = failed
      /\ \A q \in Records \ {r} : normals'[q] = normals[q]
  BY <1>1, <1>2, <1>3 DEF TypeOK
<1>6. /\ raws' \in [Records -> {"absent", "pending", "normalized", "failed"}]
      /\ \A q \in Records \ {r} : raws'[q] = raws[q]
      /\ raws'[r] \in {raws[r], "failed"}
  BY <1>1, <1>2 DEF TypeOK
<1>7. /\ \A q \in Records : raws[q] # "absent" => raws'[q] # "absent"
      /\ \A q \in Records : raws'[q] = "failed" =>
           Shown(normals'[q]) \/ (raws[q] = "failed" /\ normals'[q] = normals[q])
  BY <1>3, <1>5, <1>6
<1> QED BY <1>1, <1>4, <1>5, <1>6, <1>7, BatchStepKeeps DEF TypeOK

LEMMA NormalizeFailsKeeps ==
  ASSUME IInv, NEW j \in Pollers \cup {Recoverer}, NormalizeFails(j)
  PROVE  IInv'
<1> USE DEF IInv
<1>1. /\ j \in Jobs /\ job[j].at = "normalize" /\ job[j] # Idle /\ job[j].left # {}
      /\ job' = [job EXCEPT ![j].at = "failing", ![j].record = Next1(j),
                            ![j].transient = Next1(j) \notin Malformed]
      /\ UNCHANGED <<raws, cursor, polling, polls, normals, ingests, troubles>>
  BY IdleFacts, NoneFacts DEF NormalizeFails, rows
<1>2. Next1(j) \in Records
  BY <1>1, NextIsRecord
<1>3. /\ job' \in [Jobs -> Work]
      /\ \A i \in Jobs \ {j} : job'[i] = job[i]
      /\ job'[j].at = "failing" /\ job'[j].record = Next1(j) /\ job'[j].before = job[j].before
  <2>1. job[j] \in Work /\ (Next1(j) \notin Malformed) \in BOOLEAN
    BY <1>1 DEF TypeOK
  <2>2. job'[j] = [job[j] EXCEPT !.at = "failing", !.record = Next1(j),
                                 !.transient = Next1(j) \notin Malformed]
    BY <1>1 DEF TypeOK
  <2>3. /\ job'[j] \in Work
        /\ job'[j].at = "failing" /\ job'[j].record = Next1(j) /\ job'[j].before = job[j].before
    BY <1>2, <2>1, <2>2 DEF Work, Stages
  <2>4. DOMAIN job' = Jobs /\ \A i \in Jobs \ {j} : job'[i] = job[i]
    BY <1>1 DEF TypeOK
  <2>5. job' = [i \in Jobs |-> job'[i]]
    BY <1>1 DEF TypeOK
  <2> QED BY <2>3, <2>4, <2>5 DEF TypeOK
<1>4. TypeOK'
  BY <1>1, <1>3 DEF TypeOK
<1>5. PollInv'
  <2> SUFFICES ASSUME NEW p \in Pollers, job'[p] # Idle
               PROVE  /\ polling' = p
                      /\ job'[p].at = "discover" => cursor' = job'[p].before
                      /\ cursor' \in {job'[p].before, job'[p].before + 1}
    BY DEF PollInv
  <2>1. CASE p = j
    BY <1>1, <1>3, <2>1 DEF PollInv
  <2>2. CASE p # j
    BY <1>1, <1>3, <2>2, NoneFacts DEF PollInv
  <2> QED BY <2>1, <2>2
<1>6. RecordsInv'
  BY <1>2, <1>3 DEF RecordsInv
<1>7. PassedIsStored' /\ FailedIsListed'
  BY <1>1, <1>3, NoneFacts DEF PassedIsStored, FailedIsListed
<1> QED BY <1>4, <1>5, <1>6, <1>7

-----------------------------------------------------------------------------
(***************************************************************************)
(* The steps of ingest_record.                                             *)
(***************************************************************************)

(* What is left to be shown of a step of the ingest_job: the job, the      *)
(* tables it writes, and the list of the failed records.                   *)
LEMMA IngestStepKeeps ==
  ASSUME IInv,
         job' \in [Jobs -> Work], \A i \in Jobs \ {Ingester} : job'[i] = job[i],
         job'[Ingester].at \in {"store", "attempt", "done", "failing"} =>
           job'[Ingester].record \in Records,
         raws' \in [Records -> {"absent", "pending", "normalized", "failed"}],
         normals' \in [Records -> Rows], ingests' \in [Records -> Rows],
         \A q \in Records : raws[q] # "absent" => raws'[q] # "absent",
         troubles' \in 0..MaxTroubles,
         UNCHANGED <<cursor, polling, polls>>,
         FailedIsListed'
  PROVE  IInv'
<1> USE DEF IInv
<1>1. TypeOK'
  BY DEF TypeOK
<1>2. PollInv'
  BY NoneFacts, OthersKeepPolls
<1>3. RecordsInv'
  BY DEF RecordsInv
<1>4. PassedIsStored'
  BY RecordFacts, StaysStored DEF TypeOK
<1> QED BY <1>1, <1>2, <1>3, <1>4

LEMMA TroubleFacts == TypeOK /\ Trouble => troubles' \in 0..MaxTroubles
BY PipelineAssumption DEF TypeOK, Trouble

(* The job is started for a record, whether offered or due again.          *)
LEMMA OfferKeeps ==
  ASSUME IInv, NEW r \in Records, Offer(r) \/ Requeue(r)
  PROVE  IInv'
<1> USE DEF IInv
<1>1. /\ job' = [job EXCEPT ![Ingester] = Ingest(r)]
      /\ UNCHANGED <<raws, cursor, polling, polls, normals>>
  BY DEF Offer, Requeue, rows
<1>2. /\ job' \in [Jobs -> Work] /\ \A i \in Jobs \ {Ingester} : job'[i] = job[i]
      /\ job'[Ingester].at = "store" /\ job'[Ingester].record = r
  BY <1>1, IdleFacts, NoneFacts DEF TypeOK
<1>3. /\ ingests' \in [Records -> Rows]
      /\ \A q \in Records : Shown(ingests[q]) => Shown(ingests'[q])
  <2>1. CASE Requeue(r)
    <3>1. ingests' = [ingests EXCEPT ![r].retry = "later"]
      BY <2>1 DEF Requeue
    <3>2. /\ ingests' \in [Records -> Rows] /\ ingests'[r].retry = "later"
          /\ \A q \in Records \ {r} : ingests'[q] = ingests[q]
      BY <3>1 DEF TypeOK, Rows
    <3> QED BY <3>2 DEF Shown
  <2>2. CASE Offer(r)
    BY <2>2 DEF Offer, rows, TypeOK
  <2> QED BY <2>1, <2>2
<1>4. troubles' \in 0..MaxTroubles
  BY TroubleFacts DEF Offer, Requeue, TypeOK
<1>5. FailedIsListed'
  BY <1>1, <1>2, <1>3, StaysListed
<1> QED BY <1>1, <1>2, <1>3, <1>4, <1>5, IngestStepKeeps DEF TypeOK

LEMMA StoreRawKeeps ==
  ASSUME IInv, StoreRaw
  PROVE  IInv'
<1> USE DEF IInv
<1> DEFINE r == job[Ingester].record
<1>1. /\ raws' = Store({r})
      /\ job' = [job EXCEPT ![Ingester].at = "attempt", ![Ingester].stored = TRUE]
      /\ UNCHANGED <<cursor, polling, polls, normals, ingests, troubles>>
  BY DEF StoreRaw, rows
<1>2. r \in Records
  BY NoneFacts DEF StoreRaw, RecordsInv
<1>3. /\ job' \in [Jobs -> Work] /\ \A i \in Jobs \ {Ingester} : job'[i] = job[i]
      /\ job'[Ingester].at = "attempt" /\ job'[Ingester].record = r
  <2>1. job[Ingester] \in Work
    BY NoneFacts DEF TypeOK
  <2>2. job'[Ingester] = [job[Ingester] EXCEPT !.at = "attempt", !.stored = TRUE]
    BY <1>1, NoneFacts DEF TypeOK
  <2>3. job'[Ingester] \in Work /\ job'[Ingester].at = "attempt" /\ job'[Ingester].record = r
    BY <2>1, <2>2 DEF Work, Stages
  <2>4. job' = [i \in Jobs |-> job'[i]] /\ \A i \in Jobs \ {Ingester} : job'[i] = job[i]
    BY <1>1 DEF TypeOK
  <2> QED BY <2>3, <2>4 DEF TypeOK
<1> HIDE DEF r
<1>4. /\ raws' \in [Records -> {"absent", "pending", "normalized", "failed"}]
      /\ \A q \in Records : raws[q] # "absent" => raws'[q] # "absent"
      /\ \A q \in Records : raws'[q] = "failed" => raws[q] = "failed"
  BY <1>1 DEF Store, TypeOK
<1>5. FailedIsListed'
  BY <1>1, <1>3, <1>4, StaysListed
<1> QED BY <1>1, <1>2, <1>3, <1>4, <1>5, IngestStepKeeps DEF TypeOK

LEMMA NormalizeStoredKeeps ==
  ASSUME IInv, NormalizeStored
  PROVE  IInv'
<1> USE DEF IInv
<1> DEFINE r == job[Ingester].record
<1>1. /\ Normalized(r)
      /\ job' = [job EXCEPT ![Ingester].at = "done"]
      /\ UNCHANGED <<cursor, polling, polls, troubles>>
  BY DEF NormalizeStored
<1>2. r \in Records
  BY NoneFacts DEF NormalizeStored, RecordsInv
<1>3. /\ job' \in [Jobs -> Work] /\ \A i \in Jobs \ {Ingester} : job'[i] = job[i]
      /\ job'[Ingester].at = "done" /\ job'[Ingester].record = r
  BY <1>1, NoneFacts, SMTT(30) DEF TypeOK, Work, Stages
<1> HIDE DEF r
<1>4. /\ raws' \in [Records -> {"absent", "pending", "normalized", "failed"}]
      /\ normals' \in [Records -> Rows] /\ ingests' \in [Records -> Rows]
      /\ raws'[r] = "normalized"
      /\ \A q \in Records \ {r} :
           raws'[q] = raws[q] /\ normals'[q] = normals[q] /\ ingests'[q] = ingests[q]
  BY <1>1, <1>2, NormalizedMoves
<1>5. \A q \in Records : raws[q] # "absent" => raws'[q] # "absent"
  BY <1>4
<1>6. FailedIsListed'
  <2>1. \A q \in Records : raws'[q] = "failed" => Shown(normals'[q]) \/ Shown(ingests'[q])
    BY <1>4 DEF FailedIsListed
  <2> QED BY <1>3, <1>4, <2>1 DEF FailedIsListed, Shown
<1> QED BY <1>1, <1>2, <1>3, <1>4, <1>5, <1>6, IngestStepKeeps DEF TypeOK

LEMMA IngestDoneKeeps ==
  ASSUME IInv, IngestDone
  PROVE  IInv'
<1> USE DEF IInv
<1> DEFINE r == job[Ingester].record
<1>1. /\ job[Ingester].at = "done"
      /\ ingests' = [ingests EXCEPT ![r] = Reset(ingests[r])]
      /\ job' = [job EXCEPT ![Ingester] = Idle]
      /\ UNCHANGED <<raws, cursor, polling, polls, normals, troubles>>
  BY DEF IngestDone
<1>2. r \in Records
  BY <1>1, NoneFacts DEF RecordsInv
<1>3. /\ job' \in [Jobs -> Work] /\ \A i \in Jobs \ {Ingester} : job'[i] = job[i]
      /\ job'[Ingester].at = "idle"
  BY <1>1, IdleFacts, NoneFacts DEF TypeOK
<1>4. raws[r] = "failed" => Shown(normals[r])
  BY <1>1 DEF FailedIsListed
<1> HIDE DEF r
<1>5. /\ ingests' \in [Records -> Rows]
      /\ \A q \in Records \ {r} : ingests'[q] = ingests[q]
  BY <1>1, <1>2, RowFacts DEF TypeOK
<1>6. FailedIsListed'
  BY <1>1, <1>3, <1>4, <1>5, StaysListed
<1> QED BY <1>1, <1>3, <1>5, <1>6, IngestStepKeeps DEF TypeOK

LEMMA IngestFailsKeeps ==
  ASSUME IInv, IngestFails
  PROVE  IInv'
<1> USE DEF IInv
<1> DEFINE r         == job[Ingester].record
           tries     == job[Ingester].at = "attempt"
           transient == ~ tries \/ r \notin Malformed
<1>1. /\ job[Ingester].at \in {"store", "attempt", "done"}
      /\ job' = [job EXCEPT ![Ingester].at = "failing", ![Ingester].transient = transient]
      /\ UNCHANGED <<raws, cursor, polling, polls, normals, ingests>>
  BY DEF IngestFails, rows
<1>2. r \in Records
  BY <1>1, NoneFacts DEF RecordsInv
<1>3. troubles' \in 0..MaxTroubles
  BY TroubleFacts DEF IngestFails, TypeOK
<1>4. transient \in BOOLEAN
  OBVIOUS
<1> HIDE DEF transient, tries
<1>5. /\ job' \in [Jobs -> Work] /\ \A i \in Jobs \ {Ingester} : job'[i] = job[i]
      /\ job'[Ingester].at = "failing" /\ job'[Ingester].record = r
  <2>1. job[Ingester] \in Work
    BY NoneFacts DEF TypeOK
  <2>2. job'[Ingester] = [job[Ingester] EXCEPT !.at = "failing", !.transient = transient]
    BY <1>1, NoneFacts DEF TypeOK
  <2>3. job'[Ingester] \in Work /\ job'[Ingester].at = "failing" /\ job'[Ingester].record = r
    BY <1>4, <2>1, <2>2 DEF Work, Stages
  <2>4. job' = [i \in Jobs |-> job'[i]] /\ \A i \in Jobs \ {Ingester} : job'[i] = job[i]
    BY <1>1 DEF TypeOK
  <2> QED BY <2>3, <2>4 DEF TypeOK
<1>6. FailedIsListed'
  BY <1>1, <1>5, StaysListed
<1> QED BY <1>1, <1>2, <1>3, <1>5, <1>6, IngestStepKeeps DEF TypeOK

(* The handler of a failed attempt may mark a record as failed whatever    *)
(* has become of it, but its own row says so.                              *)
LEMMA RecordIngestFailureKeeps ==
  ASSUME IInv, RecordIngestFailure
  PROVE  IInv'
<1> USE DEF IInv
<1> DEFINE r      == job[Ingester].record
           failed == Failed(ingests[r], job[Ingester].transient, job[Ingester].stored)
<1>1. /\ job[Ingester].at = "failing"
      /\ ingests' = [ingests EXCEPT ![r] = failed]
      /\ raws' = IF job[Ingester].stored
                   THEN [raws EXCEPT ![r] = IF job[Ingester].transient THEN "pending" ELSE "failed"]
                   ELSE raws
      /\ job' = [job EXCEPT ![Ingester] = Idle]
      /\ UNCHANGED <<cursor, polling, polls, normals, troubles>>
  BY DEF RecordIngestFailure
<1>2. r \in Records
  BY <1>1, NoneFacts DEF RecordsInv
<1>3. failed \in Rows /\ Shown(failed)
  BY <1>2, RowFacts, NoneFacts DEF TypeOK, Work
<1>4. /\ job' \in [Jobs -> Work] /\ \A i \in Jobs \ {Ingester} : job'[i] = job[i]
      /\ job'[Ingester].at = "idle"
  BY <1>1, IdleFacts, NoneFacts DEF TypeOK
<1> HIDE DEF r, failed
<1>5. /\ ingests' \in [Records -> Rows] /\ ingests'[r] = failed
      /\ \A q \in Records \ {r} : ingests'[q] = ingests[q]
  BY <1>1, <1>2, <1>3 DEF TypeOK
<1>6. /\ raws' \in [Records -> {"absent", "pending", "normalized", "failed"}]
      /\ \A q \in Records \ {r} : raws'[q] = raws[q]
      /\ raws'[r] \in {raws[r], "pending", "failed"}
  BY <1>1, <1>2 DEF TypeOK
<1>7. \A q \in Records : raws[q] # "absent" => raws'[q] # "absent"
  BY <1>6
<1>8. FailedIsListed'
  <2>1. \A q \in Records : raws'[q] = "failed" => Shown(normals'[q]) \/ Shown(ingests'[q])
    BY <1>1, <1>3, <1>5, <1>6 DEF FailedIsListed
  <2> QED BY <1>4, <2>1 DEF FailedIsListed, Shown
<1> QED BY <1>1, <1>4, <1>5, <1>6, <1>7, <1>8, IngestStepKeeps DEF TypeOK

-----------------------------------------------------------------------------
(***************************************************************************)
(* The environment: time, crashes and the operator.                        *)
(***************************************************************************)

(* Steps that touch rows and statuses only.                                *)
LEMMA RowStepKeeps ==
  ASSUME IInv, UNCHANGED <<cursor, polling, job>>,
         polls' \in Rows,
         raws' \in [Records -> {"absent", "pending", "normalized", "failed"}],
         normals' \in [Records -> Rows], ingests' \in [Records -> Rows],
         \A q \in Records : raws[q] # "absent" => raws'[q] # "absent",
         \A q \in Records : raws'[q] = "failed" =>
           /\ raws[q] = "failed"
           /\ Shown(normals[q]) => Shown(normals'[q])
           /\ Shown(ingests[q]) => Shown(ingests'[q]),
         troubles' \in 0..MaxTroubles
  PROVE  IInv'
<1> USE DEF IInv
<1>1. TypeOK'
  BY DEF TypeOK
<1>2. PollInv'
  BY OthersKeepPolls
<1>3. RecordsInv'
  BY DEF RecordsInv
<1>4. PassedIsStored'
  BY RecordFacts, StaysStored DEF TypeOK
<1>5. FailedIsListed'
  BY StaysListed
<1> QED BY <1>1, <1>2, <1>3, <1>4, <1>5

LEMMA TimePassesKeeps ==
  ASSUME IInv, TimePasses
  PROVE  IInv'
<1>1. /\ polls' = Due(polls)
      /\ normals' = [r \in Records |-> Due(normals[r])]
      /\ ingests' = [r \in Records |-> Due(ingests[r])]
      /\ UNCHANGED <<raws, cursor, polling, job, troubles>>
  BY DEF TimePasses
<1>2. TypeOK
  BY DEF IInv
<1>3. polls' \in Rows /\ normals' \in [Records -> Rows] /\ ingests' \in [Records -> Rows]
  BY <1>1, <1>2, RowFacts DEF TypeOK
<1>4. \A q \in Records : /\ Shown(normals[q]) => Shown(normals'[q])
                         /\ Shown(ingests[q]) => Shown(ingests'[q])
  BY <1>1, <1>2, RowFacts DEF TypeOK
<1> QED BY <1>1, <1>2, <1>3, <1>4, RowStepKeeps DEF TypeOK

LEMMA CrashKeeps ==
  ASSUME IInv, NEW j \in Jobs, Crash(j)
  PROVE  IInv'
<1> USE DEF IInv
<1>1. /\ polling' = IF polling = j THEN None ELSE polling
      /\ job' = [job EXCEPT ![j] = Idle]
      /\ UNCHANGED <<raws, cursor, polls, normals, ingests>>
  BY DEF Crash, rows
<1>2. /\ job' \in [Jobs -> Work] /\ \A i \in Jobs \ {j} : job'[i] = job[i]
      /\ job'[j].at = "idle"
  BY <1>1, IdleFacts DEF TypeOK
<1>3. troubles' \in 0..MaxTroubles
  BY TroubleFacts DEF Crash
<1>4. TypeOK'
  BY <1>1, <1>2, <1>3 DEF TypeOK
<1>5. PollInv'
  BY <1>1, EndKeepsPolls
<1>6. RecordsInv'
  BY <1>2 DEF RecordsInv
<1>7. PassedIsStored'
  BY <1>1 DEF PassedIsStored
<1>8. FailedIsListed'
  BY <1>1, <1>2, NoneFacts DEF FailedIsListed
<1> QED BY <1>4, <1>5, <1>6, <1>7, <1>8

LEMMA OperatorKeeps ==
  ASSUME IInv, Operator
  PROVE  IInv'
<1>0. TypeOK
  BY DEF IInv
<1>1. CASE RetryPoll
  <2>1. polls' \in Rows
    BY <1>0, <1>1, RowFacts DEF RetryPoll, TypeOK
  <2> QED BY <1>0, <1>1, <2>1, RowStepKeeps DEF RetryPoll, TypeOK
<1>2. ASSUME NEW r \in Records, RetryNormalize(r) PROVE IInv'
  <2>1. /\ normals' = [normals EXCEPT ![r] = Retried(normals[r])]
        /\ raws' = [raws EXCEPT ![r] = "pending"]
        /\ UNCHANGED <<cursor, polling, polls, ingests, job>>
    BY <1>2 DEF RetryNormalize
  <2>2. /\ normals' \in [Records -> Rows]
        /\ \A q \in Records : Shown(normals[q]) => Shown(normals'[q])
    BY <1>0, <2>1, RowFacts DEF TypeOK
  <2>3. /\ raws' \in [Records -> {"absent", "pending", "normalized", "failed"}]
        /\ \A q \in Records : raws[q] # "absent" => raws'[q] # "absent"
        /\ \A q \in Records : raws'[q] = "failed" => raws[q] = "failed"
    BY <1>0, <2>1 DEF TypeOK
  <2>4. troubles' \in 0..MaxTroubles
    BY <1>0, <1>2, TroubleFacts DEF RetryNormalize
  <2> QED BY <1>0, <2>1, <2>2, <2>3, <2>4, RowStepKeeps DEF TypeOK
<1>3. ASSUME NEW r \in Records, RetryIngest(r) PROVE IInv'
  <2>1. /\ ingests' = [ingests EXCEPT ![r] = Retried(ingests[r])]
        /\ UNCHANGED <<raws, cursor, polling, polls, normals, job>>
    BY <1>3 DEF RetryIngest
  <2>2. /\ ingests' \in [Records -> Rows]
        /\ \A q \in Records : Shown(ingests[q]) => Shown(ingests'[q])
    BY <1>0, <2>1, RowFacts DEF TypeOK
  <2>3. troubles' \in 0..MaxTroubles
    BY <1>0, <1>3, TroubleFacts DEF RetryIngest
  <2> QED BY <1>0, <2>1, <2>2, <2>3, RowStepKeeps DEF TypeOK
<1> QED BY <1>1, <1>2, <1>3 DEF Operator

-----------------------------------------------------------------------------
(***************************************************************************)
(* The theorems.                                                           *)
(***************************************************************************)

(* At first nothing is stored, nothing has failed and nobody works.        *)
LEMMA InitHolds == Init => IInv
<1> SUFFICES ASSUME Init PROVE IInv
  OBVIOUS
<1>1. job \in [Jobs -> Work] /\ \A j \in Jobs : job[j] = Idle /\ job[j].at = "idle"
  BY IdleFacts DEF Init
<1>2. 0 \in 0..MaxTroubles /\ 0 \in 0..Len(Pages)
  BY PipelineAssumption, RecordFacts
<1>3. TypeOK
  BY <1>1, <1>2, RowFacts DEF Init, TypeOK
<1>4. PollInv /\ RecordsInv
  BY <1>1, NoneFacts DEF PollInv, RecordsInv
<1>5. PassedIsStored
  BY DEF Init, PassedIsStored
<1>6. FailedIsListed
  BY <1>1, NoneFacts DEF Init, FailedIsListed
<1> QED BY <1>3, <1>4, <1>5, <1>6 DEF IInv

(* Every step of a process, of the clock or of an operator keeps the       *)
(* invariant.                                                              *)
LEMMA StepKeeps == IInv /\ [Next]_vars => IInv'
<1> SUFFICES ASSUME IInv, [Next]_vars PROVE IInv'
  OBVIOUS
<1>1. ASSUME NEW p \in Pollers, StartPoll(p) \/ Discover(p) \/ PollFails(p) PROVE IInv'
  BY <1>1, StartPollKeeps, DiscoverKeeps, PollFailsKeeps
<1>2. CASE StartRecovery
  BY <1>2, StartRecoveryKeeps
<1>3. ASSUME NEW j \in Pollers \cup {Recoverer}, JobSteps(j) PROVE IInv'
  BY <1>3, NormalizeNextKeeps, NormalizeFailsKeeps, RecordNormalizeFailureKeeps DEF JobSteps
<1>4. ASSUME NEW r \in Records, Offer(r) \/ Requeue(r) PROVE IInv'
  BY <1>4, OfferKeeps
<1>5. CASE IngestSteps
  BY <1>5, StoreRawKeeps, NormalizeStoredKeeps, IngestDoneKeeps, IngestFailsKeeps,
     RecordIngestFailureKeeps DEF IngestSteps
<1>6. CASE TimePasses
  BY <1>6, TimePassesKeeps
<1>7. ASSUME NEW j \in Jobs, Crash(j) PROVE IInv'
  BY <1>7, CrashKeeps
<1>8. CASE Operator
  BY <1>8, OperatorKeeps
<1>9. CASE UNCHANGED vars
  BY <1>9, RowStepKeeps DEF vars, rows, IInv, TypeOK
<1> QED BY <1>1, <1>2, <1>3, <1>4, <1>5, <1>6, <1>7, <1>8, <1>9 DEF Next

LEMMA Invariant == Spec => []IInv
BY InitHolds, StepKeeps, PTL DEF Spec

(* However polls fail, crash, overlap and repeat pages, and whatever the   *)
(* jobs write over each other's statuses: every record the cursor has      *)
(* passed is stored, and a failed one is in the operator's list.           *)
THEOREM NothingIsEverLost == Spec => []NothingIsLost
<1>1. IInv => NothingIsLost
  BY DEF IInv, PassedIsStored, FailedIsListed, Shown, NothingIsLost, Listed
<1> QED BY <1>1, Invariant, PTL

(* Only a poll that is marked as failed takes the cursor back, and then by *)
(* its own page: two polls never share a cursor.                           *)
THEOREM CursorNeverSkipsBack == Spec => CursorMovesForward
<1> DEFINE Forward == cursor' < cursor => polls'.attempts > 0 /\ cursor' = cursor - 1
<1>1. IInv /\ [Next]_vars => [Forward]_vars
  <2> SUFFICES ASSUME IInv, [Next]_vars PROVE Forward
    OBVIOUS
  <2>0. cursor \in Nat
    BY RecordFacts DEF IInv, TypeOK
  <2>1. ASSUME NEW p \in Pollers, PollFails(p) PROVE Forward
    <3>1. /\ job[p] # Idle /\ job[p] \in Work
          /\ cursor' = IF job[p].at = "discover" THEN cursor ELSE job[p].before
      BY <2>1, IdleFacts, NoneFacts DEF PollFails, IInv, TypeOK
    <3>2. cursor \in {job[p].before, job[p].before + 1} /\ job[p].before \in Nat
      BY <3>1, RecordFacts DEF IInv, PollInv, Work
    <3>3. polls'.attempts > 0
      BY <2>1, RowFacts DEF PollFails, IInv, TypeOK
    <3> QED BY <2>0, <3>1, <3>2, <3>3
  <2>2. ASSUME NEW p \in Pollers, Discover(p) PROVE Forward
    <3>1. cursor = job[p].before
      BY <2>2, IdleFacts DEF Discover, IInv, PollInv
    <3>2. cursor' \in {cursor, cursor + 1}
      BY <2>2, <3>1 DEF Discover, StorePage
    <3> QED BY <2>0, <3>2
  <2>3. CASE cursor' = cursor
    BY <2>0, <2>3
  <2>4. (\E p \in Pollers : PollFails(p) \/ Discover(p)) \/ cursor' = cursor
    BY DEF Next, StartPoll, StartRecovery, JobSteps, NormalizeNext, NormalizeFails,
       RecordNormalizeFailure, Offer, Requeue, IngestSteps, StoreRaw, NormalizeStored, IngestDone,
       IngestFails, RecordIngestFailure, TimePasses, Crash, Operator, RetryPoll, RetryNormalize,
       RetryIngest, vars
  <2> QED BY <2>1, <2>2, <2>3, <2>4
<1>2. Spec => [][Forward]_vars
  BY <1>1, Invariant, PTL DEF Spec
<1> QED BY <1>2 DEF CursorMovesForward

-----------------------------------------------------------------------------
(***************************************************************************)
(* Numbers.                                                                *)
(***************************************************************************)

(* The lesser and the greater of two numbers.                              *)
LEMMA LesserAndGreater ==
  ASSUME NEW a \in Int, NEW b \in Int
  PROVE  /\ Min({a, b}) = IF a <= b THEN a ELSE b
         /\ Max({a, b}) = IF a <= b THEN b ELSE a
         /\ Max({a, b}) \in Int /\ a <= Max({a, b}) /\ b <= Max({a, b})
<1>1. Min({a, b}) \in {a, b} /\ \A y \in {a, b} : Min({a, b}) <= y
  <2>1. \E x \in {a, b} : \A y \in {a, b} : x <= y
    OBVIOUS
  <2> QED
    BY <2>1 DEF Min
<1>2. Max({a, b}) \in {a, b} /\ \A y \in {a, b} : Max({a, b}) >= y
  <2>1. \E x \in {a, b} : \A y \in {a, b} : x >= y
    OBVIOUS
  <2> QED
    BY <2>1 DEF Max
<1> QED
  BY <1>1, <1>2

(* In which page of a listing an entry is.                                 *)
LEMMA Paging ==
  ASSUME NEW rank \in Nat, NEW size \in Nat \ {0}, NEW page \in Nat
  PROVE  /\ rank \div size + 1 \in Nat \ {0}
         /\ rank \div size + 1 = page => (page - 1) * size <= rank /\ rank < page * size
         /\ rank \div size + 1 > page => page * size <= rank
         /\ \A more \in Nat : rank <= more => rank \div size <= more \div size
         /\ page * size \in Int /\ (page - 1) * size \in Int
         /\ page * size - (page - 1) * size = size
<1>1. rank \div size \in Nat
  OBVIOUS
<1>2. rank \div size + 1 = page => (page - 1) * size <= rank /\ rank < page * size
  OBVIOUS
<1>3. rank \div size + 1 > page => page * size <= rank
  OBVIOUS
<1>4. ASSUME NEW more \in Nat, rank <= more
      PROVE  rank \div size <= more \div size
  BY <1>4
<1>5. page * size \in Int /\ (page - 1) * size \in Int /\ page * size - (page - 1) * size = size
  OBVIOUS
<1> QED
  BY <1>1, <1>2, <1>3, <1>4, <1>5

-----------------------------------------------------------------------------
(***************************************************************************)
(* The cursor of KONEPS.                                                   *)
(***************************************************************************)

Notices == [mode : Modes, at : Int]
Cursors == [start : Int, end : Int, mode : Modes \cup {"done"}, page : Nat \ {0}]

CursorTypes ==
  /\ minute \in Int /\ since \in Int
  /\ listed \subseteq Notices /\ IsFiniteSet(listed)
  /\ position = Unset \/ position \in Cursors

(* Neither the service nor a window is ahead of the clock.                 *)
ClockInv ==
  /\ \A e \in listed : e.at <= minute
  /\ position # Unset => position.end <= minute

CursorInv == CursorTypes /\ ClockInv /\ NothingIsSkipped

(* The sweep of a cursor has the entry before it, or its next window will. *)
AheadOf(e, s) ==
  /\ s.mode \in Modes /\ e.at \in s.start..s.end
  /\ \/ s.mode = "1" /\ e.mode = "3"
     \/ s.mode = e.mode /\ PageOf(e, s) >= s.page

NotMissed(e, s) == e \in found \/ AheadOf(e, s) \/ e.at >= s.end - Overlap

(* The number of entries before e in the window.                           *)
Rank(e, s) == Cardinality({f \in Window(s) : f.at < e.at})

(* What is assumed of the settings.                                        *)
LEMMA CursorConstants ==
  {Lookback, Overlap, Day, PageSize, PageBudget} \subseteq Nat \ {0} /\ Lag \in 0..Overlap
  BY CursorAssumption

(* Entries of a window have different places in it.                        *)
LEMMA Ranks ==
  ASSUME CursorTypes, NEW s \in Cursors
  PROVE  /\ IsFiniteSet(Window(s)) /\ Cardinality(Window(s)) \in Nat
         /\ \A e \in Window(s) : Rank(e, s) \in Nat /\ Rank(e, s) < Cardinality(Window(s))
         /\ \A e, f \in Window(s) : Rank(e, s) = Rank(f, s) => e = f
<1> DEFINE Before(e) == {f \in Window(s) : f.at < e.at}
<1>1. IsFiniteSet(Window(s)) /\ Cardinality(Window(s)) \in Nat
  <2>1. Window(s) \in SUBSET listed /\ IsFiniteSet(listed)
    BY DEF Window, CursorTypes
  <2>2. IsFiniteSet(Window(s))
    BY <2>1, FS_Subset
  <2> QED
    BY <2>2, FS_CardinalityType
<1>2. \A e \in Window(s) : e.at \in Int /\ e \in [mode : Modes, at : Int] /\ e.mode = s.mode
  BY DEF Window, CursorTypes, Notices
<1>3. ASSUME NEW e \in Window(s), NEW W \in SUBSET Window(s), Before(e) \subseteq W, e \in W
      PROVE  /\ IsFiniteSet(W) /\ Cardinality(W) \in Nat /\ Rank(e, s) \in Nat
             /\ Rank(e, s) < Cardinality(W)
  <2>1. IsFiniteSet(W) /\ Cardinality(W) \in Nat
    BY <1>1, FS_Subset, FS_CardinalityType
  <2>2. Before(e) \in SUBSET W /\ e \notin Before(e)
    BY <1>2, <1>3
  <2>3. IsFiniteSet(Before(e)) /\ Cardinality(Before(e)) \in Nat
    BY <2>1, <2>2, FS_Subset, FS_CardinalityType
  <2>4. Cardinality(Before(e)) <= Cardinality(W) /\ Cardinality(Before(e)) # Cardinality(W)
    BY <1>3, <2>1, <2>2, FS_Subset
  <2> QED
    BY <2>1, <2>3, <2>4 DEF Rank
<1>4. ASSUME NEW e \in Window(s)
      PROVE  Rank(e, s) \in Nat /\ Rank(e, s) < Cardinality(Window(s))
  <2>1. Window(s) \in SUBSET Window(s) /\ Before(e) \subseteq Window(s)
    OBVIOUS
  <2> QED
    BY <1>3, <2>1
<1>5. ASSUME NEW e \in Window(s), NEW f \in Window(s), e.at < f.at
      PROVE  Rank(e, s) < Rank(f, s)
  <2>1. Before(f) \in SUBSET Window(s) /\ Before(e) \subseteq Before(f) /\ e \in Before(f)
    BY <1>2, <1>5
  <2> QED
    BY <1>3, <2>1 DEF Rank
<1>6. ASSUME NEW e \in Window(s), NEW f \in Window(s), Rank(e, s) = Rank(f, s)
      PROVE  e = f
  <2>1. ~ (e.at < f.at) /\ ~ (f.at < e.at)
    BY <1>4, <1>5, <1>6
  <2>2. e.at = f.at /\ e.mode = f.mode
    BY <1>2, <2>1
  <2> QED
    BY <1>2, <2>2
<1> QED
  BY <1>1, <1>4, <1>6

(* A page has at most as many entries as its total says.                   *)
LEMMA PageIsFull ==
  ASSUME CursorTypes, NEW s \in Cursors,
         NEW items \in SUBSET {e \in Window(s) : PageOf(e, s) = s.page},
         Complete([total |-> Cardinality(Window(s)), items |-> items], s.page)
  PROVE  items = {e \in Window(s) : PageOf(e, s) = s.page}
<1> DEFINE page   == {e \in Window(s) : PageOf(e, s) = s.page}
           total  == Cardinality(Window(s))
           full   == s.page * PageSize
           first  == (s.page - 1) * PageSize
           last   == (IF full <= total THEN full ELSE total) - 1
           rest   == Max({0, total - first})
           place  == [e \in page |-> Rank(e, s)]
<1>1. /\ s.page \in Nat \ {0} /\ PageSize \in Nat \ {0} /\ total \in Nat
      /\ first \in Int /\ full \in Int /\ full - first = PageSize
  <2>1. s.page \in Nat \ {0} /\ PageSize \in Nat \ {0} /\ total \in Nat /\ 0 \in Nat
    BY CursorConstants, Ranks DEF Cursors
  <2> QED
    BY <2>1, Paging
<1>2. ASSUME NEW e \in page
      PROVE  Rank(e, s) \in first..last
  <2>1. e \in Window(s) /\ Rank(e, s) \div PageSize + 1 = s.page
    BY DEF PageOf, Rank
  <2>2. Rank(e, s) \in Nat /\ Rank(e, s) < total
    BY <2>1, Ranks
  <2>3. first <= Rank(e, s) /\ Rank(e, s) < full
    BY <1>1, <2>1, <2>2, Paging
  <2> HIDE DEF first, full, total
  <2> QED
    BY <1>1, <2>2, <2>3
<1>3. place \in Injection(page, first..last)
  BY <1>2, Ranks DEF Injection, IsInjective
<1> HIDE DEF place, first, full, total
<1>4. /\ last \in Int /\ IsFiniteSet(first..last)
      /\ Cardinality(first..last) = IF first > last THEN 0 ELSE last - first + 1
  BY <1>1, FS_Interval
<1>5. /\ IsFiniteSet(page) /\ Cardinality(page) \in Nat
      /\ Cardinality(page) <= Cardinality(first..last)
  BY <1>3, <1>4, FS_Injection, FS_CardinalityType
<1>6. total - first \in Int /\ rest = IF 0 <= total - first THEN total - first ELSE 0
  <2>1. 0 \in Int /\ total - first \in Int
    BY <1>1
  <2>2. rest = IF 0 <= total - first THEN total - first ELSE 0
    BY <2>1, LesserAndGreater, Zenon
  <2> QED
    BY <2>1, <2>2
<1>7. Cardinality(items) = IF PageSize <= rest THEN PageSize ELSE rest
  <2>1. Cardinality(items) = Min({PageSize, rest})
    BY DEF Complete, total, first
  <2>2. PageSize \in Int /\ rest \in Int
    BY <1>1, <1>6
  <2> HIDE DEF rest
  <2> QED
    BY <2>1, <2>2, LesserAndGreater
<1> HIDE DEF rest
<1>8. Cardinality(first..last) <= Cardinality(items)
  BY <1>1, <1>4, <1>6, <1>7
<1>9. items \in SUBSET page /\ Cardinality(items) <= Cardinality(page) /\ Cardinality(items) \in Nat
  BY <1>5, FS_Subset, FS_CardinalityType
<1>10. Cardinality(items) = Cardinality(page)
  <2>1. Cardinality(first..last) \in Int
    BY <1>1, <1>4
  <2> QED
    BY <1>5, <1>8, <1>9, <2>1
<1> QED
  BY <1>5, <1>9, <1>10, FS_Subset

(* A page that is taken moves the cursor on, and no entry is left behind:  *)
(* one on this page is stored, one on a later page or in the other mode is *)
(* still before the cursor.                                                *)
LEMMA PageTaken ==
  ASSUME CursorTypes, NEW s \in Cursors, s.mode \in Modes,
         NEW items \in SUBSET {e \in Window(s) : PageOf(e, s) = s.page},
         Complete([total |-> Cardinality(Window(s)), items |-> items], s.page),
         NEW t, t = Advance(s, Cardinality(Window(s)))
  PROVE  /\ t \in Cursors /\ t.end = s.end
         /\ \A e \in listed : NotMissed(e, s) => e \in items \/ NotMissed(e, t)
<1> DEFINE total == Cardinality(Window(s))
           more  == s.page * PageSize < total
<1>1. /\ s.page \in Nat \ {0} /\ s.start \in Int /\ s.end \in Int /\ s.mode \in {"1", "3"}
      /\ PageSize \in Nat \ {0} /\ 0 \in Nat
  BY CursorConstants DEF Cursors, Modes
<1>2. s.page * PageSize \in Int /\ total \in Nat
  BY <1>1, Paging, Ranks
<1>3. CASE more
  <2>1. t = [s EXCEPT !.page = s.page + 1] /\ s.page + 1 \in Nat \ {0}
    BY <1>1, <1>3 DEF Advance
  <2>2. /\ t \in Cursors /\ t.page = s.page + 1
        /\ t.start = s.start /\ t.end = s.end /\ t.mode = s.mode
    BY <2>1, Zenon DEF Cursors
  <2>3. Window(t) = Window(s)
    BY <2>2 DEF Window
  <2>4. ASSUME NEW e \in listed, AheadOf(e, s), e \notin items
        PROVE  AheadOf(e, t)
    <3>1. CASE s.mode = "1" /\ e.mode = "3"
      BY <2>2, <2>4, <3>1 DEF AheadOf
    <3>2. CASE s.mode = e.mode /\ PageOf(e, s) >= s.page
      <4>1. e \in Window(s)
        BY <2>4, <3>2 DEF AheadOf, Window
      <4>2. PageOf(e, s) \in Nat /\ PageOf(e, t) = PageOf(e, s)
        BY <1>1, <2>3, <4>1, Ranks, Paging DEF PageOf, Rank
      <4>3. PageOf(e, s) # s.page
        BY <2>4, <4>1, PageIsFull
      <4> QED
        BY <1>1, <2>2, <2>4, <3>2, <4>2, <4>3 DEF AheadOf
    <3> QED
      BY <2>4, <3>1, <3>2 DEF AheadOf
  <2> QED
    BY <2>2, <2>4 DEF NotMissed
<1>4. CASE ~ more
  <2>1. t = IF s.mode = "1" THEN [s EXCEPT !.mode = "3", !.page = 1]
                            ELSE [s EXCEPT !.mode = "done", !.page = 1]
    BY <1>4 DEF Advance
  <2>2. /\ t \in Cursors /\ t.page = 1 /\ t.start = s.start /\ t.end = s.end
        /\ t.mode = IF s.mode = "1" THEN "3" ELSE "done"
    <3>1. 1 \in Nat \ {0} /\ "3" \in Modes \cup {"done"}
      BY DEF Modes
    <3>2. CASE s.mode = "1"
      BY <2>1, <3>1, <3>2, Zenon DEF Cursors
    <3>3. CASE s.mode # "1"
      BY <2>1, <3>1, <3>3, Zenon DEF Cursors
    <3> QED
      BY <3>2, <3>3
  <2>3. ASSUME NEW e \in listed, AheadOf(e, s), e \notin items
        PROVE  AheadOf(e, t)
    <3>1. CASE s.mode = "1" /\ e.mode = "3"
      <4>1. e \in Window(t)
        BY <2>2, <2>3, <3>1 DEF AheadOf, Window
      <4>2. PageOf(e, t) \in Nat \ {0}
        BY <1>1, <2>2, <4>1, Ranks, Paging DEF PageOf, Rank
      <4> QED
        BY <2>2, <2>3, <3>1, <4>2 DEF AheadOf, Modes
    <3>2. CASE s.mode = e.mode /\ PageOf(e, s) >= s.page
      <4>1. e \in Window(s)
        BY <2>3, <3>2 DEF AheadOf, Window
      <4>2. Rank(e, s) \in Nat /\ Rank(e, s) < total /\ PageOf(e, s) = Rank(e, s) \div PageSize + 1
        BY <4>1, Ranks DEF PageOf, Rank
      <4>3. PageOf(e, s) # s.page
        BY <2>3, <4>1, PageIsFull
      <4>4. PageOf(e, s) > s.page
        BY <1>1, <3>2, <4>2, <4>3, Paging
      <4>5. s.page * PageSize <= Rank(e, s)
        BY <1>1, <4>2, <4>4, Paging
      <4> HIDE DEF total
      <4> QED
        BY <1>2, <1>4, <4>2, <4>5
    <3> QED
      BY <2>3, <3>1, <3>2 DEF AheadOf
  <2> QED
    BY <2>2, <2>3 DEF NotMissed
<1> QED
  BY <1>3, <1>4

(* What is asked for next covers what the cursor does not have behind it.  *)
LEMMA AskedCovers ==
  ASSUME CursorInv
  PROVE  /\ Asked \in Cursors /\ Asked.mode \in Modes /\ Asked.end <= minute
         /\ \A e \in listed :
              e.at >= (IF position = Unset THEN Asked.start ELSE since) => NotMissed(e, Asked)
<1>1. /\ minute \in Int /\ Lookback \in Int /\ Overlap \in Int /\ Day \in Int /\ Overlap >= 0
      /\ PageSize \in Nat \ {0} /\ 0 \in Nat /\ 1 \in Nat \ {0} /\ "1" \in Modes
      /\ \A e \in listed : e \in Notices /\ e.at \in Int /\ e.mode \in {"1", "3"} /\ e.at <= minute
  BY CursorConstants DEF CursorInv, CursorTypes, ClockInv, Notices, Modes
(* A window's first page has the whole window before it.                   *)
<1>2. ASSUME NEW s \in Cursors, s.mode = "1", s.page = 1, NEW e \in listed, e.at \in s.start..s.end
      PROVE  AheadOf(e, s)
  <2>1. CASE e.mode = "3"
    BY <1>1, <1>2, <2>1 DEF AheadOf
  <2>2. CASE e.mode = "1"
    <3>1. e \in Window(s)
      BY <1>2, <2>2 DEF Window
    <3>2. PageOf(e, s) \in Nat \ {0}
      BY <1>1, <3>1, Ranks, Paging DEF CursorInv, PageOf, Rank
    <3> QED
      BY <1>1, <1>2, <2>2, <3>2 DEF AheadOf
  <2> QED
    BY <1>1, <2>1, <2>2
<1>3. CASE position = Unset
  <2>1. Asked = [start |-> minute - Lookback, end |-> minute, mode |-> "1", page |-> 1]
    BY <1>3 DEF Asked, Unset, Modes
  <2>2. minute - Lookback \in Int
    BY <1>1
  <2>3. /\ Asked \in Cursors /\ Asked.start = minute - Lookback /\ Asked.end = minute
        /\ Asked.mode = "1" /\ Asked.page = 1
    BY <1>1, <2>1, <2>2, Zenon DEF Cursors
  <2>4. ASSUME NEW e \in listed, e.at >= Asked.start
        PROVE  AheadOf(e, Asked)
    <3>1. e.at \in Asked.start..Asked.end
      BY <1>1, <2>3, <2>4
    <3> QED
      BY <1>2, <2>3, <3>1
  <2> QED
    BY <1>1, <1>3, <2>3, <2>4 DEF NotMissed
<1>4. CASE position # Unset /\ position.mode = "done"
  <2> DEFINE last == position.end - Overlap + Day
             end  == Min({minute, last})
  <2>1. Asked = [start |-> position.end - Overlap, end |-> end, mode |-> "1", page |-> 1]
    BY <1>4 DEF Asked, Follows, Modes
  <2>2. position.end \in Int /\ position.end - Overlap \in Int /\ last \in Int
    BY <1>1, <1>4 DEF CursorInv, CursorTypes, Cursors
  <2> HIDE DEF last
  <2>3. end = IF minute <= last THEN minute ELSE last
    BY <1>1, <2>2, LesserAndGreater, Zenon
  <2>4. end \in Int /\ end <= minute
    BY <1>1, <2>2, <2>3
  <2> HIDE DEF end
  <2>5. /\ Asked \in Cursors /\ Asked.start = position.end - Overlap /\ Asked.end = end
        /\ Asked.mode = "1" /\ Asked.page = 1
    BY <1>1, <2>1, <2>2, <2>4, Zenon DEF Cursors
  <2>6. ASSUME NEW e \in listed, e.at >= since
        PROVE  NotMissed(e, Asked)
    <3>1. CASE e \in found
      BY <3>1 DEF NotMissed
    <3>2. CASE e \notin found
      <4>1. e.at >= position.end - Overlap
        BY <1>4, <2>6, <3>2 DEF CursorInv, NothingIsSkipped, Ahead, Modes
      <4>2. CASE e.at <= end
        BY <1>1, <1>2, <2>2, <2>4, <2>5, <4>1, <4>2 DEF NotMissed
      <4>3. CASE e.at > end
        BY <1>1, <2>4, <2>5, <4>3 DEF NotMissed
      <4> QED
        BY <1>1, <2>4, <4>2, <4>3
    <3> QED
      BY <3>1, <3>2
  <2> QED
    BY <1>1, <1>4, <2>4, <2>5, <2>6
<1>5. CASE position # Unset /\ position.mode # "done"
  <2>1. position \in Cursors /\ position.mode \in Modes
    BY <1>5 DEF CursorInv, CursorTypes, Cursors
  <2>2. Asked = position
    BY <1>5, <2>1 DEF Asked
  <2>3. \A e \in listed : e.at >= since => NotMissed(e, position)
    BY <1>5 DEF CursorInv, NothingIsSkipped, Ahead, NotMissed, AheadOf
  <2> QED
    BY <1>5, <2>1, <2>2, <2>3 DEF CursorInv, ClockInv
<1> QED
  BY <1>3, <1>4, <1>5

(* A page is read, or the reader goes on with the next window.             *)
LEMMA ReadPageKeeps ==
  ASSUME CursorInv, ReadPage
  PROVE  CursorInv'
<1> DEFINE total == Cardinality(Window(Asked))
<1>1. PICK answer \in Answers(Asked) :
        /\ Complete(answer, Asked.page)
        /\ found' = found \cup answer.items
        /\ position' = Advance(Asked, answer.total)
  BY DEF ReadPage
<1>2. /\ since' = IF position = Unset THEN Asked.start ELSE since
      /\ UNCHANGED <<minute, listed>>
  BY DEF ReadPage
<1>3. PICK items \in SUBSET {e \in Window(Asked) : PageOf(e, Asked) = Asked.page} :
        answer = [total |-> total, items |-> items]
  BY DEF Answers
<1>4. /\ Complete([total |-> total, items |-> items], Asked.page)
      /\ found' = found \cup items /\ position' = Advance(Asked, total)
  BY <1>1, <1>3
<1>5. /\ CursorTypes /\ Asked \in Cursors /\ Asked.mode \in Modes /\ Asked.end <= minute
      /\ \A e \in listed :
           e.at >= (IF position = Unset THEN Asked.start ELSE since) => NotMissed(e, Asked)
  BY AskedCovers DEF CursorInv
<1>6. /\ position' \in Cursors /\ position'.end = Asked.end
      /\ \A e \in listed : NotMissed(e, Asked) => e \in items \/ NotMissed(e, position')
  BY <1>4, <1>5, PageTaken
<1>7. CursorTypes'
  BY <1>2, <1>5, <1>6 DEF CursorTypes, Cursors
<1>8. ClockInv'
  BY <1>2, <1>5, <1>6 DEF CursorInv, ClockInv
<1>9. NothingIsSkipped'
  <2> SUFFICES ASSUME NEW e \in listed, e.at >= since'
               PROVE  e \in found' \/ Ahead(e)' \/ e.at >= position'.end - Overlap
    BY <1>2 DEF NothingIsSkipped
  <2>1. e \in items \/ NotMissed(e, position')
    BY <1>2, <1>5, <1>6
  <2>2. AheadOf(e, position') => Ahead(e)'
    BY <1>2 DEF AheadOf, Ahead, PageOf, Window
  <2> QED
    BY <1>4, <2>1, <2>2 DEF NotMissed
<1> QED
  BY <1>7, <1>8, <1>9 DEF CursorInv

(* A late entry falls into the window that follows; those of the window    *)
(* move to a later page at most.                                           *)
LEMMA PublishKeeps ==
  ASSUME CursorInv, NEW e \in Entries, Publish(e)
  PROVE  CursorInv'
<1>1. /\ e.at \in (minute - Lag)..minute /\ listed' = listed \cup {e}
      /\ UNCHANGED <<minute, position, since, found>>
      /\ minute \in Int /\ Lag \in Int /\ Lag <= Overlap /\ Overlap \in Int
      /\ PageSize \in Nat \ {0}
  BY CursorConstants DEF Publish, CursorInv, CursorTypes
<1>2. e \in Notices
  BY CursorAssumption DEF Entries, Notices
<1>3. CursorTypes'
  BY <1>1, <1>2, FS_AddElement DEF CursorInv, CursorTypes
<1>4. ClockInv'
  BY <1>1 DEF CursorInv, ClockInv
<1>5. ASSUME position # Unset, NEW f \in listed, Ahead(f)
      PROVE  Ahead(f)'
  <2>1. position \in Cursors
    BY <1>5 DEF CursorInv, CursorTypes
  <2>2. CASE position.mode = "1" /\ f.mode = "3"
    BY <1>1, <1>5, <2>2 DEF Ahead
  <2>3. CASE position.mode = f.mode /\ PageOf(f, position) >= position.page
    <3> DEFINE Before == {g \in Window(position) : g.at < f.at}
    <3>1. /\ f \in Window(position) /\ f \in Window(position)'
          /\ Window(position) \subseteq Window(position)'
      BY <1>1, <1>5, <2>3 DEF Ahead, Window
    <3>2. IsFiniteSet(Window(position)')
      <4>1. Window(position)' \in SUBSET listed' /\ IsFiniteSet(listed')
        BY <1>3 DEF Window, CursorTypes
      <4> QED
        BY <4>1, FS_Subset
    <3>3. Before \in SUBSET Before' /\ Before' \in SUBSET Window(position)'
      BY <1>1, <3>1
    <3>4. IsFiniteSet(Before')
      BY <3>2, <3>3, FS_Subset
    <3>5. /\ Cardinality(Before) \in Nat /\ Cardinality(Before') \in Nat
          /\ Cardinality(Before) <= Cardinality(Before')
      BY <3>3, <3>4, FS_Subset, FS_CardinalityType
    <3>6. PageOf(f, position) = Cardinality(Before) \div PageSize + 1
      BY DEF PageOf
    <3>7. PageOf(f, position)' = Cardinality(Before') \div PageSize + 1
      BY DEF PageOf
    <3> HIDE DEF Before
    <3>8. /\ PageOf(f, position) \in Nat /\ PageOf(f, position)' \in Nat
          /\ PageOf(f, position) <= PageOf(f, position)'
      <4>1. /\ Cardinality(Before) \div PageSize <= Cardinality(Before') \div PageSize
            /\ Cardinality(Before) \div PageSize \in Nat
            /\ Cardinality(Before') \div PageSize \in Nat
        BY <1>1, <3>5
      <4> QED
        BY <3>6, <3>7, <4>1
    <3>9. PageOf(f, position)' >= position.page
      BY <2>1, <2>3, <3>8 DEF Cursors
    <3> QED
      BY <1>1, <1>5, <2>3, <3>9 DEF Ahead
  <2> QED
    BY <1>5, <2>2, <2>3 DEF Ahead
<1>6. NothingIsSkipped'
  <2> SUFFICES ASSUME position # Unset, NEW f \in listed', f.at >= since
               PROVE  f \in found \/ Ahead(f)' \/ f.at >= position.end - Overlap
    BY <1>1 DEF NothingIsSkipped
  <2>1. CASE f \in listed
    BY <1>5, <2>1 DEF CursorInv, NothingIsSkipped
  <2>2. CASE f = e
    <3>1. position.end \in Int /\ position.end <= minute /\ e.at \in Int
      BY <1>2 DEF CursorInv, CursorTypes, ClockInv, Cursors, Notices
    <3> QED
      BY <1>1, <2>2, <3>1
  <2> QED
    BY <1>1, <2>1, <2>2
<1> QED
  BY <1>3, <1>4, <1>6 DEF CursorInv

(* Every step keeps the invariant.                                         *)
LEMMA CursorStepKeeps == CursorInv /\ [CursorNext]_cursorVars => CursorInv'
<1> SUFFICES ASSUME CursorInv, [CursorNext]_cursorVars
             PROVE  CursorInv'
  OBVIOUS
<1>1. ASSUME UNCHANGED <<listed, position, since, found>>, minute' \in Int, minute <= minute'
      PROVE  CursorInv'
  <2>1. CursorTypes'
    BY <1>1 DEF CursorInv, CursorTypes
  <2>2. ClockInv'
    BY <1>1 DEF CursorInv, CursorTypes, ClockInv, Notices, Cursors
  <2>3. NothingIsSkipped'
    BY <1>1 DEF CursorInv, NothingIsSkipped, Ahead, PageOf, Window
  <2> QED
    BY <2>1, <2>2, <2>3 DEF CursorInv
<1>2. ASSUME NEW e \in Entries, Publish(e)
      PROVE  CursorInv'
  BY <1>2, PublishKeeps
<1>3. CASE MinutePasses
  BY <1>1, <1>3 DEF MinutePasses, CursorInv, CursorTypes
<1>4. CASE PollPages \/ PageRefused
  BY <1>1, <1>4 DEF PollPages, PageRefused, CursorInv, CursorTypes
<1>5. CASE ReadPage
  BY <1>5, ReadPageKeeps
<1>6. CASE UNCHANGED cursorVars
  BY <1>1, <1>6 DEF cursorVars, CursorInv, CursorTypes
<1> QED
  BY <1>2, <1>3, <1>4, <1>5, <1>6 DEF CursorNext

(* koneps.py: whatever pages are refused or cut short, and however late an *)
(* entry is listed, it is stored, or still before the cursor, or falls     *)
(* into the window that follows.                                           *)
THEOREM NothingIsEverSkipped == CursorSpec => []NothingIsSkipped
<1>1. CursorInit => CursorInv
  <2> SUFFICES ASSUME CursorInit
               PROVE  CursorInv
    OBVIOUS
  <2>1. Lookback \in Nat /\ IsFiniteSet({})
    BY CursorConstants, FS_EmptySet
  <2> DEFINE a == [mode |-> "1", at |-> 0]
             b == [mode |-> "1", at |-> Lookback]
  <2>2. a \in Notices /\ b \in Notices /\ a.at <= Lookback /\ b.at <= Lookback
    BY <2>1 DEF Notices, Modes
  <2> HIDE DEF a, b
  <2>3. IsFiniteSet({a, b})
    <3>1. {a, b} = {a} \cup {b} /\ IsFiniteSet({a})
      BY FS_Singleton
    <3> QED
      BY <3>1, FS_AddElement
  <2>4. /\ minute = Lookback /\ position = Unset /\ since = 0 /\ listed \in {{}, {a, b}}
    BY DEF CursorInit, a, b
  <2> QED
    BY <2>1, <2>2, <2>3, <2>4 DEF CursorInv, CursorTypes, ClockInv, NothingIsSkipped
<1>2. CursorInv => NothingIsSkipped
  BY DEF CursorInv
<1> QED
  BY <1>1, <1>2, CursorStepKeeps, PTL DEF CursorSpec

-----------------------------------------------------------------------------
(***************************************************************************)
(* RetryAfter.                                                             *)
(***************************************************************************)

(* A cooldown is over.                                                     *)
Elapsed == demand <= second

Policies == [kind : {"none", "time", "review"}, at : Int]
Requests == [at : {"idle", "sent", "asleep"}, attempt : Int, deadline : Int, wake : Int,
             policy : Policies]
Failings == [at : {"no", "raised"}, transient : BOOLEAN, policy : Policies]

RetryTypes ==
      /\ second \in Nat /\ demand \in Int
      /\ request \in Requests /\ failing \in Failings
      /\ failure \in [attempts : Int, dead : BOOLEAN, next : Int]

(* Where what the upstream asked for is kept until it is over: in the      *)
(* sleep, and beside it in the request's memory, for the deadline may cut  *)
(* the sleep short; in the exception; in the failure row.                  *)
CooldownInv ==
  /\ request.at = "sent" => Elapsed
  /\ request.at = "asleep" => Elapsed \/ (demand <= request.wake /\ demand <= request.policy.at)
  /\ failing.at = "raised" /\ failing.transient => Elapsed \/ demand <= failing.policy.at
  /\ request.at = "idle" /\ failing.at = "no" => failure.dead \/ Elapsed \/ demand <= failure.next

(* A failure is only on its way when its request is over.                  *)
OneAtATime ==
  /\ request.at = "idle" => request = NoRequest
  /\ failing.at = "no" => failing = NoFailure
  /\ failing.at = "raised" => request.at = "idle"

RetryInv == RetryTypes /\ OneAtATime /\ CooldownInv

(* Nothing is under way.                                                   *)
LEMMA NothingUnderWay ==
  /\ NoPolicy \in Policies /\ NoRequest \in Requests /\ NoFailure \in Failings
  /\ NoRequest.at = "idle" /\ NoFailure.at = "no"
BY DEF NoPolicy, NoRequest, NoFailure, Policies, Requests, Failings

(* A request that ends by an exception: its policy is not forgotten.       *)
LEMMA RaiseKeeps ==
  ASSUME RetryInv, request.at # "idle", NEW transient \in BOOLEAN,
         NEW policy \in Policies,
         Raise(transient, policy), UNCHANGED <<second, failure>>, demand' \in Int,
         transient /\ policy.kind # "review" => demand' <= second \/ demand' <= policy.at
  PROVE  RetryInv'
<1>1. /\ failing' = [at |-> "raised", transient |-> transient /\ policy.kind # "review",
                     policy |-> policy]
      /\ request' = NoRequest /\ second' = second /\ failure' = failure
  BY DEF Raise
<1>2. failing' \in Failings /\ failing'.at = "raised" /\ failing'.policy = policy
  BY <1>1 DEF Failings
<1>3. failing'.transient => demand' <= second \/ demand' <= policy.at
  BY <1>1
<1>4. NoRequest \in Requests /\ NoRequest.at = "idle"
  BY NothingUnderWay
<1>5. RetryTypes'
  BY <1>1, <1>2, <1>4 DEF RetryInv, RetryTypes, Requests, Failings, Policies
<1> QED
  BY <1>1, <1>2, <1>3, <1>4, <1>5 DEF RetryInv, OneAtATime, CooldownInv, Elapsed

(* A wait before another attempt: it is as long as this answer asks.       *)
LEMMA SleepKeeps ==
  ASSUME RetryInv, request.at = "sent",
         NEW policy \in Policies,
         NEW remembered \in Policies,
         SleepBeforeRetry(policy, remembered), UNCHANGED <<second, failure>>, demand' \in Int,
         \/ demand' = demand /\ policy = NoPolicy
         \/ policy = Review
         \/ policy = Time(demand') /\ remembered = policy
  PROVE  RetryInv'
<1>1. RetryTypes /\ Elapsed /\ failing.at = "no"
  BY DEF RetryInv, RetryTypes, OneAtATime, CooldownInv, Requests, Failings, Policies
<1>2. PICK jitter \in Jitters :
        IF policy = Review \/ Delay(jitter, policy) >= request.deadline - second
          THEN Raise(TRUE, IF policy = NoPolicy THEN remembered ELSE policy)
          ELSE /\ request' = [request EXCEPT !.at = "asleep", !.wake = second + Delay(jitter, policy),
                                             !.policy = remembered]
               /\ UNCHANGED failing
  BY DEF SleepBeforeRetry
<1>3. /\ Delay(jitter, policy) \in Int
      /\ policy.kind = "time" => policy.at <= second + Delay(jitter, policy)
  <2> DEFINE backoff == 2^(request.attempt - 1) + jitter
  <2>1. backoff \in Int /\ policy.at - second \in Int
    BY <1>1, RetryAssumption DEF RetryTypes, Requests, Failings, Policies
  <2>2. Delay(jitter, policy) =
          IF policy.kind = "time" THEN Max({backoff, policy.at - second}) ELSE backoff
    BY DEF Delay
  <2> HIDE DEF backoff
  <2>3. /\ Max({backoff, policy.at - second}) \in Int
        /\ policy.at - second <= Max({backoff, policy.at - second})
    BY <2>1, LesserAndGreater
  <2> QED
    BY <1>1, <2>1, <2>2, <2>3 DEF RetryTypes, Requests, Failings, Policies
<1>4. CASE policy = Review \/ Delay(jitter, policy) >= request.deadline - second
  <2> DEFINE kept == IF policy = NoPolicy THEN remembered ELSE policy
  <2>1. Raise(TRUE, kept) /\ kept \in Policies
    BY <1>2, <1>4
  <2>2. kept.kind # "review" => demand' <= second \/ demand' <= kept.at
    BY <1>1 DEF Elapsed, Review, NoPolicy, Time
  <2> HIDE DEF kept
  <2> QED
    BY <2>1, <2>2, RaiseKeeps
<1>5. CASE ~ (policy = Review \/ Delay(jitter, policy) >= request.deadline - second)
  <2>1. /\ request' = [request EXCEPT !.at = "asleep", !.wake = second + Delay(jitter, policy),
                                      !.policy = remembered]
        /\ UNCHANGED failing
    BY <1>2, <1>5
  <2>2. RetryTypes'
    <3>1. second + Delay(jitter, policy) \in Int /\ request \in Requests
      BY <1>1, <1>3 DEF RetryTypes
    <3>2. request' \in Requests
      BY <2>1, <3>1 DEF Requests
    <3> QED
      BY <1>1, <2>1, <3>2 DEF RetryTypes
  <2>3. demand' <= second \/ (demand' <= second + Delay(jitter, policy) /\ demand' <= remembered.at)
    BY <1>1, <1>3, <1>5 DEF Elapsed, Review, NoPolicy, Time
  <2>4. /\ request'.at = "asleep" /\ request'.wake = second + Delay(jitter, policy)
        /\ request'.policy = remembered
    BY <1>1, <2>1 DEF RetryTypes, Requests, Failings, Policies
  <2> QED
    BY <1>1, <2>1, <2>2, <2>3, <2>4 DEF RetryInv, OneAtATime, CooldownInv, Elapsed
<1> QED
  BY <1>4, <1>5

(* An answer of the upstream that asks for a pause, or not.                *)
LEMMA RefuseKeeps ==
  ASSUME RetryInv, request.at = "sent", UNCHANGED <<second, failure>>, demand' \in Int,
         NEW policy \in Policies, Refuse(policy),
         \/ demand' = demand /\ policy = NoPolicy
         \/ policy = Review
         \/ policy = Time(demand')
  PROVE  RetryInv'
<1>1. CASE request.attempt = RequestTries
  <2>1. Raise(TRUE, policy)
    BY <1>1 DEF Refuse
  <2>2. policy.kind # "review" => demand' <= second \/ demand' <= policy.at
    BY DEF RetryInv, RetryTypes, CooldownInv, Elapsed, Review, NoPolicy, Time, Requests,
       Failings, Policies
  <2> QED
    BY <2>1, <2>2, RaiseKeeps
<1>2. CASE request.attempt # RequestTries
  BY <1>2, SleepKeeps DEF Refuse
<1> QED
  BY <1>1, <1>2

(* Every step keeps the invariant.                                         *)
LEMMA RetryStepKeeps == RetryInv /\ [RetryNext]_retryVars => RetryInv'
<1> SUFFICES ASSUME RetryInv, [RetryNext]_retryVars
             PROVE  RetryInv'
  OBVIOUS
<1> USE RetryAssumption
<1>1. CASE Send
  <2>1. /\ failing.at = "no" /\ request.at = "idle" /\ Elapsed
        /\ UNCHANGED <<second, failing, failure, demand>>
        /\ request' = [NoRequest EXCEPT !.at = "sent", !.attempt = 1,
                                        !.deadline = second + TotalTimeout]
    BY <1>1, NothingUnderWay DEF Send, RetryInv, RetryTypes, CooldownInv, Elapsed, Requests,
       Failings, Policies
  <2>2. request' \in Requests /\ request'.at = "sent"
    <3>1. second + TotalTimeout \in Int /\ 1 \in Int
      BY DEF RetryInv, RetryTypes
    <3> QED
      BY <2>1, <3>1, NothingUnderWay, Zenon DEF Requests
  <2> QED
    BY <2>1, <2>2 DEF RetryInv, RetryTypes, OneAtATime, CooldownInv, Elapsed, Requests,
       Failings, Policies
<1>2. CASE Refused
  <2>1. request.at = "sent" /\ UNCHANGED <<second, failure>>
    BY <1>2 DEF Refused
  <2>2. CASE Refuse(NoPolicy) /\ UNCHANGED demand
    <3>1. NoPolicy \in Policies /\ demand' \in Int
      BY <2>2 DEF NoPolicy, RetryInv, RetryTypes, Requests, Failings, Policies
    <3> QED
      BY <2>1, <2>2, <3>1, RefuseKeeps
  <2>3. ASSUME NEW asked \in Pauses, Refuse(Policy(asked)), demand' = Demanded(asked)
        PROVE  RetryInv'
    <3>1. /\ Policy(asked) \in Policies /\ demand' \in Int
          /\ Policy(asked) = Review \/ Policy(asked) = Time(demand')
      BY <2>3 DEF Policy, Demanded, Review, Time, RetryInv, RetryTypes, Requests, Failings,
         Policies
    <3> QED
      BY <2>1, <2>3, <3>1, RefuseKeeps
  <2> QED
    BY <1>2, <2>2, <2>3 DEF Refused
<1>3. CASE Unreachable
  <2>1. /\ request.at = "sent" /\ UNCHANGED <<second, failure, demand>> /\ demand' \in Int
        /\ request.policy \in Policies
        /\ NoPolicy \in Policies
    BY <1>3 DEF Unreachable, NoPolicy, RetryInv, RetryTypes, Requests, Failings, Policies
  <2>2. CASE request.attempt = RequestTries
    <3>1. Raise(TRUE, NoPolicy)
      BY <1>3, <2>2 DEF Unreachable
    <3>2. demand' <= second
      BY <2>1 DEF RetryInv, CooldownInv, Elapsed
    <3> QED
      BY <2>1, <3>1, <3>2, RaiseKeeps
  <2>3. CASE request.attempt # RequestTries
    <3>1. SleepBeforeRetry(NoPolicy, request.policy)
      BY <1>3, <2>3 DEF Unreachable
    <3> QED
      BY <2>1, <3>1, SleepKeeps
  <2> QED
    BY <2>2, <2>3
<1>4. CASE Wake
  <2>1. /\ request.at = "asleep" /\ request.wake <= second
        /\ UNCHANGED <<second, failing, failure, demand>>
        /\ request' = [request EXCEPT !.at = "sent", !.attempt = @ + 1] /\ request \in Requests
    BY <1>4 DEF Wake, RetryInv, RetryTypes, Requests, Failings, Policies
  <2>2. request' \in Requests /\ request'.at = "sent" /\ request.wake \in Int
    <3>1. request.attempt + 1 \in Int /\ request.wake \in Int
      BY <2>1 DEF Requests
    <3> QED
      BY <2>1, <3>1, Zenon DEF Requests
  <2>3. Elapsed'
    BY <2>1, <2>2 DEF RetryInv, RetryTypes, CooldownInv, Elapsed, Requests, Failings, Policies
  <2> QED
    BY <2>1, <2>2, <2>3 DEF RetryInv, RetryTypes, OneAtATime, CooldownInv, Requests, Failings,
       Policies
<1>5. CASE DeadlineFires
  <2>1. /\ request.at \in {"sent", "asleep"} /\ UNCHANGED <<second, failure, demand>>
        /\ demand' \in Int
        /\ request.policy \in Policies
        /\ Raise(TRUE, request.policy)
    BY <1>5 DEF DeadlineFires, RetryInv, RetryTypes, Requests, Failings, Policies
  <2>2. demand' <= second \/ demand' <= request.policy.at
    BY <2>1 DEF RetryInv, CooldownInv, Elapsed
  <2> QED
    BY <2>1, <2>2, RaiseKeeps
<1>6. CASE Rejected
  <2>1. /\ NoPolicy \in Policies /\ demand' \in Int
        /\ request.at = "sent" /\ Raise(FALSE, NoPolicy) /\ UNCHANGED <<second, failure>>
    BY <1>6, NothingUnderWay DEF Rejected, RetryInv, RetryTypes
  <2> QED
    BY <2>1, RaiseKeeps
<1>7. CASE Answered
  BY <1>7, SMTT(30) DEF Answered, RetryInv, RetryTypes, OneAtATime, CooldownInv, Elapsed,
     NoRequest, NoFailure, NoPolicy, Requests, Failings, Policies
<1>8. CASE RecordFailure
  <2> DEFINE attempts == failure.attempts + 1
             dead     == ~ failing.transient \/ attempts >= JobTries
  <2>1. /\ failing.at = "raised" /\ UNCHANGED <<second, request, demand>> /\ failing' = NoFailure
        /\ failure' = [attempts |-> attempts, dead |-> dead,
                       next |-> IF dead THEN 0 ELSE RetryAt(attempts, failing.policy)]
    BY <1>8 DEF RecordFailure
  <2>2. attempts \in Int /\ dead \in BOOLEAN /\ (~ dead => failing.transient)
    BY DEF RetryInv, RetryTypes, Requests, Failings, Policies
  <2> HIDE DEF attempts, dead
  <2>3. /\ RetryAt(attempts, failing.policy) \in Int
        /\ failing.policy.at <= RetryAt(attempts, failing.policy)
    <3> DEFINE backoff == second + 2^attempts
    <3>1. backoff \in Int /\ failing.policy.at \in Int
      BY <2>2 DEF RetryInv, RetryTypes, Requests, Failings, Policies
    <3>2. RetryAt(attempts, failing.policy) = Max({backoff, failing.policy.at})
      BY DEF RetryAt
    <3> HIDE DEF backoff
    <3>3. /\ Max({backoff, failing.policy.at}) \in Int
          /\ failing.policy.at <= Max({backoff, failing.policy.at})
      BY <3>1, LesserAndGreater
    <3> QED
      BY <3>2, <3>3
  <2>4. RetryTypes'
    BY <2>1, <2>2, <2>3 DEF RetryInv, RetryTypes, NoFailure, NoPolicy, Requests, Failings,
       Policies
  <2>5. failure'.dead = dead /\ (~ dead => failure'.next = RetryAt(attempts, failing.policy))
    BY <2>1
  <2>6. dead \/ demand <= second \/ demand <= RetryAt(attempts, failing.policy)
    BY <2>1, <2>2, <2>3 DEF RetryInv, RetryTypes, CooldownInv, Elapsed, Requests, Failings,
       Policies
  <2> QED
    BY <2>1, <2>4, <2>5, <2>6 DEF RetryInv, OneAtATime, CooldownInv, Elapsed, NoFailure
<1>9. CASE OperatorRetries
  BY <1>9, SMTT(30) DEF OperatorRetries, RetryInv, RetryTypes, OneAtATime, CooldownInv, Elapsed,
     Requests, Failings, Policies
<1>10. CASE ProcessDies
  BY <1>10, SMTT(30) DEF ProcessDies, RetryInv, RetryTypes, OneAtATime, CooldownInv, Elapsed,
     NoRequest, NoFailure, NoPolicy, Requests, Failings, Policies
<1>11. CASE SecondPasses
  BY <1>11, SMTT(30) DEF SecondPasses, RetryInv, RetryTypes, OneAtATime, CooldownInv, Elapsed,
     Requests, Failings, Policies
<1>12. CASE UNCHANGED retryVars
  BY <1>12 DEF retryVars, RetryInv, RetryTypes, OneAtATime, CooldownInv, Elapsed, Requests,
     Failings, Policies
<1> QED
  BY <1>1, <1>2, <1>3, <1>4, <1>5, <1>6, <1>7, <1>8, <1>9, <1>10, <1>11, <1>12 DEF RetryNext

(* http.py and _poll_retry_not_before: no attempt starts before the second *)
(* that the upstream's last answer named.                                  *)
THEOREM CooldownIsAlwaysKept == RetrySpec => CooldownIsKept
<1> DEFINE Kept == request'.at = "sent" /\ request.at # "sent" => second >= demand
<1>1. RetryInit => RetryInv
  BY DEF RetryInit, RetryInv, RetryTypes, OneAtATime, CooldownInv, Elapsed, NoRequest,
     NoFailure, NoPolicy, Requests, Failings, Policies
<1>2. RetryInv /\ [RetryNext]_retryVars => [Kept]_retryVars
  <2> SUFFICES ASSUME RetryInv, RetryNext, request'.at = "sent", request.at # "sent"
               PROVE  second >= demand
    BY DEF retryVars
  <2>1. CASE Send
    BY <2>1 DEF Send, RetryInv, RetryTypes, CooldownInv, Elapsed, NoRequest, NoFailure,
       Requests, Failings, Policies
  <2>2. CASE Wake
    BY <2>2 DEF Wake, RetryInv, RetryTypes, CooldownInv, Elapsed, Requests, Failings, Policies
  <2>3. CASE Refused \/ Unreachable \/ Rejected \/ Answered
    BY <2>3 DEF Refused, Unreachable, Rejected, Answered
  <2>4. CASE DeadlineFires \/ ProcessDies
    BY <2>4 DEF DeadlineFires, Raise, ProcessDies, NoRequest
  <2>5. CASE RecordFailure \/ OperatorRetries \/ SecondPasses
    BY <2>5 DEF RecordFailure, OperatorRetries, SecondPasses
  <2> QED
    BY <2>1, <2>2, <2>3, <2>4, <2>5 DEF RetryNext
<1> QED
  BY <1>1, <1>2, RetryStepKeeps, PTL DEF RetrySpec, CooldownIsKept

=============================================================================
