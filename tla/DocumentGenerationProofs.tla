----------------------- MODULE DocumentGenerationProofs -----------------------
(***************************************************************************)
(* Theorems about document processing, for every set of attachments and    *)
(* workers, any number of retries and crashes.                             *)
(***************************************************************************)
EXTENDS DocumentGeneration, FiniteSetTheorems, TLAPS

-----------------------------------------------------------------------------
(***************************************************************************)
(* The inductive invariant.                                                *)
(***************************************************************************)

Version == [generation: Generations \cup {None}, completed: BOOLEAN, gap: BOOLEAN]
Failure == [attempts: 0..MaxAttempts, dead: BOOLEAN, due: BOOLEAN,
            generation: Generations \cup {None}]
Run     == [at: Working \cup {"idle"}, generation: Generations \cup {None},
            retrying: BOOLEAN, left: SUBSET Attachments, current: Attachments \cup {None},
            newParses: SUBSET (Attachments \ Scanned), newOcr: SUBSET Scanned]

(* The stages in which a run works through the attachments.                *)
InDocuments == {"parsing", "downloading", "recognizing"}

(* What a run is through with is stored, or among its uncommitted rows; p  *)
(* and c are the native parses and the OCR results in the database.        *)
Progress(run, p, c) ==
  run.at \in InDocuments =>
    /\ \A a \in Attachments \ run.left :
         a \in p \cup run.newParses /\ (a \in Scanned => a \in c \cup run.newOcr)
    /\ run.at \in {"downloading", "recognizing"} => run.current \in run.left
    /\ run.at = "recognizing" => run.current \in p \cap Scanned

ProgressInv == \A r \in Runners : Progress(runs[r], parsed, recognized)

(* The version lock is held by a run of the current generation at work on  *)
(* the attachments.                                                        *)
LockInv ==
  lock # None => version.generation = runs[lock].generation /\ runs[lock].at \in InDocuments

(* Attempts that count are the current generation's.                       *)
BudgetInv == failure.attempts > 0 => failure.generation = version.generation

IInv == TypeOK /\ ProgressInv /\ LockInv /\ BudgetInv /\ OpenGateMeansProcessed

-----------------------------------------------------------------------------
(***************************************************************************)
(* Fresh tokens.                                                           *)
(***************************************************************************)

(* There is always a token that neither the version nor its failure row    *)
(* nor any run carries.                                                    *)
LEMMA TokensSuffice == FreshGeneration \in Generations /\ FreshGeneration \notin InUse
<1> DEFINE carried == {runs[r].generation : r \in Runners}
           token == [r \in Runners |-> runs[r].generation]
<1>1. IsFiniteSet(Runners) /\ Cardinality(Runners) \in Nat
  BY DocumentAssumption, FS_AddElement, FS_CardinalityType DEF Runners
<1>2. token \in Surjection(Runners, carried)
  BY DEF Surjection
<1>3. IsFiniteSet(carried) /\ Cardinality(carried) <= Cardinality(Runners)
  <2> HIDE DEF token, carried
  <2> QED BY <1>1, <1>2, FS_Surjection
<1>4. PICK x, y : x = version.generation /\ y = failure.generation
  OBVIOUS
<1>5. InUse = (carried \cup {x}) \cup {y}
  BY <1>4 DEF InUse
<1>6. IsFiniteSet(InUse) /\ Cardinality(InUse) <= Cardinality(Runners) + 2
  <2> HIDE DEF token, carried
  <2>1. Cardinality(carried) \in Nat
    BY <1>3, FS_CardinalityType
  <2>0. \A S, z : IsFiniteSet(S) /\ Cardinality(S) \in Nat =>
             /\ IsFiniteSet(S \cup {z})
             /\ Cardinality(S \cup {z}) \in Nat
             /\ Cardinality(S \cup {z}) <= Cardinality(S) + 1
    <3> SUFFICES ASSUME NEW S, NEW z, IsFiniteSet(S), Cardinality(S) \in Nat
                 PROVE  /\ IsFiniteSet(S \cup {z})
                        /\ Cardinality(S \cup {z}) \in Nat
                        /\ Cardinality(S \cup {z}) <= Cardinality(S) + 1
      OBVIOUS
    <3>1. /\ IsFiniteSet(S \cup {z})
          /\ Cardinality(S \cup {z}) = IF z \in S THEN Cardinality(S) ELSE Cardinality(S) + 1
      BY FS_AddElement
    <3> QED BY <3>1
  <2>2. /\ IsFiniteSet(carried \cup {x})
        /\ Cardinality(carried \cup {x}) <= Cardinality(carried) + 1
        /\ Cardinality(carried \cup {x}) \in Nat
    BY <1>3, <2>0, <2>1
  <2>3. /\ IsFiniteSet((carried \cup {x}) \cup {y})
        /\ Cardinality((carried \cup {x}) \cup {y}) <= Cardinality(carried \cup {x}) + 1
        /\ Cardinality((carried \cup {x}) \cup {y}) \in Nat
    BY <2>0, <2>2
  <2> QED BY <1>1, <1>3, <1>5, <2>1, <2>2, <2>3
<1>7. \E g \in Generations : g \notin InUse
  <2> SUFFICES ASSUME Generations \subseteq InUse PROVE FALSE
    OBVIOUS
  <2>1. Cardinality(Generations) <= Cardinality(InUse)
    BY <1>6, FS_Subset
  <2>2. Cardinality(Generations) \in Nat /\ Cardinality(InUse) \in Nat
    BY <1>6, DocumentAssumption, FS_CardinalityType
  <2> QED BY <1>1, <1>6, <2>1, <2>2, DocumentAssumption
<1> QED BY <1>7 DEF FreshGeneration

-----------------------------------------------------------------------------
(***************************************************************************)
(* Rows and runs.                                                          *)
(***************************************************************************)

(* The types of the rows, field by field.                                  *)
LEMMA Types ==
  ASSUME TypeOK, NEW r \in Runners
  PROVE  /\ version \in Version /\ failure \in Failure /\ runs \in [Runners -> Run]
         /\ runs[r] \in Run
         /\ version.generation \in Generations \cup {None}
         /\ failure.generation \in Generations \cup {None}
         /\ failure.attempts \in 0..MaxAttempts /\ MaxAttempts \in Nat \ {0}
         /\ runs[r].generation \in Generations \cup {None}
         /\ runs[r].at \in Working \cup {"idle"}
         /\ runs[r].left \subseteq Attachments
         /\ runs[r].newParses \subseteq Attachments \ Scanned
         /\ runs[r].newOcr \subseteq Scanned /\ Scanned \subseteq Attachments
         /\ r # None
<1>1. version \in Version /\ failure \in Failure /\ runs \in [Runners -> Run]
  BY DEF TypeOK, Version, Failure, Run
<1>2. runs[r] \in Run
  BY <1>1
<1> QED BY <1>1, <1>2, DocumentAssumption DEF Version, Failure, Run

(* Rows that a run has stored stay stored.                                 *)
LEMMA ProgressGrows ==
  ASSUME NEW run, NEW p, NEW c, NEW pp, NEW cc, p \subseteq pp, c \subseteq cc, Progress(run, p, c)
  PROVE  Progress(run, pp, cc)
BY DEF Progress

(* The empty row, the reset failure row and a recorded failure are rows.   *)
LEMMA RowTypes ==
  /\ Idle \in Run /\ NoFailure \in Failure
  /\ NoFailure.attempts = 0 /\ Idle.at = "idle"
BY DocumentAssumption DEF Idle, Run, NoFailure, Failure

(* Completing the gate keeps the token.                                    *)
LEMMA CompleteFacts ==
  ASSUME TypeOK, NEW gap \in BOOLEAN, Complete(gap)
  PROVE  /\ version' \in Version /\ version'.generation = version.generation
         /\ version'.completed = TRUE /\ version'.gap = gap
BY DEF Complete, TypeOK, Version

(* What a step of run r has to show: it replaces its own record by a sound *)
(* one and loses no stored row; it moves the version to another token, or  *)
(* takes the lock, only while the lock is free.                            *)
RunStep(r, run) ==
  /\ run \in Run /\ runs' = [runs EXCEPT ![r] = run]
  /\ Progress(run, parsed', recognized')
  /\ parsed \subseteq parsed' /\ parsed' \subseteq Attachments
  /\ recognized \subseteq recognized' /\ recognized' \subseteq Scanned
  /\ version' \in Version /\ failure' \in Failure
  /\ requested' \in BOOLEAN /\ crashes' \in 0..MaxCrashes

LockStep(r, run) ==
  /\ lock' \in {None, r, lock}
  /\ lock' # None => version'.generation = version.generation
  /\ lock' = r => run.at \in InDocuments /\ run.generation = version.generation

(* Such a step keeps the invariant, once the gate and the budget are right. *)
LEMMA RunStepKeeps ==
  ASSUME IInv, NEW r \in Runners, NEW run, RunStep(r, run), LockStep(r, run),
         BudgetInv', OpenGateMeansProcessed'
  PROVE  IInv'
<1>0. TypeOK /\ r # None /\ runs \in [Runners -> Run] /\ lock \in Runners \cup {None}
  BY Types DEF IInv, TypeOK
<1>1. /\ runs' \in [Runners -> Run] /\ runs'[r] = run
      /\ \A q \in Runners \ {r} : runs'[q] = runs[q]
  BY <1>0 DEF RunStep
<1>2. TypeOK'
  BY <1>0, <1>1 DEF RunStep, LockStep, TypeOK, Version, Failure, Run
<1>3. ProgressInv'
  <2> SUFFICES ASSUME NEW q \in Runners PROVE Progress(runs'[q], parsed', recognized')
    BY DEF ProgressInv
  <2>1. CASE q = r
    BY <1>1, <2>1 DEF RunStep
  <2>2. CASE q # r
    <3>1. Progress(runs[q], parsed, recognized)
      BY DEF IInv, ProgressInv
    <3> QED BY <1>1, <2>2, <3>1, ProgressGrows DEF RunStep
  <2> QED BY <2>1, <2>2
<1>4. LockInv'
  <2> SUFFICES ASSUME lock' # None
               PROVE  version'.generation = runs'[lock'].generation
                      /\ runs'[lock'].at \in InDocuments
    BY DEF LockInv
  <2>1. version'.generation = version.generation
    BY DEF LockStep
  <2>2. CASE lock' = r
    BY <1>1, <2>1, <2>2 DEF LockStep
  <2>3. CASE lock' # r
    <3>1. lock' = lock /\ lock \in Runners \ {r}
      BY <1>0, <2>3 DEF LockStep
    <3> QED BY <1>1, <2>1, <3>1 DEF IInv, LockInv
  <2> QED BY <2>2, <2>3
<1> QED BY <1>2, <1>3, <1>4 DEF IInv

(* A step that leaves the gate and the budget alone leaves them sound.     *)
LEMMA QuietRows ==
  ASSUME IInv, version' = version, failure' = failure,
         parsed \subseteq parsed', parsed' \subseteq Attachments,
         recognized \subseteq recognized', recognized' \subseteq Scanned
  PROVE  BudgetInv' /\ OpenGateMeansProcessed'
BY DEF IInv, BudgetInv, OpenGateMeansProcessed

-----------------------------------------------------------------------------
(***************************************************************************)
(* The steps of a run.                                                     *)
(***************************************************************************)

(* The first transaction starts a run, stops at the budget, or confirms    *)
(* the gap of a terminal failure.                                          *)
LEMMA GateKeeps ==
  ASSUME IInv, NEW r \in Runners, Gate(r)
  PROVE  IInv'
<1>0. /\ TypeOK /\ runs[r] = Idle /\ lock = None /\ lock' = None
      /\ parsed' = parsed /\ recognized' = recognized /\ crashes' = crashes
      /\ failure' = GatedFailure
      /\ requested' = (IF r = Scheduler THEN requested ELSE FALSE)
  BY DEF Gate, IInv
<1>1. /\ GatedFailure \in Failure
      /\ GatedFailure.attempts > 0 => GatedFailure.generation = version.generation
  BY <1>0, Types, RowTypes DEF GatedFailure
<1>2. PICK run :
        /\ run \in Run /\ run.at \notin InDocuments
        /\ runs' = [runs EXCEPT ![r] = run]
        /\ version' = version \/ Complete(TRUE)
  <2> DEFINE fetch == [Idle EXCEPT !.at = "fetching", !.retrying = GatedFailure.attempts > 0,
                                   !.generation = version.generation]
  <2>1. CASE UNCHANGED runs
    <3>1. runs = [runs EXCEPT ![r] = Idle]
      BY <1>0, Types
    <3>2. version' = version \/ Complete(TRUE)
      BY DEF Gate, ConfirmGap
    <3> QED BY <2>1, <3>1, <3>2, RowTypes DEF InDocuments
  <2>2. CASE ~ UNCHANGED runs
    <3>1. version' = version /\ runs' = [runs EXCEPT ![r] = fetch]
      BY <2>2 DEF Gate
    <3>2. (GatedFailure.attempts > 0) \in BOOLEAN
      OBVIOUS
    <3>3. fetch \in Run /\ fetch.at \notin InDocuments
      BY <1>0, <3>2, Types, RowTypes DEF Idle, Run, Working, InDocuments
    <3> HIDE DEF fetch
    <3> QED BY <3>1, <3>3
  <2> QED BY <2>1, <2>2
<1>3. /\ version' \in Version /\ version'.generation = version.generation
      /\ version' = version \/ version'.gap
  BY <1>0, <1>2, Types, CompleteFacts
<1>4. RunStep(r, run)
  BY <1>0, <1>1, <1>2, <1>3 DEF RunStep, Progress, TypeOK
<1>5. LockStep(r, run)
  BY <1>0, Types DEF LockStep
<1>6. BudgetInv'
  BY <1>0, <1>1, <1>3 DEF BudgetInv
<1>7. OpenGateMeansProcessed'
  BY <1>0, <1>3 DEF IInv, OpenGateMeansProcessed
<1> QED BY <1>4, <1>5, <1>6, <1>7, RunStepKeeps

(* A new token closes the gate, and the attempts move along with it.       *)
LEMMA StageKeeps ==
  ASSUME IInv, NEW r \in Runners, Stage(r)
  PROVE  IInv'
<1> DEFINE run == [runs[r] EXCEPT !.at = "staged", !.generation = StagedGeneration(r)]
<1>0. /\ TypeOK /\ lock = None /\ lock' = None /\ Owner(r)
      /\ version' = [version EXCEPT !.generation = StagedGeneration(r), !.completed = FALSE]
      /\ failure' = Carried(StagedGeneration(r))
      /\ runs' = [runs EXCEPT ![r] = run]
      /\ UNCHANGED <<parsed, recognized, requested, crashes>>
  BY Types DEF Stage, IInv
<1>1. StagedGeneration(r) \in Generations
  BY <1>0, Types, TokensSuffice DEF StagedGeneration
<1>2. run \in Run /\ run.at = "staged"
  BY <1>0, <1>1, Types, ZenonT(60) DEF Run, Working
<1>3. /\ version' \in Version /\ version'.generation = StagedGeneration(r)
      /\ version'.completed = FALSE
  BY <1>0, <1>1, Types DEF Version
<1>4. /\ failure' \in Failure
      /\ failure'.attempts > 0 => failure'.generation = StagedGeneration(r)
  BY <1>0, <1>1, Types DEF Carried, Failure
<1> HIDE DEF run
<1>5. RunStep(r, run)
  BY <1>0, <1>2, <1>3, <1>4 DEF RunStep, Progress, InDocuments, TypeOK
<1>6. LockStep(r, run)
  BY <1>0, Types DEF LockStep
<1>7. BudgetInv' /\ OpenGateMeansProcessed'
  BY <1>3, <1>4 DEF BudgetInv, OpenGateMeansProcessed
<1> QED BY <1>5, <1>6, <1>7, RunStepKeeps

(* The owner locks the version and has all attachments to do.              *)
LEMMA BeginKeeps ==
  ASSUME IInv, NEW r \in Runners, Begin(r)
  PROVE  IInv'
<1> DEFINE run == [runs[r] EXCEPT !.at = "parsing", !.left = Attachments]
<1>0. /\ TypeOK /\ lock = None /\ lock' = r /\ Owner(r)
      /\ runs' = [runs EXCEPT ![r] = run]
      /\ UNCHANGED <<version, failure, parsed, recognized, requested, crashes>>
  BY Types DEF Begin, IInv
<1>1. /\ run \in Run /\ run.at = "parsing" /\ run.left = Attachments
      /\ run.generation = version.generation
  BY <1>0, Types, ZenonT(60) DEF Run, Working, Owner
<1> HIDE DEF run
<1>2. RunStep(r, run)
  BY <1>0, <1>1, Types DEF RunStep, Progress, InDocuments, TypeOK
<1>3. LockStep(r, run)
  BY <1>0, <1>1 DEF LockStep, InDocuments
<1>4. BudgetInv' /\ OpenGateMeansProcessed'
  BY <1>0, QuietRows DEF TypeOK
<1> QED BY <1>2, <1>3, <1>4, RunStepKeeps

(* The steps that only move the run's own record on, keep its token and    *)
(* leave it at work on the attachments.                                    *)
LEMMA WorkKeeps ==
  ASSUME IInv, NEW r \in Runners, NEW run \in Run,
         run.at \in InDocuments, run.generation = runs[r].generation,
         Progress(run, parsed, recognized), runs' = [runs EXCEPT ![r] = run],
         UNCHANGED <<version, failure, parsed, recognized, lock, requested, crashes>>
  PROVE  IInv'
<1>0. TypeOK
  BY DEF IInv
<1>1. RunStep(r, run)
  BY <1>0, Types DEF RunStep, TypeOK
<1>2. LockStep(r, run)
  BY Types DEF LockStep, IInv, LockInv
<1>3. BudgetInv' /\ OpenGateMeansProcessed'
  BY <1>0, QuietRows DEF TypeOK
<1> QED BY <1>1, <1>2, <1>3, RunStepKeeps

(* The next attachment.                                                    *)
LEMMA PickKeeps ==
  ASSUME IInv, NEW r \in Runners, NEW a \in Attachments, Pick(r, a)
  PROVE  IInv'
<1>0. /\ TypeOK /\ runs[r].at = "parsing" /\ a \in runs[r].left
      /\ Progress(runs[r], parsed, recognized)
      /\ UNCHANGED <<version, failure, parsed, recognized, lock, requested, crashes>>
  BY DEF Pick, IInv, ProgressInv
<1>1. \A b \in Attachments \ runs[r].left :
        /\ b \in parsed \cup runs[r].newParses
        /\ b \in Scanned => b \in recognized \cup runs[r].newOcr
  BY <1>0 DEF Progress, InDocuments
<1>2. CASE Finished(a) /\ runs' = [runs EXCEPT ![r].left = @ \ {a}]
  <2> DEFINE run == [runs[r] EXCEPT !.left = @ \ {a}]
  <2>1. runs' = [runs EXCEPT ![r] = run]
    BY <1>0, <1>2, Types
  <2>2. /\ run \in Run /\ run.at = "parsing" /\ run.generation = runs[r].generation
        /\ run.left = runs[r].left \ {a}
        /\ run.newParses = runs[r].newParses /\ run.newOcr = runs[r].newOcr
    BY <1>0, Types DEF Run
  <2>3. a \in parsed /\ (a \in Scanned => a \in recognized)
    BY <1>2 DEF Finished, NeedsOcr
  <2> HIDE DEF run
  <2>4. Progress(run, parsed, recognized)
    BY <1>1, <2>2, <2>3 DEF Progress
  <2> QED BY <1>0, <2>1, <2>2, <2>4, WorkKeeps DEF InDocuments
<1>3. CASE /\ a \in parsed /\ ~ Finished(a)
           /\ runs' = [runs EXCEPT ![r].at = "recognizing", ![r].current = a]
  <2> DEFINE run == [runs[r] EXCEPT !.at = "recognizing", !.current = a]
  <2>1. runs' = [runs EXCEPT ![r] = run]
    BY <1>0, <1>3, Types
  <2>2. /\ run \in Run /\ run.at = "recognizing" /\ run.generation = runs[r].generation
        /\ run.left = runs[r].left /\ run.current = a
        /\ run.newParses = runs[r].newParses /\ run.newOcr = runs[r].newOcr
    BY <1>0, Types, ZenonT(60) DEF Run, Working
  <2>3. a \in parsed \cap Scanned
    BY <1>3 DEF Finished, NeedsOcr
  <2> HIDE DEF run
  <2>4. Progress(run, parsed, recognized)
    BY <1>0, <1>1, <2>2, <2>3 DEF Progress
  <2> QED BY <1>0, <2>1, <2>2, <2>4, WorkKeeps DEF InDocuments
<1>4. CASE a \notin parsed /\ runs' = [runs EXCEPT ![r].at = "downloading", ![r].current = a]
  <2> DEFINE run == [runs[r] EXCEPT !.at = "downloading", !.current = a]
  <2>1. runs' = [runs EXCEPT ![r] = run]
    BY <1>0, <1>4, Types
  <2>2. /\ run \in Run /\ run.at = "downloading" /\ run.generation = runs[r].generation
        /\ run.left = runs[r].left /\ run.current = a
        /\ run.newParses = runs[r].newParses /\ run.newOcr = runs[r].newOcr
    BY <1>0, Types, ZenonT(60) DEF Run, Working
  <2> HIDE DEF run
  <2>4. Progress(run, parsed, recognized)
    BY <1>0, <1>1, <2>2 DEF Progress
  <2> QED BY <1>0, <2>1, <2>2, <2>4, WorkKeeps DEF InDocuments
<1> QED BY <1>2, <1>3, <1>4 DEF Pick

(* The native parse of a text joins the uncommitted rows.                  *)
LEMMA ParseTextKeeps ==
  ASSUME IInv, NEW r \in Runners, ParseText(r)
  PROVE  IInv'
<1> DEFINE run == [runs[r] EXCEPT !.at = "parsing", !.current = None,
                                  !.left = @ \ {runs[r].current},
                                  !.newParses = @ \cup {runs[r].current}]
<1>0. /\ TypeOK /\ runs[r].at = "downloading" /\ runs[r].current \notin Scanned
      /\ Progress(runs[r], parsed, recognized)
      /\ runs' = [runs EXCEPT ![r] = run]
      /\ UNCHANGED <<version, failure, parsed, recognized, lock, requested, crashes>>
  BY Types DEF ParseText, NeedsOcr, IInv, ProgressInv
<1>1. /\ runs[r].current \in runs[r].left /\ runs[r].current \in Attachments
      /\ \A b \in Attachments \ runs[r].left :
           /\ b \in parsed \cup runs[r].newParses
           /\ b \in Scanned => b \in recognized \cup runs[r].newOcr
  BY <1>0, Types DEF Progress, InDocuments
<1>2. /\ run \in Run /\ run.at = "parsing" /\ run.generation = runs[r].generation
      /\ run.left = runs[r].left \ {runs[r].current}
      /\ run.newParses = runs[r].newParses \cup {runs[r].current}
      /\ run.newOcr = runs[r].newOcr
  <2>1. /\ runs[r].left \ {runs[r].current} \in SUBSET Attachments
        /\ runs[r].newParses \cup {runs[r].current} \in SUBSET (Attachments \ Scanned)
        /\ runs[r] \in Run
    BY <1>0, <1>1, Types
  <2> QED BY <2>1 DEF Run, Working
<1> HIDE DEF run
<1>3. Progress(run, parsed, recognized)
  BY <1>0, <1>1, <1>2 DEF Progress
<1> QED BY <1>0, <1>2, <1>3, WorkKeeps DEF InDocuments

(* That of a scan is committed with everything before it, and the lock is  *)
(* given up.                                                               *)
LEMMA ParseScanKeeps ==
  ASSUME IInv, NEW r \in Runners, ParseScan(r)
  PROVE  IInv'
<1> DEFINE run == [runs[r] EXCEPT !.at = "recognizing", !.newParses = {}, !.newOcr = {}]
<1>0. /\ TypeOK /\ runs[r].at = "downloading" /\ runs[r].current \in Scanned
      /\ Progress(runs[r], parsed, recognized)
      /\ parsed' = parsed \cup runs[r].newParses \cup {runs[r].current}
      /\ recognized' = recognized \cup runs[r].newOcr
      /\ lock' = IF lock = r THEN None ELSE lock
      /\ runs' = [runs EXCEPT ![r] = run]
      /\ UNCHANGED <<version, failure, requested, crashes>>
  BY Types DEF ParseScan, NeedsOcr, ReleaseLock, IInv, ProgressInv
<1>1. /\ runs[r].current \in runs[r].left /\ runs[r].current \in Attachments
      /\ \A b \in Attachments \ runs[r].left :
           /\ b \in parsed \cup runs[r].newParses
           /\ b \in Scanned => b \in recognized \cup runs[r].newOcr
  BY <1>0, Types DEF Progress, InDocuments
<1>2. /\ run \in Run /\ run.at = "recognizing"
      /\ run.left = runs[r].left /\ run.current = runs[r].current
      /\ run.newParses = {} /\ run.newOcr = {}
  BY <1>0, Types, ZenonT(60) DEF Run, Working
<1> HIDE DEF run
<1>3. Progress(run, parsed', recognized')
  BY <1>0, <1>1, <1>2 DEF Progress
<1>4. /\ parsed \subseteq parsed' /\ parsed' \subseteq Attachments
      /\ recognized \subseteq recognized' /\ recognized' \subseteq Scanned
  BY <1>0, <1>1, Types DEF TypeOK
<1>5. RunStep(r, run)
  BY <1>0, <1>2, <1>3, <1>4, Types DEF RunStep, TypeOK
<1>6. LockStep(r, run)
  BY <1>0, Types DEF LockStep
<1>7. BudgetInv' /\ OpenGateMeansProcessed'
  BY <1>0, <1>4, QuietRows
<1> QED BY <1>5, <1>6, <1>7, RunStepKeeps

(* An OCR result joins the uncommitted rows; its native parse is stored.   *)
LEMMA RecognizeKeeps ==
  ASSUME IInv, NEW r \in Runners, Recognize(r)
  PROVE  IInv'
<1> DEFINE run == [runs[r] EXCEPT !.at = "parsing", !.current = None,
                                  !.left = @ \ {runs[r].current},
                                  !.newOcr = @ \cup {runs[r].current}]
<1>0. /\ TypeOK /\ runs[r].at = "recognizing"
      /\ Progress(runs[r], parsed, recognized)
      /\ runs' = [runs EXCEPT ![r] = run]
      /\ UNCHANGED <<version, failure, parsed, recognized, lock, requested, crashes>>
  BY Types DEF Recognize, IInv, ProgressInv
<1>1. /\ runs[r].current \in parsed \cap Scanned /\ runs[r].current \in Attachments
      /\ \A b \in Attachments \ runs[r].left :
           /\ b \in parsed \cup runs[r].newParses
           /\ b \in Scanned => b \in recognized \cup runs[r].newOcr
  BY <1>0, Types DEF Progress, InDocuments
<1>2. /\ run \in Run /\ run.at = "parsing" /\ run.generation = runs[r].generation
      /\ run.left = runs[r].left \ {runs[r].current}
      /\ run.newParses = runs[r].newParses
      /\ run.newOcr = runs[r].newOcr \cup {runs[r].current}
  <2>1. /\ runs[r].left \ {runs[r].current} \in SUBSET Attachments
        /\ runs[r].newOcr \cup {runs[r].current} \in SUBSET Scanned
        /\ runs[r] \in Run
    BY <1>0, <1>1, Types
  <2> QED BY <2>1 DEF Run, Working
<1> HIDE DEF run
<1>3. Progress(run, parsed, recognized)
  BY <1>0, <1>1, <1>2 DEF Progress
<1> QED BY <1>0, <1>2, <1>3, WorkKeeps DEF InDocuments

(* All attachments are done: what the run has not committed yet is         *)
(* committed, and the owner opens the gate.                                *)
LEMMA ConcludeKeeps ==
  ASSUME IInv, NEW r \in Runners, Conclude(r)
  PROVE  IInv'
<1>0. /\ TypeOK /\ runs[r].at = "parsing" /\ runs[r].left = {} /\ lock' = None
      /\ Progress(runs[r], parsed, recognized)
      /\ parsed' = parsed \cup runs[r].newParses
      /\ recognized' = recognized \cup runs[r].newOcr
      /\ runs' = [runs EXCEPT ![r] = Idle]
      /\ UNCHANGED <<requested, crashes>>
  BY Types DEF Conclude, ReleaseLock, IInv, ProgressInv
<1>1. parsed' = Attachments /\ recognized' = Scanned
  BY <1>0, Types DEF Progress, InDocuments, TypeOK
<1>2. /\ parsed \subseteq parsed' /\ parsed' \subseteq Attachments
      /\ recognized \subseteq recognized' /\ recognized' \subseteq Scanned
  BY <1>0, <1>1, Types DEF TypeOK
<1>3. CASE Owner(r)
  <2>1. Complete(FALSE) /\ failure' = NoFailure
    BY <1>3 DEF Conclude
  <2>2. version' \in Version /\ failure' \in Failure /\ failure'.attempts = 0
    BY <1>0, <2>1, CompleteFacts, RowTypes
  <2>3. RunStep(r, Idle)
    BY <1>0, <1>2, <2>2, RowTypes DEF RunStep, Progress, InDocuments, TypeOK
  <2>4. LockStep(r, Idle)
    BY <1>0, Types DEF LockStep
  <2>5. BudgetInv' /\ OpenGateMeansProcessed'
    BY <1>1, <2>2 DEF BudgetInv, OpenGateMeansProcessed
  <2> QED BY <2>3, <2>4, <2>5, RunStepKeeps
<1>4. CASE ~ Owner(r)
  <2>1. version' = version /\ failure' = failure
    BY <1>4 DEF Conclude
  <2>2. RunStep(r, Idle)
    BY <1>0, <1>2, <2>1, RowTypes, Types DEF RunStep, Progress, InDocuments, TypeOK
  <2>3. LockStep(r, Idle)
    BY <1>0, Types DEF LockStep
  <2>4. BudgetInv' /\ OpenGateMeansProcessed'
    BY <1>2, <2>1, QuietRows
  <2> QED BY <2>2, <2>3, <2>4, RunStepKeeps
<1> QED BY <1>3, <1>4

(* A run ends without touching the version, the budget or the rows: it was *)
(* overtaken, raised an error, lost a deadlock or died.                    *)
LEMMA StopKeeps ==
  ASSUME IInv, NEW r \in Runners, Abandon(r) \/ Raise(r) \/ DeadlockDetected(r) \/ Crash(r)
  PROVE  IInv'
<1>0. TypeOK
  BY DEF IInv
<1>1. /\ UNCHANGED <<version, failure, parsed, recognized, requested>>
      /\ crashes' \in 0..MaxCrashes
  BY <1>0, DocumentAssumption DEF Abandon, Raise, DeadlockDetected, Crash, RolledBack, TypeOK
<1>2. lock' = (IF lock = r THEN None ELSE lock)
  BY Types, <1>0 DEF Abandon, Raise, DeadlockDetected, Crash, RolledBack, ReleaseLock
<1>3. PICK run \in Run : run.at \notin InDocuments /\ runs' = [runs EXCEPT ![r] = run]
  <2>1. CASE Abandon(r) \/ Crash(r)
    BY <2>1, RowTypes DEF Abandon, Crash, InDocuments
  <2>2. CASE Raise(r) \/ DeadlockDetected(r)
    <3>1. PICK at \in {"transient", "permanent"} : RolledBack(r, at)
      BY <2>2 DEF Raise, DeadlockDetected
    <3> DEFINE run == [Idle EXCEPT !.at = at, !.generation = runs[r].generation]
    <3>2. run \in Run /\ run.at \notin InDocuments
      BY <1>0, Types, RowTypes DEF Idle, Run, Working, InDocuments
    <3> QED BY <3>1, <3>2 DEF RolledBack
  <2> QED BY <2>1, <2>2
<1>4. RunStep(r, run)
  BY <1>0, <1>1, <1>3, Types DEF RunStep, Progress, TypeOK
<1>5. LockStep(r, run)
  BY <1>0, <1>1, <1>2, Types DEF LockStep
<1>6. BudgetInv' /\ OpenGateMeansProcessed'
  BY <1>0, <1>1, QuietRows DEF TypeOK
<1> QED BY <1>4, <1>5, <1>6, RunStepKeeps

(* Only the owner spends the budget, and its last failure opens the gate   *)
(* with a gap.                                                             *)
LEMMA RecordKeeps ==
  ASSUME IInv, NEW r \in Runners, RecordFailure(r)
  PROVE  IInv'
<1>0. /\ TypeOK /\ lock = None /\ lock' = None /\ runs' = [runs EXCEPT ![r] = Idle]
      /\ UNCHANGED <<parsed, recognized, requested, crashes>>
  BY DEF RecordFailure, IInv
<1>1. PICK f :
        /\ f \in Failure /\ f.generation = runs[r].generation
        /\ IF Owner(r)
           THEN failure' = f /\ IF f.dead THEN Complete(TRUE) ELSE UNCHANGED version
           ELSE UNCHANGED <<version, failure>>
  <2> DEFINE n == IF failure.attempts < MaxAttempts THEN failure.attempts + 1 ELSE MaxAttempts
             transient == runs[r].at = "transient"
             f == [attempts |-> n, dead |-> ~ transient \/ n >= MaxAttempts, due |-> FALSE,
                   generation |-> runs[r].generation]
  <2>1. n \in 0..MaxAttempts
    BY <1>0, Types
  <2>2. (~ transient \/ n >= MaxAttempts) \in BOOLEAN
    OBVIOUS
  <2>3. f \in Failure /\ f.generation = runs[r].generation
    <3> HIDE DEF n, transient
    <3> QED BY <1>0, <2>1, <2>2, Types DEF Failure
  <2>4. f = Failed(runs[r].generation, runs[r].at = "transient")
    BY DEF Failed
  <2> HIDE DEF f
  <2> QED BY <2>3, <2>4 DEF RecordFailure
<1>2. /\ version' \in Version /\ failure' \in Failure
      /\ version'.generation = version.generation
      /\ version' = version \/ version'.gap
  BY <1>0, <1>1, Types, CompleteFacts
<1>3. RunStep(r, Idle)
  BY <1>0, <1>2, RowTypes DEF RunStep, Progress, InDocuments, TypeOK
<1>4. LockStep(r, Idle)
  BY <1>0, Types DEF LockStep
<1>5. BudgetInv'
  <2>1. CASE Owner(r)
    BY <1>1, <1>2, <2>1 DEF Owner, BudgetInv
  <2>2. CASE ~ Owner(r)
    BY <1>1, <2>2 DEF IInv, BudgetInv
  <2> QED BY <2>1, <2>2
<1>6. OpenGateMeansProcessed'
  BY <1>0, <1>2 DEF IInv, OpenGateMeansProcessed
<1> QED BY <1>3, <1>4, <1>5, <1>6, RunStepKeeps

-----------------------------------------------------------------------------
(***************************************************************************)
(* The operator and the clock.                                             *)
(***************************************************************************)

(* A repair stages a new token with a closed gate and a new budget, while  *)
(* nobody holds the version lock.                                          *)
LEMMA RepairKeeps ==
  ASSUME IInv, Repair
  PROVE  IInv'
<1>0. /\ TypeOK /\ lock = None /\ lock' = None
      /\ version' = [generation |-> FreshGeneration, completed |-> FALSE, gap |-> FALSE]
      /\ failure' = NoFailure /\ requested' \in BOOLEAN
      /\ UNCHANGED <<parsed, recognized, runs, crashes>>
  BY DEF Repair, IInv, TypeOK
<1>1. version' \in Version /\ version'.completed = FALSE /\ failure' \in Failure
  BY <1>0, TokensSuffice, RowTypes DEF Version
<1>2. TypeOK'
  BY <1>0, <1>1 DEF TypeOK, Version, Failure
<1>3. ProgressInv' /\ LockInv'
  BY <1>0 DEF IInv, ProgressInv, LockInv
<1>4. BudgetInv' /\ OpenGateMeansProcessed'
  BY <1>0, <1>1, RowTypes DEF BudgetInv, OpenGateMeansProcessed
<1> QED BY <1>2, <1>3, <1>4 DEF IInv

(* A retry falls due: its row keeps its token.                             *)
LEMMA DueKeeps ==
  ASSUME IInv, RetryFallsDue
  PROVE  IInv'
<1>0. /\ TypeOK /\ failure' = [failure EXCEPT !.due = TRUE]
      /\ UNCHANGED <<version, parsed, recognized, runs, lock, requested, crashes>>
  BY DEF RetryFallsDue, IInv
<1>1. failure \in Failure
  BY <1>0 DEF TypeOK, Failure
<1>2. /\ failure' \in Failure /\ failure'.attempts = failure.attempts
      /\ failure'.generation = failure.generation
  BY <1>0, <1>1 DEF Failure
<1>3. TypeOK'
  BY <1>0, <1>2 DEF TypeOK, Failure
<1>4. ProgressInv' /\ LockInv' /\ BudgetInv' /\ OpenGateMeansProcessed'
  BY <1>0, <1>2 DEF IInv, ProgressInv, LockInv, BudgetInv, OpenGateMeansProcessed
<1> QED BY <1>3, <1>4 DEF IInv

LEMMA StutterKeeps ==
  ASSUME IInv, UNCHANGED vars
  PROVE  IInv'
<1>1. TypeOK'
  BY DEF IInv, TypeOK, vars
<1>2. ProgressInv' /\ LockInv' /\ BudgetInv' /\ OpenGateMeansProcessed'
  BY DEF IInv, vars, ProgressInv, LockInv, BudgetInv, OpenGateMeansProcessed
<1> QED BY <1>1, <1>2 DEF IInv

-----------------------------------------------------------------------------
(***************************************************************************)
(* The theorems.                                                           *)
(***************************************************************************)

LEMMA InitHolds == Init => IInv
<1> SUFFICES ASSUME Init PROVE IInv
  OBVIOUS
<1>1. /\ [generation |-> None, completed |-> FALSE, gap |-> FALSE] \in Version
      /\ NoFailure \in Failure /\ Idle \in Run
  BY RowTypes DEF Version
<1>2. TypeOK
  <2>1. version \in Version /\ failure \in Failure /\ runs \in [Runners -> Run]
    BY <1>1 DEF Init
  <2>2. /\ parsed \subseteq Attachments /\ recognized \subseteq Scanned
        /\ lock \in Runners \cup {None} /\ requested \in BOOLEAN /\ crashes \in 0..MaxCrashes
    <3>1. 0 \in 0..MaxCrashes
      BY DocumentAssumption
    <3>2. requested \in BOOLEAN
      BY DEF Init
    <3> QED BY <3>1, <3>2 DEF Init
  <2> QED BY <2>1, <2>2 DEF TypeOK, Version, Failure, Run
<1>3. ProgressInv
  BY RowTypes DEF Init, ProgressInv, Progress, InDocuments
<1>4. LockInv /\ BudgetInv /\ OpenGateMeansProcessed
  BY RowTypes DEF Init, LockInv, BudgetInv, OpenGateMeansProcessed
<1> QED BY <1>2, <1>3, <1>4 DEF IInv

(* Every step of a run, of the operator or of the clock keeps the          *)
(* invariant.                                                              *)
LEMMA StepKeeps == IInv /\ [Next]_vars => IInv'
<1> SUFFICES ASSUME IInv, [Next]_vars PROVE IInv'
  OBVIOUS
<1>1. ASSUME NEW r \in Runners, Gate(r) \/ Step(r) \/ Raise(r) \/ Crash(r)
      PROVE  IInv'
  BY <1>1, GateKeeps, StageKeeps, BeginKeeps, PickKeeps, ParseTextKeeps, ParseScanKeeps,
     RecognizeKeeps, ConcludeKeeps, StopKeeps, RecordKeeps DEF Step
<1> QED BY <1>1, RepairKeeps, DueKeeps, StutterKeeps DEF Next

LEMMA Invariant == Spec => []IInv
BY InitHolds, StepKeeps, PTL DEF Spec

(* The gate is honest: whichever runs overtook each other, failed,         *)
(* deadlocked or died on the way, when the gate is open without a gap then *)
(* every attachment's native parse and every scan's OCR result is stored.  *)
THEOREM GateIsHonest == Spec => []OpenGateMeansProcessed
<1>1. IInv => OpenGateMeansProcessed
  BY DEF IInv
<1> QED BY <1>1, Invariant, PTL

(* Every row is well formed, whoever holds the version lock works for the  *)
(* current generation, and so does every attempt that counts.              *)
THEOREM OwnersAreSerialised == Spec => []GenerationOwnsVersion
<1>1. IInv => GenerationOwnsVersion
  BY DEF IInv, LockInv, BudgetInv, GenerationOwnsVersion
<1> QED BY <1>1, Invariant, PTL

(* A step of one run changes the record of no other.                       *)
LEMMA OneRunMoves ==
  ASSUME TypeOK, NEW q \in Runners, Gate(q) \/ Step(q) \/ Raise(q) \/ Crash(q)
  PROVE  \A r \in Runners : runs'[r] # runs[r] => r = q
<1>0. runs \in [Runners -> Run]
  BY Types
<1>1. PICK run : runs' = [runs EXCEPT ![q] = run]
  <2>1. CASE Gate(q)
    <3>1. runs' = runs => runs' = [runs EXCEPT ![q] = Idle]
      BY <1>0, <2>1 DEF Gate
    <3> QED BY <2>1, <3>1 DEF Gate
  <2>2. CASE Stage(q) \/ Begin(q) \/ \E a \in Attachments : Pick(q, a)
    BY <1>0, <2>2 DEF Stage, Begin, Pick
  <2>3. CASE ParseText(q) \/ ParseScan(q) \/ Recognize(q)
    BY <1>0, <2>3 DEF ParseText, ParseScan, Recognize
  <2>4. CASE Abandon(q) \/ Conclude(q) \/ DeadlockDetected(q) \/ RecordFailure(q)
             \/ Raise(q) \/ Crash(q)
    BY <2>4 DEF Abandon, Conclude, DeadlockDetected, RecordFailure, Raise, Crash, RolledBack
  <2> QED BY <2>1, <2>2, <2>3, <2>4 DEF Step
<1> QED BY <1>0, <1>1

(* A run that has been overtaken, whatever it still does, leaves the       *)
(* version and the failure row to its successors.                          *)
LEMMA StaleStep ==
  ASSUME TypeOK, NEW r \in Runners, runs[r] # Idle, ~ Owner(r),
         Gate(r) \/ Step(r) \/ Raise(r) \/ Crash(r)
  PROVE  version' = version /\ failure' = failure
<1>1. ~ Gate(r) /\ ~ Stage(r) /\ ~ Begin(r)
  BY DEF Gate, Stage, Begin
<1>2. CASE (\E a \in Attachments : Pick(r, a)) \/ ParseText(r) \/ ParseScan(r) \/ Recognize(r)
  BY <1>2 DEF Pick, ParseText, ParseScan, Recognize
<1>3. CASE Conclude(r) \/ RecordFailure(r)
  BY <1>3 DEF Conclude, RecordFailure
<1>4. CASE Abandon(r) \/ DeadlockDetected(r) \/ Raise(r) \/ Crash(r)
  BY <1>4 DEF Abandon, DeadlockDetected, Raise, Crash, RolledBack
<1> QED BY <1>1, <1>2, <1>3, <1>4 DEF Step

(* Only the owning generation completes the processing, records a gap or   *)
(* spends the retry budget.                                                *)
THEOREM StaleRunsAreHarmless == Spec => StaleRunsTouchNothing
<1> DEFINE Harmless == \A r \in Runners :
             /\ runs[r] # Idle
             /\ version.generation # runs[r].generation
             /\ runs'[r] # runs[r]
             => version' = version /\ failure' = failure
<1>1. IInv /\ [Next]_vars => IInv' /\ [Harmless]_vars
  <2> SUFFICES ASSUME IInv, Next, NEW r \in Runners, runs[r] # Idle,
                      version.generation # runs[r].generation, runs'[r] # runs[r]
               PROVE  version' = version /\ failure' = failure
    BY StepKeeps
  <2>1. TypeOK /\ ~ Owner(r)
    BY DEF IInv, Owner
  <2>2. PICK q \in Runners : Gate(q) \/ Step(q) \/ Raise(q) \/ Crash(q)
    BY DEF Next, Repair, RetryFallsDue
  <2>3. r = q
    BY <2>1, <2>2, OneRunMoves
  <2> QED BY <2>1, <2>2, <2>3, StaleStep
<1> QED BY <1>1, InitHolds, PTL DEF Spec, StaleRunsTouchNothing

=============================================================================
