--------------------------- MODULE DerivedResults ---------------------------
(***************************************************************************)
(* What is derived from one opportunity: eligibility and ranking rows      *)
(* (ranking/eligibility.py, ranking/ranker.py), deltas (delta/service.py)  *)
(* and the notification events made of them (notifications/triggers.py).   *)
(*                                                                         *)
(* Every row is an immutable revision named by the fingerprint of its      *)
(* inputs; which of them counts is decided again whenever it is needed.    *)
(* The jobs run in transactions of several steps under row locks: of the   *)
(* opportunity, of the profile, of the versions.  Meanwhile normalisation, *)
(* document processing and the API change the inputs.  Rows and events of  *)
(* a transaction are seen when it commits.  All happens within one UTC     *)
(* day, so the daily epoch of a ranking is its deadline state.             *)
(***************************************************************************)
EXTENDS Integers, Sequences, SequencesExt

CONSTANTS
  Owners,       \* users with a company profile
  Values,       \* what a profile can say
  Facts,        \* what documents and extraction of a version can tell: the input fingerprint
  Meaning,      \* what a comparison sees of it; evidence is left out
  Bare,         \* the facts of a version none of whose documents has been used
  Matches,      \* pairs of a profile value and facts that pass the eligibility and score high
  Notifier,     \* the process that runs reconcile_notifications
  DeltaWorker,  \* the process that runs compute_opportunity_delta
  Reader,       \* the API, listing opportunities
  MaxVersions,  \* bound on the versions of the opportunity
  MaxEdits,     \* bound on the changes and crashes of a behaviour
  None

Jobs == {Notifier, DeltaWorker, Reader}

ASSUME DerivedAssumption ==
  /\ Meaning \in [Facts -> Facts] /\ Matches \subseteq Values \X Facts /\ Bare \in Facts
  /\ {MaxVersions, MaxEdits} \subseteq Nat \ {0}
  /\ Notifier # DeltaWorker /\ Notifier # Reader /\ DeltaWorker # Reader
  /\ None \notin Jobs \cup Owners /\ None \notin Values /\ None \notin Facts /\ None \notin Nat

VARIABLES
  versions,  \* of the opportunity: transition_kind, previous_current_version_id, gate and facts
  current,   \* current_version_id
  prof,      \* company_profiles
  watch,     \* watchlists: the number of versions there were at created_at
  prefs,     \* notification_preferences: whether the owner wants events
  expired,   \* whether the deadline has passed
  eligs,     \* eligibility_results
  ranks,     \* ranking_results
  deltas,    \* opportunity_deltas, in the order of created_at
  events,    \* notification_events
  opp,       \* holder of the lock of the opportunity row
  profiles,  \* holders of the locks of the profile rows
  locks,     \* holders of the locks of the version rows
  job,       \* what each process is doing
  edits      \* changes and crashes so far

inputs == <<versions, current, prof, watch, prefs, expired>>
rows   == <<eligs, ranks, deltas, events>>
held   == <<opp, profiles, locks>>
vars   == <<inputs, rows, held, job, edits>>

Idle == [at |-> "idle", now |-> FALSE, left |-> {}, owner |-> None, target |-> None,
         seen |-> None, read |-> None, eligs |-> {}, ranks |-> {}, delta |-> <<>>,
         mail |-> {}]

Init ==
  /\ versions = <<[kind |-> "initial", prev |-> None, gate |-> TRUE, facts |-> Bare]>>
  /\ current  = 1
  /\ prof \in [Owners -> Values \cup {None}]
  /\ watch \in [Owners -> {1, None}]
  /\ \A o \in Owners : prof[o] = None <=> watch[o] # None
  /\ prefs    = [o \in Owners |-> TRUE]
  /\ expired  = FALSE
  /\ eligs = {} /\ ranks = {} /\ deltas = <<>> /\ events = {}
  /\ opp      = None
  /\ profiles = [o \in Owners |-> None]
  /\ locks    = [v \in 1..MaxVersions |-> None]
  /\ job      = [j \in Jobs |-> Idle]
  /\ edits    = IF \E o \in Owners : prof[o] # None THEN 1 ELSE 0

Free(holder) == holder = None

-----------------------------------------------------------------------------
(* The inputs change                                                       *)

Edit == edits < MaxEdits /\ edits' = edits + 1 /\ UNCHANGED <<rows, held, job>>

(* Normalisation (OpportunityGraph) stores a version, a current one or one *)
(* that arrived too late; its documents are still to be processed.         *)
Normalize(kind) ==
  /\ Edit
  /\ Free(opp) /\ Len(versions) < MaxVersions
  /\ versions' = Append(versions, [kind |-> kind, prev |-> IF kind = "current" THEN current ELSE None,
                                   gate |-> FALSE, facts |-> Bare])
  /\ current' = IF kind = "current" THEN Len(versions') ELSE current
  /\ UNCHANGED <<prof, watch, prefs, expired>>

(* A repair closes the gate of a version, the end of its processing opens  *)
(* it, maybe with other facts (DocumentGeneration).                        *)
Repair(v) ==
  /\ Edit
  /\ versions[v].gate /\ Free(locks[v])
  /\ versions' = [versions EXCEPT ![v].gate = FALSE]
  /\ UNCHANGED <<current, prof, watch, prefs, expired>>

Process(v) ==
  /\ ~ versions[v].gate /\ Free(locks[v])
  /\ \E f \in Facts : versions' = [versions EXCEPT ![v].gate = TRUE, ![v].facts = f]
  /\ UNCHANGED <<current, prof, watch, prefs, expired, rows, held, job, edits>>

(* create_profile and patch_profile, watch, unwatch and set_preferences of *)
(* the product API.                                                        *)
SetProfile(o) ==
  /\ Edit
  /\ Free(profiles[o])
  /\ \E value \in Values \ {prof[o]} : prof' = [prof EXCEPT ![o] = value]
  /\ UNCHANGED <<versions, current, watch, prefs, expired>>

Watch(o) ==
  /\ Edit
  /\ Free(opp) /\ watch[o] = None
  /\ watch' = [watch EXCEPT ![o] = Len(versions)]
  /\ UNCHANGED <<versions, current, prof, prefs, expired>>

Unwatch(o) ==
  /\ Edit
  /\ watch[o] # None
  /\ watch' = [watch EXCEPT ![o] = None]
  /\ UNCHANGED <<versions, current, prof, prefs, expired>>

SetPreferences(o) ==
  /\ Edit
  /\ prefs' = [prefs EXCEPT ![o] = ~ @]
  /\ UNCHANGED <<versions, current, prof, watch, expired>>

DeadlinePasses ==
  /\ Edit
  /\ ~ expired /\ expired' = TRUE
  /\ UNCHANGED <<versions, current, prof, watch, prefs>>

-----------------------------------------------------------------------------
(* Transactions                                                            *)

Released(holders, j) == [x \in DOMAIN holders |-> IF holders[x] = j THEN None ELSE holders[x]]

Release(j) ==
  /\ opp'      = IF opp = j THEN None ELSE opp
  /\ profiles' = Released(profiles, j)
  /\ locks'    = Released(locks, j)
  /\ job'      = [job EXCEPT ![j] = Idle]

(* The commit.  Events with the identity of an earlier one have not been   *)
(* inserted (enqueue_notification); the first keeps its payload.           *)
Save(j, newEligs, newRanks, newDelta, mail) ==
  /\ eligs'  = eligs \cup newEligs
  /\ ranks'  = ranks \cup newRanks
  /\ deltas' = deltas \o newDelta
  /\ events' = events \cup {e \in mail : \A old \in events : old.key # e.key}
  /\ Release(j)
  /\ UNCHANGED <<inputs, edits>>

(* A process dies, or its job raises: its transaction is rolled back.      *)
Crash(j) ==
  /\ job[j].at # "idle" /\ edits < MaxEdits
  /\ edits' = edits + 1
  /\ Release(j)
  /\ UNCHANGED <<inputs, rows>>

-----------------------------------------------------------------------------
(* Eligibility and ranking                                                 *)

Eligibility(o, v, value) == [owner |-> o, version |-> v, value |-> value, facts |-> versions[v].facts]

(* The identity of a ranking is its eligibility row and its epoch: the day *)
(* and the deadline state.                                                 *)
Epoch(past) == IF past THEN "expired" ELSE "open"

Ranking(elig, past) ==
  [elig |-> elig, epoch |-> Epoch(past),
   recommended |-> <<elig.value, elig.facts>> \in Matches /\ ~ past]

(* materialize_ranking: an existing row is used, whoever has computed it.  *)
Ranked(j, elig) ==
  LET row   == Ranking(elig, job[j].now)
      known == {r \in ranks \cup job[j].ranks : r.elig = row.elig /\ r.epoch = row.epoch}
  IN  IF known = {} THEN row ELSE CHOOSE r \in known : TRUE

(* materialize_eligibility under the profile's lock; the documents are not *)
(* locked.                                                                 *)
Materialize(j, o, v, value) ==
  job' = [job EXCEPT ![j].at = "rank", ![j].owner = o, ![j].target = v, ![j].seen = value,
                     ![j].read = versions[v].facts,
                     ![j].eligs = @ \cup ({Eligibility(o, v, value)} \ eligs)]

Relevance(o, elig) ==
  [key |-> <<o, "new_high_relevance">>, owner |-> o, elig |-> elig, change |-> None]

(* materialize_ranking evaluates the eligibility again and raises when it  *)
(* is not the row to be ranked any more; reconcile_current then makes an   *)
(* event of a recommendation.                                              *)
Rank(j) ==
  LET o     == job[j].owner
      elig  == Eligibility(o, job[j].target, job[j].seen)
      rank  == Ranked(j, elig)
      fresh == {rank} \ ranks
      told  == rank.recommended /\ prefs[o]
  IN  /\ job[j].at = "rank"
      /\ IF elig.facts # job[j].read THEN Release(j) /\ UNCHANGED <<inputs, rows, edits>>
         ELSE IF j = Reader THEN Save(j, job[j].eligs, fresh, <<>>, {})
         ELSE /\ job' = [job EXCEPT
                   ![j].at = "profiles", ![j].ranks = @ \cup fresh,
                   ![j].mail = IF told THEN @ \cup {Relevance(o, elig)} ELSE @,
                   ![j].owner = None, ![j].target = None, ![j].seen = None, ![j].read = None]
              /\ UNCHANGED <<inputs, rows, held, edits>>

(* api/opportunities.py: the profile was loaded before it is locked, and   *)
(* the copy in the session stays; versions in repair show no decision.     *)
ListOpportunity(o) ==
  /\ job[Reader] = Idle
  /\ prof[o] # None /\ versions[current].gate
  /\ job' = [job EXCEPT ![Reader] = [Idle EXCEPT !.at = "lock", !.now = expired, !.owner = o,
                                                 !.target = current, !.seen = prof[o]]]
  /\ UNCHANGED <<inputs, rows, held, edits>>

ProfileIgnored(j, o) == TRUE
ProfileFree(j, o) == Free(profiles[o])

LockProfile ==
  LET r == job[Reader]
  IN  /\ r.at = "lock" /\ ProfileFree(Reader, r.owner)
      /\ profiles' = [profiles EXCEPT ![r.owner] = Reader]
      /\ Materialize(Reader, r.owner, r.target, r.seen)
      /\ UNCHANGED <<inputs, rows, opp, locks, edits>>

-----------------------------------------------------------------------------
(* Deltas                                                                  *)

Predecessor(v) == IF versions[v].kind = "current" THEN versions[v].prev ELSE v - 1

StartDelta(v) ==
  /\ job[DeltaWorker] = Idle /\ Free(opp)
  /\ opp' = DeltaWorker
  /\ job' = [job EXCEPT ![DeltaWorker] = [Idle EXCEPT !.at = "before", !.target = v]]
  /\ UNCHANGED <<inputs, rows, profiles, locks, edits>>

(* prepare_snapshot: the version is locked and read again; what is not     *)
(* finished cannot be compared.                                            *)
Snapshot(v) == IF versions[v].gate THEN versions[v].facts ELSE None

RefreshOnly(j, v) == UNCHANGED locks
HoldVersion(j, v) == Free(locks[v]) /\ locks' = [locks EXCEPT ![v] = j]

PrepareBefore(j) ==
  /\ job[j].at = "before"
  /\ HoldVersion(j, Predecessor(job[j].target))
  /\ job' = [job EXCEPT ![j].at = "after", ![j].read = Snapshot(Predecessor(job[j].target))]
  /\ UNCHANGED <<inputs, rows, opp, profiles, edits>>

Delta(v, before, after) ==
  [from |-> Predecessor(v), to |-> v, before |-> before, after |-> after, kind |-> versions[v].kind]

(* Fields of the rows differ when their facts mean something else.         *)
Differs(delta) == Meaning[delta.before] # Meaning[delta.after]

(* latest_applicable_deltas                                                *)
Applicable(table) == SelectSeq(table, LAMBDA d : d.to = current /\ d.kind = "current")

IsLatest(delta, table) == Applicable(table) # <<>> /\ Last(Applicable(table)) = delta

ChangeKey(o, delta) ==
  <<o, "watched_material_change", delta.from, delta.to, Meaning[delta.before], Meaning[delta.after]>>

Change(o, delta) == [key |-> ChangeKey(o, delta), owner |-> o, elig |-> None, change |-> delta]

(* persist_delta, and reconcile_current's events of the delta that counts. *)
PrepareAfter(j) ==
  LET v     == job[j].target
      after == Snapshot(v)
      delta == Delta(v, job[j].read, after)
      new   == IF delta \in ToSet(deltas) THEN <<>> ELSE <<delta>>
      told  == IF j = Notifier /\ Differs(delta) /\ IsLatest(delta, deltas \o new)
                 THEN {o \in job[j].left : prefs[o]} ELSE {}
      ready == None \notin {job[j].read, after}
  IN  /\ job[j].at = "after"
      /\ IF j = DeltaWorker
           THEN Free(locks[v]) /\ Save(j, {}, {}, IF ready THEN new ELSE <<>>, {})
           ELSE /\ HoldVersion(j, v)
                /\ job' = [job EXCEPT ![j].at = "commit", ![j].left = {}, ![j].target = None,
                             ![j].read = None,
                             ![j].delta = IF ready THEN new ELSE <<>>,
                             ![j].mail = IF ready THEN @ \cup {Change(o, delta) : o \in told} ELSE @]
                /\ UNCHANGED <<inputs, rows, opp, profiles, edits>>

-----------------------------------------------------------------------------
(* reconcile_current                                                       *)

(* All opportunities are locked, then all profiles; both are read afresh.  *)
LockItems ==
  /\ job[Notifier] = Idle /\ Free(opp)
  /\ opp' = Notifier
  /\ job' = [job EXCEPT ![Notifier] = [Idle EXCEPT !.at = "items", !.now = expired]]
  /\ UNCHANGED <<inputs, rows, profiles, locks, edits>>

LockProfiles ==
  LET owners == {o \in Owners : prof[o] # None}
  IN  /\ job[Notifier].at = "items" /\ \A o \in owners : ProfileFree(Notifier, o)
      /\ profiles' = [o \in Owners |-> IF o \in owners THEN Notifier ELSE profiles[o]]
      /\ job' = [job EXCEPT ![Notifier].at = "profiles", ![Notifier].left = owners]
      /\ UNCHANGED <<inputs, rows, opp, locks, edits>>

(* One owner after the other; who wants no such events is left out.        *)
EvaluateOwner(o) ==
  /\ job[Notifier].at = "profiles" /\ o \in job[Notifier].left
  /\ IF prefs[o]
       THEN job' = [job EXCEPT ![Notifier].left = @ \ {o}, ![Notifier].at = "rank",
                      ![Notifier].owner = o, ![Notifier].target = current,
                      ![Notifier].seen = prof[o], ![Notifier].read = versions[current].facts,
                      ![Notifier].eligs = @ \cup ({Eligibility(o, current, prof[o])} \ eligs)]
       ELSE job' = [job EXCEPT ![Notifier].left = @ \ {o}]
  /\ UNCHANGED <<inputs, rows, held, edits>>

(* _observed_after_watch                                                   *)
ObservedMuchLater(o) == watch[o] # None /\ watch[o] + 1 < current
ObservedAfterWatch(o) == watch[o] # None /\ watch[o] < current

ReadWatches ==
  LET owners == {o \in Owners : ObservedAfterWatch(o)}
  IN  /\ job[Notifier].at = "profiles" /\ job[Notifier].left = {}
      /\ job' = IF owners = {} \/ versions[current].kind # "current"
                  THEN [job EXCEPT ![Notifier].at = "commit"]
                  ELSE [job EXCEPT ![Notifier].at = "before", ![Notifier].left = owners,
                                   ![Notifier].target = current]
      /\ UNCHANGED <<inputs, rows, held, edits>>

Commit ==
  LET n == job[Notifier]
  IN  n.at = "commit" /\ Save(Notifier, n.eligs, n.ranks, n.delta, n.mail)

Changes ==
  \/ \E kind \in {"current", "historical"} : Normalize(kind)
  \/ \E v \in DOMAIN versions : Repair(v) \/ Process(v)
  \/ \E o \in Owners : SetProfile(o) \/ Watch(o) \/ Unwatch(o) \/ SetPreferences(o)
  \/ DeadlinePasses

NotifierSteps ==
  (\E o \in Owners : EvaluateOwner(o)) \/ Rank(Notifier) \/ ReadWatches
    \/ PrepareBefore(Notifier) \/ PrepareAfter(Notifier) \/ Commit

DeltaSteps == PrepareBefore(DeltaWorker) \/ PrepareAfter(DeltaWorker)

ReaderSteps == LockProfile \/ Rank(Reader)

Next ==
  \/ Changes
  \/ LockItems \/ LockProfiles \/ NotifierSteps
  \/ DeltaSteps \/ \E v \in 2..Len(versions) : StartDelta(v)
  \/ ReaderSteps \/ (\E o \in Owners : ListOpportunity(o))
  \/ \E j \in Jobs : Crash(j)

Spec == Init /\ [][Next]_vars

(* The notifier's cron job comes back for ever, a started job goes on, and *)
(* PostgreSQL serves those who wait for a row in turn.                     *)
FairSpec ==
  /\ Spec
  /\ SF_vars(LockItems) /\ SF_vars(LockProfiles) /\ WF_vars(NotifierSteps)
  /\ WF_vars(DeltaSteps)
  /\ WF_vars(Rank(Reader)) /\ SF_vars(LockProfile)

-----------------------------------------------------------------------------

Eligibilities == [owner: Owners, version: 1..MaxVersions, value: Values, facts: Facts]
Rankings      == [elig: Eligibilities, epoch: {"open", "expired"}, recommended: BOOLEAN]
Comparisons   == [from: 1..MaxVersions, to: 1..MaxVersions, before: Facts, after: Facts,
                  kind: {"current", "historical"}]
ASSUME NoneIsNoRow == None \notin Comparisons

Messages      == {Relevance(o, g) : o \in Owners, g \in Eligibilities}
                   \cup {Change(o, d) : o \in Owners, d \in Comparisons}

Stages == {"idle", "lock", "items", "profiles", "rank", "before", "after", "commit"}
Work   == [at: Stages, now: BOOLEAN, left: SUBSET Owners, owner: Owners \cup {None},
           target: 1..MaxVersions \cup {None}, seen: Values \cup {None}, read: Facts \cup {None},
           eligs: SUBSET Eligibilities, ranks: SUBSET Rankings, delta: Seq(Comparisons),
           mail: SUBSET Messages]
Stored == [kind: {"initial", "current", "historical"}, prev: 1..MaxVersions \cup {None},
           gate: BOOLEAN, facts: Facts]

TypeOK ==
  /\ versions \in Seq(Stored) /\ Len(versions) <= MaxVersions /\ current \in DOMAIN versions
  /\ \A v \in DOMAIN versions : versions[v].prev \in 1..(v - 1) \cup {None}
  /\ prof \in [Owners -> Values \cup {None}] /\ watch \in [Owners -> DOMAIN versions \cup {None}]
  /\ prefs \in [Owners -> BOOLEAN] /\ expired \in BOOLEAN /\ edits \in 0..MaxEdits
  /\ eligs \subseteq Eligibilities /\ ranks \subseteq Rankings
  /\ deltas \in Seq(Comparisons) /\ events \subseteq Messages
  /\ opp \in {None, Notifier, DeltaWorker} /\ profiles \in [Owners -> Jobs \cup {None}]
  /\ locks \in [1..MaxVersions -> Jobs \cup {None}] /\ job \in [Jobs -> Work]

(* No job runs into a unique constraint of the results: the locks of       *)
(* profile and opportunity are held from the look for an existing row to   *)
(* the commit of the new one.  (A violation would fail the whole job: a    *)
(* reconciliation of all owners, or a request for a list.)  And a change   *)
(* that an owner has been told is not told again when only its evidence is *)
(* another one.                                                            *)
InsertsAreFresh ==
  /\ TypeOK
  /\ \A j \in Jobs :
       /\ job[j].eligs \cap eligs = {} /\ job[j].ranks \cap ranks = {}
       /\ ToSet(job[j].delta) \cap ToSet(deltas) = {}
  /\ \A j, k \in Jobs : j # k => job[j].eligs \cap job[k].eligs = {}
  /\ \A e, f \in events : e.owner = f.owner /\ e # f =>
       \/ None \in {e.change, f.change}
       \/ e.change.to # f.change.to
       \/ Meaning[e.change.before] # Meaning[f.change.before]
       \/ Meaning[e.change.after] # Meaning[f.change.after]

(* docs/notifications.md: what is announced is what holds at the commit.   *)
(* A recommendation is one for the profile as it is and for the current    *)
(* version, a change is that of the current transition with the facts both *)
(* versions have now, both finished, and its owner did not start to watch  *)
(* after it.                                                               *)
IsCurrent(e) ==
  IF e.change = None
    THEN /\ e.elig.version = current
         /\ e.elig.value = prof[e.owner]
         /\ <<e.elig.value, e.elig.facts>> \in Matches
    ELSE /\ e.change = Delta(current, Snapshot(versions[current].prev), Snapshot(current))
         /\ watch[e.owner] # None => watch[e.owner] < current

AnnouncementsAreCurrent == [][\A e \in events' \ events : IsCurrent(e)]_vars

(* A watched change is announced: once both versions stay finished and the *)
(* owner keeps watching, the event is made, whatever else fails, crashes   *)
(* or is edited in between.  Except when the facts have gone back to those *)
(* of an older revision: the newest revision then stays the applicable one *)
(* and nothing is sent.                                                    *)
CurrentDelta == Delta(current, Snapshot(versions[current].prev), Snapshot(current))

Due(o) ==
  /\ prefs[o] /\ watch[o] # None /\ watch[o] < current
  /\ versions[current].kind = "current"
  /\ versions[current].gate /\ versions[versions[current].prev].gate
  /\ Differs(CurrentDelta)
  /\ CurrentDelta \in ToSet(deltas) => IsLatest(CurrentDelta, deltas)

ChangeIsAnnounced ==
  \A o \in Owners : []<>(Due(o) => \E e \in events : e.key = ChangeKey(o, CurrentDelta))

=============================================================================
