-------------------------- MODULE OpportunityGraph --------------------------
(***************************************************************************)
(* Versions of procurement opportunities and the lifecycle links between   *)
(* them: repositories/opportunities.py (upsert_opportunity_version),       *)
(* lifecycle/linker.py (link_candidate) and workers/lifecycle.py           *)
(* (link_opportunity).                                                     *)
(*                                                                         *)
(* Both operations run in one transaction each and take the same advisory  *)
(* lock (GRAPH_LOCK_ID) first, so each is one step here.  What varies is   *)
(* the order: raw records are normalised in any order, whatever their      *)
(* effective times, possibly more than once, and link jobs run at any      *)
(* time.  Links are directed from a parent to its successor in the         *)
(* procurement lifecycle.                                                  *)
(***************************************************************************)
EXTENDS Integers, FiniteSets, Sequences

CONSTANTS
  Opportunities,  \* canonical keys
  Raws,           \* stored raw records
  Times,          \* effective times
  Contents,       \* normalised contents (normalized_sha256)
  Stage,          \* lifecycle_stage of a content
  References,     \* official_references of a content: set of <<opportunity, stage>>
  Identifiers,    \* normalized_identifiers of a content
  Fingerprint,    \* title, buyer, amount and date as the linker compares them
  None            \* a content without the fields a fingerprint needs

(* lifecycle.linker.STAGE_ORDER *)
StageOrder ==
  [s \in {"pre-specification", "tender", "amendment", "award", "contract"} |->
     CASE s = "pre-specification" -> 0
       [] s = "tender"            -> 1
       [] s = "amendment"         -> 2
       [] s = "award"             -> 3
       [] s = "contract"          -> 4]

ASSUME GraphAssumption ==
  /\ IsFiniteSet(Opportunities)
  /\ Times \subseteq Nat
  /\ DOMAIN Stage = Contents
  /\ DOMAIN References = Contents
  /\ DOMAIN Identifiers = Contents
  /\ DOMAIN Fingerprint = Contents

VARIABLES
  raws,           \* raw_records: what a record says, and the version it became (0: pending)
  versions,       \* opportunity_versions of each opportunity, by version_number
  opportunities,  \* opportunities: current version (0: no row yet) and current_effective_at
  links           \* active lifecycle_links

vars == <<raws, versions, opportunities, links>>

Raw         == [opp: Opportunities, effective: Times, content: Contents, version: Nat]
Version     == [raw: Raws, effective: Times, content: Contents, previous: Nat,
                kind: {"initial", "current", "historical"}]
Opportunity == [current: Nat, effective: Nat]
Link        == [parent: Opportunities, child: Opportunities, parentVersion: Nat, childVersion: Nat]

Init ==
  /\ raws \in [Raws -> [opp: Opportunities, effective: Times, content: Contents, version: {0}]]
  /\ versions = [o \in Opportunities |-> <<>>]
  /\ opportunities = [o \in Opportunities |-> [current |-> 0, effective |-> 0]]
  /\ links = {}

-----------------------------------------------------------------------------
(***************************************************************************)
(* upsert_opportunity_version.                                             *)
(***************************************************************************)

Exists(o)         == opportunities[o].current # 0
CurrentContent(o) == versions[o][opportunities[o].current].content

(* The links that a new current version of an opportunity retracts.        *)
LinksFromParent(o) == {l \in links : l.parent = o}
LinksTouching(o)   == {l \in links : l.parent = o \/ l.child = o}

(* becomes_current: a content is adopted unless it is older than what the  *)
(* opportunity shows; equal times adopt the content processed last.        *)
AdoptAlways(o, effective) == TRUE
BecomesCurrent(o, effective) == Exists(o) => effective >= opportunities[o].effective

(* The time the opportunity shows once its content has been confirmed.     *)
LastReaffirmed(o, effective) == effective
LatestReaffirmed(o, effective) ==
  IF effective > opportunities[o].effective THEN effective ELSE opportunities[o].effective

(* The current version already has this content: only its time may move.   *)
Reaffirm(r) ==
  LET o == raws[r].opp
  IN  /\ raws[r].version = 0
      /\ Exists(o)
      /\ CurrentContent(o) = raws[r].content
      /\ opportunities' = [opportunities EXCEPT ![o].effective =
                             LatestReaffirmed(o, raws[r].effective)]
      /\ raws' = [raws EXCEPT ![r].version = opportunities[o].current]
      /\ UNCHANGED <<versions, links>>

(* The row of a new version, in order of creation.                         *)
NewVersionAfterNewest(r, kind) ==
  [raw |-> r, effective |-> raws[r].effective, content |-> raws[r].content,
   previous |-> Len(versions[raws[r].opp]), kind |-> kind]

NewVersion(r, kind) ==
  [raw |-> r, effective |-> raws[r].effective, content |-> raws[r].content,
   previous |-> opportunities[raws[r].opp].current, kind |-> kind]

(* A version that takes over: the links of the version it replaces, at     *)
(* either end, are retracted.                                              *)
Adopt(r) ==
  LET o == raws[r].opp
  IN  /\ raws[r].version = 0
      /\ Exists(o) => CurrentContent(o) # raws[r].content
      /\ BecomesCurrent(o, raws[r].effective)
      /\ versions' = [versions EXCEPT ![o] =
                        Append(@, NewVersion(r, IF Exists(o) THEN "current" ELSE "initial"))]
      /\ opportunities' = [opportunities EXCEPT ![o] =
                             [current |-> Len(versions[o]) + 1, effective |-> raws[r].effective]]
      /\ raws' = [raws EXCEPT ![r].version = Len(versions[o]) + 1]
      /\ links' = links \ LinksTouching(o)

(* A late record about the past: kept as a version, not adopted.           *)
FileAsHistory(r) ==
  LET o == raws[r].opp
  IN  /\ raws[r].version = 0
      /\ Exists(o)
      /\ CurrentContent(o) # raws[r].content
      /\ ~ BecomesCurrent(o, raws[r].effective)
      /\ versions' = [versions EXCEPT ![o] = Append(@, NewVersion(r, "historical"))]
      /\ raws' = [raws EXCEPT ![r].version = Len(versions[o]) + 1]
      /\ UNCHANGED <<opportunities, links>>

Normalize(r) == Reaffirm(r) \/ Adopt(r) \/ FileAsHistory(r)

-----------------------------------------------------------------------------
(***************************************************************************)
(* link_candidate: one conservative parent, or none.                       *)
(***************************************************************************)

(* _forward, on the current versions.                                      *)
Forward(p, c) ==
  /\ p # c
  /\ {Stage[CurrentContent(p)], Stage[CurrentContent(c)]} \subseteq DOMAIN StageOrder
  /\ StageOrder[Stage[CurrentContent(p)]] < StageOrder[Stage[CurrentContent(c)]]

Candidates(c) == {p \in Opportunities \ {c} : Exists(p)}

Referenced(c) ==
  {p \in Candidates(c) : <<p, Stage[CurrentContent(p)]>> \in References[CurrentContent(c)]}

SharingIdentifier(c) ==
  {p \in Candidates(c) :
     Identifiers[CurrentContent(p)] \cap Identifiers[CurrentContent(c)] # {}}

SameFingerprint(c) ==
  {p \in Candidates(c) : /\ Fingerprint[CurrentContent(c)] # None
                         /\ Fingerprint[CurrentContent(p)] = Fingerprint[CurrentContent(c)]}

Singleton(S) == \E x \in S : S = {x}

(* The matches of the strongest method that applies.  References decide    *)
(* alone when there are any, and more than one of them is ambiguous.       *)
Matches(c) ==
  IF References[CurrentContent(c)] # {}
  THEN IF Singleton(References[CurrentContent(c)]) /\ Singleton(Referenced(c))
       THEN Referenced(c) ELSE {}
  ELSE IF SharingIdentifier(c) # {} THEN SharingIdentifier(c) ELSE SameFingerprint(c)

(* _select_unique: those of the matches that come earlier in the           *)
(* lifecycle.  The decision is resolved when there is exactly one.         *)
Compatible(c) == {p \in Matches(c) : Forward(p, c)}

(* The active links that link_opportunity retracts or replaces.            *)
StaleLinksOfChild(c) ==
  {l \in links : l.child = c /\ l.childVersion # opportunities[c].current}
LinksOfChild(c) == {l \in links : l.child = c}

LinkTo(p, c) ==
  [parent |-> p, child |-> c,
   parentVersion |-> opportunities[p].current, childVersion |-> opportunities[c].current]

-----------------------------------------------------------------------------
(***************************************************************************)
(* link_opportunity.                                                       *)
(***************************************************************************)

LinkResolved(c) ==
  /\ Exists(c)
  /\ \E p \in Compatible(c) :
       /\ Compatible(c) = {p}
       /\ links' = IF LinkTo(p, c) \in links
                   THEN links ELSE (links \ LinksOfChild(c)) \cup {LinkTo(p, c)}
  /\ UNCHANGED <<raws, versions, opportunities>>

LinkUnresolved(c) ==
  /\ Exists(c)
  /\ ~ Singleton(Compatible(c))
  /\ links' = links \ LinksOfChild(c)
  /\ UNCHANGED <<raws, versions, opportunities>>

LinkOpportunity(c) == LinkResolved(c) \/ LinkUnresolved(c)

-----------------------------------------------------------------------------
(***************************************************************************)
(* What is read of the graph.                                              *)
(***************************************************************************)

(* What is reached from o along the edges, in as many steps as there are   *)
(* opportunities.                                                          *)
Closure(o, edges) ==
  LET reached[n \in Nat] ==
        IF n = 0 THEN {o}
        ELSE reached[n - 1] \cup {e[2] : e \in {d \in edges : d[1] \in reached[n - 1]}}
  IN  reached[Cardinality(Opportunities)]

(* timeline_for: everything joined to o by active links, in any direction. *)
Neighbours  == {<<l.parent, l.child>> : l \in links} \cup {<<l.child, l.parent>> : l \in links}
Timeline(o) == Closure(o, Neighbours)

(* _outcomes follows only links between current versions, upwards.         *)
Parents ==
  {<<l.child, l.parent>> :
     l \in {k \in links : /\ k.parentVersion = opportunities[k.parent].current
                          /\ k.childVersion = opportunities[k.child].current}}

Outcomes ==
  {o \in Opportunities : /\ Exists(o)
                         /\ Stage[CurrentContent(o)] \in {"award", "opening", "contract"}}

(* Whoever watches one of these is told of the outcome o.                  *)
ToldOf(o) == Closure(o, Parents)

Next ==
  \/ \E r \in Raws : Normalize(r)
  \/ \E c \in Opportunities : LinkOpportunity(c)

Spec == Init /\ [][Next]_vars

(* The cron reconciliations normalise pending records and link every       *)
(* opportunity again and again.                                            *)
FairSpec ==
  /\ Spec
  /\ \A r \in Raws : WF_vars(Normalize(r))
  /\ \A c \in Opportunities : WF_vars(LinkOpportunity(c))

-----------------------------------------------------------------------------
(***************************************************************************)
(* Properties.                                                             *)
(***************************************************************************)

(* Type correctness. *)
TypeOK ==
  /\ raws \in [Raws -> Raw]
  /\ versions \in [Opportunities -> Seq(Version)]
  /\ opportunities \in [Opportunities -> Opportunity]
  /\ links \subseteq Link

NormalizedRaws(o) == {r \in Raws : raws[r].opp = o /\ raws[r].version # 0}

(* The opportunity shows the latest news, whatever order the records were  *)
(* processed in: its effective time is the greatest of all its normalised  *)
(* records, and its current content is what a record of that time says.    *)
CurrentIsLatest ==
  \A o \in Opportunities :
    /\ \A r \in NormalizedRaws(o) :
         Exists(o) /\ raws[r].effective <= opportunities[o].effective
    /\ Exists(o) => \E r \in NormalizedRaws(o) :
         /\ raws[r].effective = opportunities[o].effective
         /\ raws[r].content = CurrentContent(o)

PointersHold ==
  /\ \A r \in Raws : raws[r].version # 0 =>
       /\ raws[r].version \in DOMAIN versions[raws[r].opp]
       /\ versions[raws[r].opp][raws[r].version].content = raws[r].content
  /\ \A o \in Opportunities : \A n \in DOMAIN versions[o] :
       raws[versions[o][n].raw].opp = o /\ raws[versions[o][n].raw].version = n

(* The rows that have been current, among the first n, and the last one.   *)
Adopted(o, n) == {m \in 1..n : versions[o][m].kind # "historical"}

LastAdopted(o, n, m) ==
  \/ m = 0 /\ Adopted(o, n) = {}
  \/ m \in Adopted(o, n) /\ \A i \in Adopted(o, n) : i <= m

AdoptionIsReplayable ==
  \A o \in Opportunities :
    /\ LastAdopted(o, Len(versions[o]), opportunities[o].current)
    /\ \A n \in 1..Len(versions[o]) :
         /\ LastAdopted(o, n - 1, versions[o][n].previous)
         /\ versions[o][n].kind = "initial" <=> n = 1

(* Every row is well formed; a normalised record points at a version of    *)
(* its own opportunity with its own content, and a version at the record   *)
(* it was made from; and the adoption history can be replayed from the     *)
(* version rows: the current version is the last adopted one, every row's  *)
(* previous_current_version is the one adopted last before it, and exactly *)
(* the first row is the initial one.                                       *)
ProvenanceHolds == TypeOK /\ PointersHold /\ AdoptionIsReplayable

(* Every active link joins the current versions of its two ends, leads to  *)
(* a later stage, and is the only one of its child.                        *)
LinksHold ==
  \A l \in links :
    LET from == Stage[CurrentContent(l.parent)]
        to   == Stage[CurrentContent(l.child)]
    IN  /\ Exists(l.parent) /\ Exists(l.child)
        /\ l.parentVersion = opportunities[l.parent].current
        /\ l.childVersion = opportunities[l.child].current
        /\ {from, to} \subseteq DOMAIN StageOrder /\ StageOrder[from] < StageOrder[to]
        /\ \A m \in links : l.child = m.child => l = m

(* An active link joins the current versions of its two ends, whatever was *)
(* revised since it was decided, and a child has at most one active parent *)
(* (uq_lifecycle_active_child). workers/lifecycle.py claims that "stage    *)
(* ordering then makes cycles impossible": every active link leads to a    *)
(* later stage.  So whoever is told of an outcome watches an earlier stage *)
(* of it, which the timeline of the outcome shows.                         *)
LinksAreSound ==
  /\ LinksHold
  /\ \A l \in links : l.child \in Outcomes =>
       /\ l.parent \in ToldOf(l.child) /\ ToldOf(l.child) \subseteq Timeline(l.child)
       /\ \A a \in ToldOf(l.child) \ {l.child} :
            StageOrder[Stage[CurrentContent(a)]] < StageOrder[Stage[CurrentContent(l.child)]]

(* A processed record stays processed, version rows are never rewritten    *)
(* and an opportunity never goes back in time.                             *)
HistoryOnlyGrows ==
  [][/\ \A r \in Raws : raws[r].version # 0 => raws'[r] = raws[r]
     /\ \A o \in Opportunities :
          /\ SubSeq(versions'[o], 1, Len(versions[o])) = versions[o]
          /\ opportunities'[o].effective >= opportunities[o].effective]_vars

(* Once no record is pending, the links come to rest where the linker's    *)
(* decisions on the current versions are exactly the active links.         *)
GraphSettles ==
  <>[](\A c \in Opportunities : Exists(c) =>
         {p \in Opportunities : \E l \in links : l.child = c /\ l.parent = p} =
           IF Singleton(Compatible(c)) THEN Compatible(c) ELSE {})

=============================================================================
