--------------------------- MODULE DecisionRules ---------------------------
(***************************************************************************)
(* The rules behind a recommendation: which claims about an opportunity a  *)
(* decision may rest on (_prepared_opportunity of ranking/eligibility.py), *)
(* the hard eligibility gate (evaluate_eligibility), the score             *)
(* (ranking/features.py, ranking/ranker.py), and the replay of past        *)
(* decisions from frozen inputs (evaluation/replay.py).  DerivedResults    *)
(* models when their results are stored and announced.                     *)
(*                                                                         *)
(* Claims are a function from the fields that are known to their values;   *)
(* names, regions and words of a text are members of small sets, amounts   *)
(* and days are numbers.  "text" stands for title, description and body.   *)
(***************************************************************************)
EXTENDS Integers, FiniteSetsExt

CONSTANTS
  Tenders,          \* what upstream may state of a tender
  ViewsOf(_),       \* what documents may add to it
  Bidders,          \* the profiles that decisions are made for
  Completions,      \* what may turn out to be true of the unknown
  Days,             \* the days of decisions
  Histories,        \* sets of versions that may be replayed
  BidderHistories,  \* the profiles beside them, as they were revised
  ReplayDays        \* the days of replays

VARIABLES
  tenders,          \* the tenders to decide about
  histories         \* the histories to replay

Money == {"amount", "currency"}

(* An excluded keyword counts in the participation constraints too.        *)
TextFields == {"text", "constraints"}

(* A function that prefers what f says and otherwise takes it from g.      *)
Over(f, g) == [x \in DOMAIN f \cup DOMAIN g |-> IF x \in DOMAIN f THEN f[x] ELSE g[x]]

Only(f, fields) == [x \in DOMAIN f \cap fields |-> f[x]]

-----------------------------------------------------------------------------
(* Claims                                                                  *)

(* Upstream comes first, field by field, and the view of a trusted         *)
(* extraction fills the gaps; amount and currency are one claim: both from *)
(* upstream or, when upstream says neither, both from the view.            *)
Claims(upstream, view) ==
  LET others == Over([x \in DOMAIN upstream \ Money |-> upstream[x]],
                     [x \in DOMAIN view \ Money |-> view[x]])
      money  == CASE Money \subseteq DOMAIN upstream                        -> Only(upstream, Money)
                  [] Money \cap DOMAIN upstream = {} /\ Money \subseteq DOMAIN view -> Only(view, Money)
                  [] OTHER                                                  -> Only(upstream, {})
  IN  Over(others, money)

-----------------------------------------------------------------------------
(* Hard eligibility                                                        *)

Known(claims, f) == f \in DOMAIN claims

Comparable(profile, claims) ==
  /\ DOMAIN profile.bounds # {} /\ Money \subseteq DOMAIN claims
  /\ claims["currency"] = profile.currency

HardFailures(profile, claims) ==
  {code \in {"region_not_served", "amount_below_minimum", "amount_above_maximum",
             "missing_certification", "explicit_exclusion"} :
     CASE code = "region_not_served" ->
            /\ Known(claims, "regions") /\ profile.regions # {}
            /\ profile.regions \cap claims["regions"] = {}
       [] code = "amount_below_minimum" ->
            /\ Comparable(profile, claims) /\ "low" \in DOMAIN profile.bounds
            /\ claims["amount"] < profile.bounds["low"]
       [] code = "amount_above_maximum" ->
            /\ Comparable(profile, claims) /\ "high" \in DOMAIN profile.bounds
            /\ claims["amount"] > profile.bounds["high"]
       [] code = "missing_certification" ->
            Known(claims, "certifications") /\ ~ claims["certifications"] \subseteq profile.certifications
       [] code = "explicit_exclusion" ->
            profile.excluded \cap UNION {claims[f] : f \in DOMAIN claims \cap TextFields} # {}}

MoneyWarningsIfStated(profile, claims) ==
  IF DOMAIN profile.bounds = {} \/ ~ Money \subseteq DOMAIN claims THEN {}
  ELSE IF claims["currency"] # profile.currency THEN {"amount_currency_mismatch"} ELSE {}

(* One warning about money at most: the first of these that applies.       *)
MoneyWarnings(profile, claims) ==
  CASE DOMAIN profile.bounds = {}            -> {}
    [] ~ Known(claims, "amount")             -> {"amount_unknown"}
    [] ~ Known(claims, "currency")           -> {"amount_currency_unknown"}
    [] profile.currency = "none"             -> {"profile_currency_unknown"}
    [] claims["currency"] # profile.currency -> {"amount_currency_mismatch"}
    [] OTHER                                 -> {}

Warnings(profile, claims) ==
  MoneyWarnings(profile, claims) \cup
  {code \in {"region_unknown", "profile_regions_unknown", "certifications_unknown"} :
     CASE code = "region_unknown"          -> ~ Known(claims, "regions")
       [] code = "profile_regions_unknown" -> Known(claims, "regions") /\ profile.regions = {}
       [] code = "certifications_unknown"  -> ~ Known(claims, "certifications")}

AllowsRecommendation(profile, claims) ==
  HardFailures(profile, claims) = {} /\ Warnings(profile, claims) = {}

-----------------------------------------------------------------------------
(* The score, in units of 0.00001                                          *)

One == 100000

(* quantize: to the nearest unit, a half to the even one.                  *)
Rounded(n, d) ==
  LET q == n \div d
      r == n % d
  IN  IF 2 * r > d \/ (2 * r = d /\ q % 2 = 1) THEN q + 1 ELSE q

Bounded(n, d) == Min({One, Max({0, Rounded(n * One, d)})})

LexicalScore(profile, claims) ==
  LET interests == profile.industries \cup profile.capabilities
      observed  == UNION {claims[f] : f \in DOMAIN claims \cap {"text", "category"}}
  IN  IF interests = {} THEN 0 ELSE Bounded(Cardinality(interests \cap observed), Cardinality(interests))

CapabilityScore(profile, claims) ==
  LET required == IF Known(claims, "capabilities") THEN claims["capabilities"] ELSE {}
      text     == IF Known(claims, "text") THEN claims["text"] ELSE {}
      wanted   == IF required # {} THEN required ELSE profile.capabilities \cap text
  IN  IF wanted = {} THEN 0 ELSE Bounded(Cardinality(wanted \cap profile.capabilities), Cardinality(wanted))

CategoryScore(profile, claims) ==
  IF Known(claims, "category") /\ claims["category"] \subseteq profile.industries THEN One ELSE 0

(* How close an amount is to the middle of the company's range.            *)
AmountScore(profile, claims) ==
  LET b == profile.bounds
      a == claims["amount"]
  IN  CASE ~ Money \subseteq DOMAIN claims \/ claims["currency"] # profile.currency -> 0
        [] "low" \in DOMAIN b /\ a < b["low"]                                     -> 0
        [] "high" \in DOMAIN b /\ a > b["high"]                                   -> 0
        [] ~ {"low", "high"} \subseteq DOMAIN b \/ b["high"] <= b["low"]          -> One
        [] OTHER -> LET off == 2 * a - (b["low"] + b["high"])
                    IN  Bounded(b["high"] - b["low"] - Max({off, -off}), b["high"] - b["low"])

Expired(claims, day) == Known(claims, "closes") /\ claims["closes"] < day

(* Half for a publication within 30 days, half for a deadline within 45.   *)
RecencyScore(claims, day) ==
  LET recency  == IF Known(claims, "published") THEN Max({0, 90 - 3 * (day - claims["published"])}) ELSE 0
      deadline == IF Known(claims, "closes") THEN Max({0, 90 - 2 * (claims["closes"] - day)}) ELSE 0
  IN  IF Expired(claims, day) THEN 0 ELSE Bounded(recency + deadline, 180)

(* rank_opportunity, without the experimental reranker, which nothing      *)
(* calls.  A version published after the day of the decision is an error.  *)
Rankable(claims, day) == Known(claims, "published") => claims["published"] <= day

Score(profile, claims, day) ==
  Rounded(25 * LexicalScore(profile, claims) + 25 * CapabilityScore(profile, claims)
          + 20 * CategoryScore(profile, claims) + 15 * AmountScore(profile, claims)
          + 15 * RecencyScore(claims, day), 100)

Threshold == 60000

Recommended(profile, claims, day) ==
  /\ AllowsRecommendation(profile, claims)
  /\ Rankable(claims, day) /\ ~ Expired(claims, day)
  /\ Score(profile, claims, day) >= Threshold

-----------------------------------------------------------------------------
(* Replay of the past.  A version has the time it became effective and the *)
(* times it was observed and stored, and perhaps an enrichment, the fields *)
(* of an extraction and the time they became available.                    *)

Available(version, day) == Max({version.effective, version.observed, version.created}) <= day

(* Newest first by effective, observed and created time, then by name.     *)
Before(v, w) ==
  LET key(x) == <<x.effective, x.observed, x.created, x.id>>
  IN  \E i \in 1..4 : key(v)[i] < key(w)[i] /\ \A j \in 1..(i - 1) : key(v)[j] = key(w)[j]

EnrichedAtOnce(version, day) ==
  LET added == {e \in version.enrichment : TRUE}
  IN  IF added = {} THEN version.claims ELSE Over((CHOOSE e \in added : TRUE).claims, version.claims)

(* Unlike in a live decision, an enrichment replaces upstream claims.      *)
Enriched(version, day) ==
  LET added == {e \in version.enrichment : e.available <= day}
  IN  IF added = {} THEN version.claims ELSE Over((CHOOSE e \in added : TRUE).claims, version.claims)

VisibleVersions(versions, day) ==
  LET seen == {v \in versions : Available(v, day)}
  IN  {v \in seen : \A w \in seen \ {v} : w.record = v.record => Before(w, v)}

(* The newest profile there was; without one that has the ranking fields   *)
(* the replay refuses, it never takes a present profile instead.           *)
ProfilesAt(profiles, day) ==
  LET there == {p \in profiles : p.available <= day}
  IN  {p \in there : p.ranking /\ \A q \in there : q.available < p.available \/ (q.available = p.available /\ q.id <= p.id)}

(* decision_for; the participation constraints are no text here.           *)
DecisionFor(profile, fields, day) ==
  LET claims == Only(fields, DOMAIN fields \ {"constraints"})
  IN  [hard        |-> HardFailures(profile, claims),
       warnings    |-> Warnings(profile, claims),
       score       |-> Score(profile, claims, day),
       recommended |-> Recommended(profile, claims, day)]

(* One version that cannot be ranked fails the replay as a whole.          *)
ReplayAt(versions, profiles, day) ==
  LET visible == VisibleVersions(versions, day)
  IN  IF \E v \in visible : ~ Rankable(Enriched(v, day), day) THEN {}
      ELSE {[profile  |-> p.id, version |-> v.id,
             decision |-> DecisionFor(p.profile, Enriched(v, day), day)] :
            p \in ProfilesAt(profiles, day), v \in visible}

-----------------------------------------------------------------------------
(* What the rules promise                                                  *)

(* What is unknown of a tender are facts, not the words of its notice; and *)
(* a version's number names one row.                                       *)
ASSUME TendersAssumption ==
  /\ \A outcome \in Completions : DOMAIN outcome \cap TextFields = {}
  /\ \A history \in Histories : \A v, w \in history : v.id = w.id => v = w
  /\ ReplayDays \subseteq Int

(* docs/RANKING.md: unknown facts are never taken for eligible.  A tender  *)
(* is recommended only if no outcome of what is unknown about it, no other *)
(* region, amount, currency or certificate, would bar the company; and     *)
(* what documents add neither replaces what upstream says nor lifts a      *)
(* failure that upstream alone causes.                                     *)
RecommendationIsCertain ==
  \A upstream \in tenders, profile \in Bidders, day \in Days : \A view \in ViewsOf(upstream) :
    LET claims == Claims(upstream, view)
        alone  == Claims(upstream, Only(view, {}))
    IN  /\ Recommended(profile, claims, day) =>
             \A outcome \in Completions : HardFailures(profile, Over(claims, outcome)) = {}
        /\ HardFailures(profile, alone) \subseteq HardFailures(profile, claims)
        /\ \A f \in DOMAIN upstream \ Money : claims[f] = upstream[f]

(* A version as it was on a day, with the enrichments of its time; and the *)
(* versions and companies that were there.                                 *)
AsOf(version, day) == [version EXCEPT !.enrichment = {e \in @ : e.available <= day}]

ThereOn(version, day) ==
  version.effective <= day /\ version.observed <= day /\ version.created <= day

Past(history, day) == {AsOf(v, day) : v \in {w \in history : ThereOn(w, day)}}

Then(companies, day) == {p \in companies : p.available <= day}

(* The head of evaluation/replay.py: nothing that came later is put into a *)
(* past decision.  A replay of a day equals the replay of what there was   *)
(* on that day: without the versions, enrichments and profiles of later    *)
(* days.                                                                   *)
NoHindsight ==
  \A history \in histories, profiles \in BidderHistories, day \in ReplayDays :
    ReplayAt(history, profiles, day) = ReplayAt(Past(history, day), Then(profiles, day), day)

=============================================================================
