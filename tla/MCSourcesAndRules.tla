------------------------- MODULE MCSourcesAndRules -------------------------
(***************************************************************************)
(* The small machines at the edges of the system (KonepsCursor,            *)
(* RetryAfter, InboxPages) and the rules that judge one input at a time    *)
(* (ExtractionClaims, DecisionRules, DeltaRules), checked side by side: a  *)
(* behaviour is about one subject, and the others rest.  A rule is given   *)
(* every input of a small set.                                             *)
(***************************************************************************)
EXTENDS KonepsCursor, RetryAfter, InboxPages, ExtractionClaims, DecisionRules, DeltaRules, TLC

VARIABLE subject  \* what this behaviour is about

ruleVars == <<texts, tenders, histories, snapshots>>
vars     == <<cursorVars, retryVars, inboxVars, ruleVars, subject>>

None == [f \in {} |-> 0]

-----------------------------------------------------------------------------
(* Inputs of the extraction rules: documents of two or three lines, as     *)
(* text, as a scan, and with another attachment beside them.               *)

KRW == 1
USD == 2
BudgetLine(a, c) == Line("Budget", "plain", <<a, c>>)
TitleLine == Line("Title", "plain", <<1>>)
DocumentLines ==
  {TitleLine, Line("Title", "broken", <<1>>)} \cup
  {BudgetLine(1, KRW), BudgetLine(1, USD), BudgetLine(2, KRW)} \cup
  {Line("Region", form, <<1>>) : form \in {"plain", "negated"}} \cup
  {Line("Region", "empty", <<>>), Line("none", "plain", <<2>>), Line("Published", "dateonly", <<2>>)} \cup
  {Line("Deadline", form, <<1>>) : form \in {"plain", "dateonly", "broken"}}

Pages == {<<a, b>> : a, b \in DocumentLines} \cup {<<a, b, TitleLine>> : a, b \in DocumentLines}

Parse(kind, lines, trusted, recognized) ==
  [kind |-> kind, version |-> 1, trusted |-> TRUE, recognized |-> recognized,
   pages |-> {[lines |-> lines, trusted |-> trusted]}]

Other == <<BudgetLine(2, KRW)>>

Documents ==
  {{{Parse("native", p, TRUE, FALSE)}} : p \in Pages}
  \cup {{{Parse("native", p, FALSE, FALSE), Parse("ocr", p, TRUE, TRUE)},
         {Parse("native", Other, TRUE, FALSE)}} : p \in Pages}
  \cup {{{Parse("native", p, TRUE, FALSE), Parse("ocr", Other, TRUE, readable)},
         {Parse("native", <<TitleLine>>, TRUE, FALSE)}} : p \in Pages, readable \in BOOLEAN}

Quotes(bundle) == UNION {{[page |-> page, quote |-> s] : s \in Spans(page)} : page \in bundle}

(* What an extractor may answer for a field: what a line says, or, quoting *)
(* a line that does not say it, something else.                            *)
AnswersFor(bundle, f) ==
  {[g \in {f} |-> [value    |-> IF Speaks(r.quote, f) THEN Says(r.quote)[f] ELSE <<3>>,
                   evidence |-> {r}]] :
   r \in {q \in Quotes(bundle) : Speaks(q.quote, f) \/ q.quote.label = "none"}}

MCAnswersTo(bundle) ==
  LET maybe(f) == AnswersFor(bundle, f) \cup {None}
  IN  {t @@ a @@ c @@ r @@ p @@ d : t \in AnswersFor(bundle, "title"), a \in maybe("amount"),
         c \in maybe("currency"), r \in maybe("regions"), p \in maybe("published"), d \in maybe("closes")}

MCTexts == {Bundle(d) : d \in Documents}

MCUpstreamRecords ==
  {None, [amount |-> <<1>>], [amount |-> <<2>>, currency |-> <<KRW>>], [currency |-> <<USD>>], [regions |-> <<2>>]}

-----------------------------------------------------------------------------
(* Inputs of the decision rules.  The normaliser always states a currency. *)

Profile(regions, bounds, currency, certificates) ==
  [regions |-> regions, bounds |-> bounds, currency |-> currency, certifications |-> certificates,
   excluded |-> {"gambling"}, industries |-> {"it"}, capabilities |-> {"cloud"}]

MCBidders ==
  {Profile(rs, b, c, certs) : rs \in {{}, {1}}, b \in {None, [low |-> 10], [high |-> 20], [low |-> 10, high |-> 20]},
     c \in {"none", "KRW"}, certs \in {{}, {"iso"}}}

Partial(field, values) == {None} \cup {[g \in {field} |-> v] : v \in values}

Regions  == {{1}, {2}, {1, 2}}
Amounts  == {5, 15, 25}
Day0     == 50
MCDays   == {Day0}

MCTenders ==
  {r @@ a @@ t @@ c @@ [text |-> {"cloud"}, category |-> {"it"}, published |-> Day0 - 10, currency |-> "KRW"] :
     r \in Partial("regions", Regions), a \in Partial("amount", Amounts),
     t \in Partial("closes", {Day0 - 1, Day0 + 5}), c \in Partial("certifications", {{"iso"}, {"iso", "cmmi"}})}

(* A view agrees with upstream where both speak, and has a whole budget.   *)
MCViewsOf(upstream) ==
  {v \in {r @@ m @@ c @@ k : r \in Partial("regions", Regions),
           m \in {None} \cup {[amount |-> a, currency |-> "KRW"] : a \in Amounts},
           c \in Partial("certifications", {{"iso"}, {"cmmi"}}), k \in Partial("constraints", {{"gambling"}})} :
     \A f \in DOMAIN v \cap DOMAIN upstream : v[f] = upstream[f]}

(* Every way the unknown may turn out to be.                               *)
MCCompletions ==
  {[regions |-> rs, amount |-> a, currency |-> c, certifications |-> certs] :
     rs \in (SUBSET {1, 2}) \ {{}}, a \in Amounts, c \in {"KRW", "USD"}, certs \in SUBSET {"iso", "cmmi"}}

Times == {<<1, 1, 1>>, <<1, 2, 2>>, <<2, 1, 3>>, <<3, 1, 1>>}

Version(id, record, at, region, enrichment) ==
  [id |-> id, record |-> record, effective |-> at[1], observed |-> at[2], created |-> at[3],
   claims |-> [regions |-> {region}, text |-> {"cloud"}, published |-> 1], enrichment |-> enrichment]

MCHistories ==
  {{Version(1, 1, s, 1, e), Version(2, 1, t, 2, f), Version(3, 2, <<1, 1, 2>>, 1, {})} :
     s, t \in Times, e, f \in {{}} \cup {{[available |-> d, claims |-> [regions |-> {1}]]} : d \in {1, 3}}}

MCBidderHistories ==
  {{[id |-> 1, available |-> a, ranking |-> TRUE, profile |-> Profile({1}, None, "none", {})],
    [id |-> 2, available |-> b, ranking |-> complete, profile |-> Profile({2}, None, "none", {})]} :
     a, b \in 1..3, complete \in BOOLEAN}

-----------------------------------------------------------------------------
(* Inputs of the delta rules                                               *)

Shas == {1, 2}
ManifestsOf(urls, shas) == UNION {[known -> [sha : shas, name : {"spec"}]] : known \in SUBSET urls}

(* Every manifest that a snapshot may have had.                            *)
MCTrueManifests == ManifestsOf({"a", "b"}, Shas)

(* Who may bid, as far as a snapshot says: a company of one region with    *)
(* its certificates, ready on a day.                                       *)
MCCompanies == [region : 1..2, certificates : SUBSET {"iso", "cmmi"}, ready : 1..2]

(* A normalised list is empty, and a currency KRW, unless stated.          *)
Defaults == [regions |-> {}, certifications |-> {}, capabilities |-> {}, constraints |-> {}, currency |-> "KRW"]

Snapshot(stated, view, manifest, complete) ==
  [normalized |-> stated @@ Defaults, raw |-> DOMAIN stated, view |-> view,
   manifest |-> manifest, complete |-> complete]

DocumentSnapshots ==
  {Snapshot(None, None, known, complete) : known \in ManifestsOf({"a", "b"}, Shas \cup {NoSha}), complete \in BOOLEAN}

(* What upstream states, or an extraction in its place.                    *)
FieldSnapshots ==
  {Snapshot(r @@ c @@ t, [certifications |-> {"iso"}], None, FALSE) :
     r \in Partial("regions", Regions \cup {{}}), c \in Partial("certifications", SUBSET {"iso", "cmmi"}),
     t \in Partial("closes", 1..2)}
  \cup {Snapshot(a @@ c, v, None, FALSE) :
          a \in Partial("amount", 1..2), c \in Partial("currency", {"KRW"}),
          v \in {None, [currency |-> "KRW"]} \cup {[amount |-> b, currency |-> "KRW"] : b \in 1..2}}

MCSnapshots == DocumentSnapshots \cup FieldSnapshots

-----------------------------------------------------------------------------

Init ==
  /\ CursorInit /\ RetryInit /\ InboxInit
  /\ subject \in {"cursor", "retry", "feed", "rules"}
  /\ texts = {} /\ tenders = {} /\ histories = {} /\ snapshots = {}
  /\ subject # "cursor" => listed = {}
  /\ subject # "feed" => qualifies = {}

Judge ==
  /\ ruleVars = <<{}, {}, {}, {}>>
  /\ \/ \E t \in Texts     : texts' = {t}     /\ UNCHANGED <<tenders, histories, snapshots>>
     \/ \E t \in Tenders   : tenders' = {t}   /\ UNCHANGED <<texts, histories, snapshots>>
     \/ \E h \in Histories : histories' = {h} /\ UNCHANGED <<texts, tenders, snapshots>>
     \/ \E s \in Snapshots : snapshots' = {s} /\ UNCHANGED <<texts, tenders, histories>>

Next ==
  \/ subject = "cursor" /\ CursorNext /\ UNCHANGED <<retryVars, inboxVars, ruleVars, subject>>
  \/ subject = "retry"  /\ RetryNext  /\ UNCHANGED <<cursorVars, inboxVars, ruleVars, subject>>
  \/ subject = "feed"   /\ InboxNext  /\ UNCHANGED <<cursorVars, retryVars, ruleVars, subject>>
  \/ subject = "rules"  /\ Judge      /\ UNCHANGED <<cursorVars, retryVars, inboxVars, subject>>

Spec == Init /\ [][Next]_vars

=============================================================================
