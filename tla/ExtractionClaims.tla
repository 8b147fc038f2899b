-------------------------- MODULE ExtractionClaims --------------------------
(***************************************************************************)
(* What an extraction may claim: the choice of the text that is shown to   *)
(* the extractor (build_document_bundle of extraction/service.py), the     *)
(* grounding of its answer in that text (extraction/validation.py), and    *)
(* what of a grounded answer others get to see next to the upstream record *)
(* (trusted_extraction_view).  ExtractionFence models when and at whose    *)
(* expense the extractor is called.                                        *)
(*                                                                         *)
(* A line of text is its label, its form and its value; how labels, dates  *)
(* and amounts are spelt is left out.  A value is a list of numbers: of    *)
(* regions, or of one amount, currency, title or time.                     *)
(***************************************************************************)
EXTENDS Integers, FiniteSets, Sequences, SequencesExt

CONSTANTS
  Texts,           \* the texts that may be extracted
  AnswersTo(_),    \* what extractors may answer to a text
  UpstreamRecords  \* the records an answer may stand beside

VARIABLE texts     \* the texts at hand

Fields       == {"title", "amount", "currency", "regions", "published", "closes"}
BudgetFields == {"amount", "currency"}

(* A value that the schema refuses: an empty title, a budget of nothing,   *)
(* a date that is none.                                                    *)
Invalid == <<>>

(* Forms of a line: plain; empty, a label whose value is on the next line; *)
(* negated, a requirement with "not", "optional" ...; dateonly, a day      *)
(* without a time; broken, in the shape of the field but no value of it.   *)
Line(label, form, value) == [label |-> label, form |-> form, value |-> value]

-----------------------------------------------------------------------------
(* Reading a page                                                          *)

(* evidence_spans: a label without a value takes the line that follows,    *)
(* when that is a bare value.                                              *)
Span(page, i) ==
  IF page[i].form = "empty" /\ i < Len(page) /\ page[i + 1].label = "none"
    THEN [page[i + 1] EXCEPT !.label = page[i].label]
    ELSE page[i]

Spans(page) == {Span(page, i) : i \in DOMAIN page}

(* labeled_claims: a budget is an amount and its currency at once, a pair; a *)
(* negated requirement claims nothing; a deadline needs a time of day, a   *)
(* publication does not.                                                   *)
Says(span) ==
  CASE span.label = "Budget" /\ span.form = "plain" ->
         [amount |-> <<span.value[1]>>, currency |-> <<span.value[2]>>]
    [] span.label = "Title" /\ span.form = "plain"         -> [title |-> span.value]
    [] span.label = "Title" /\ span.form = "broken"        -> [title |-> Invalid]
    [] span.label = "Region" /\ span.form = "plain"        -> [regions |-> span.value]
    [] span.label = "Published" /\ span.form = "broken"    -> [published |-> Invalid]
    [] span.label = "Published" /\ span.form \in {"plain", "dateonly"} -> [published |-> span.value]
    [] span.label = "Deadline" /\ span.form = "broken"     -> [closes |-> Invalid]
    [] span.label = "Deadline" /\ span.form = "plain"      -> [closes |-> span.value]
    [] OTHER                                               -> [f \in {} |-> Invalid]

Speaks(span, f) == f \in DOMAIN Says(span)

Qualifies(span, f) == f = "regions" /\ span.label = "Region" /\ span.form = "negated"

(* build_document_bundle.  A parse of an attachment is native or by OCR    *)
(* and has pages; only trusted parses count, of OCR only recognised ones.  *)
(* Per attachment the newest parse is taken, one by OCR before a native    *)
(* one, and of it the pages whose own quality is trusted.                  *)
Suitable(parse) == parse.trusted /\ (parse.kind = "ocr" => parse.recognized)

Preferred(parses, p) ==
  \A q \in parses \ {p} : \/ p.kind = "ocr" /\ q.kind = "native"
                          \/ p.kind = q.kind /\ p.version > q.version

Bundle(attachments) ==
  UNION {{page.lines : page \in {g \in parse.pages : g.trusted}} :
         parse \in UNION {LET suitable == {p \in parses : Suitable(p)}
                          IN  {p \in suitable : Preferred(suitable, p)} : parses \in attachments}}

-----------------------------------------------------------------------------
(* Grounding an answer: claims by field and, by field, the spans it quotes *)
(* as evidence, each with its page.                                        *)

(* StructuredFields                                                        *)
Coherent(values) ==
  /\ "title" \in DOMAIN values
  /\ \A f \in DOMAIN values : values[f] # Invalid
  /\ ("amount" \in DOMAIN values) <=> ("currency" \in DOMAIN values)
  /\ {"published", "closes"} \subseteq DOMAIN values => values["published"][1] <= values["closes"][1]

Observed(bundle, f) == {Says(s)[f] : s \in {t \in UNION {Spans(page) : page \in bundle} : Speaks(t, f)}}

Qualified(bundle) == {f \in Fields : \E page \in bundle : \E s \in Spans(page) : Qualifies(s, f)}

BindingIfClaimed(claims, bundle) == {f \in DOMAIN claims : Observed(bundle, f) # {}}

(* Fields the document speaks of whatever the answer leaves out; only a    *)
(* qualified requirement may be left out as a whole.                       *)
Binding(claims, bundle) ==
  {f \in Fields : Observed(bundle, f) # {} /\ (f \in Qualified(bundle) => f \in DOMAIN claims)}

Overlaid(claims, bundle) ==
  LET binding == Binding(claims, bundle)
  IN  [f \in DOMAIN claims \cup binding |->
         IF f \in binding THEN CHOOSE v \in Observed(bundle, f) : TRUE ELSE claims[f]]

Supported(f, value, references, bundle) ==
  /\ references # {}
  /\ \A r \in references :
       /\ r.page \in bundle /\ r.quote \in Spans(r.page)
       /\ Speaks(r.quote, f) /\ Says(r.quote)[f] = value

(* validate_extraction                                                     *)
Accepted(claims, evidence, bundle) ==
  /\ Coherent(claims)
  /\ DOMAIN claims \cap Qualified(bundle) = {}
  /\ \A f \in Binding(claims, bundle) : Cardinality(Observed(bundle, f)) = 1
  /\ Coherent(Overlaid(claims, bundle))
  /\ DOMAIN evidence \subseteq DOMAIN claims
  /\ \A f \in DOMAIN claims :
       /\ f \in DOMAIN evidence /\ Supported(f, claims[f], evidence[f], bundle)
       /\ Observed(bundle, f) \subseteq {claims[f]}

-----------------------------------------------------------------------------
(* Beside the upstream record                                              *)

(* _equivalent: lists are compared as sets.                                *)
Equivalent(f, u, v) == IF f = "regions" THEN Range(u) = Range(v) ELSE u = v

ConflictsByField(claims, upstream) ==
  {f \in DOMAIN claims \cap DOMAIN upstream : ~ Equivalent(f, upstream[f], claims[f])}

(* The conflicts stored with an extraction; amount and currency are        *)
(* withheld as one claim.                                                  *)
Conflicts(claims, upstream) ==
  LET own == {f \in DOMAIN claims \cap DOMAIN upstream : ~ Equivalent(f, upstream[f], claims[f])}
  IN  IF own \cap BudgetFields = {} THEN own ELSE own \cup BudgetFields

TrustedView(claims, upstream) ==
  [f \in DOMAIN claims \ Conflicts(claims, upstream) |-> claims[f]]

-----------------------------------------------------------------------------
(* What the rules promise                                                  *)

(* The lines of a text as they are read, labels with their values.         *)
TextOf(bundle) == UNION {Spans(page) : page \in bundle}

ASSUME TextsAssumption == \A bundle \in Texts : IsFiniteSet(TextOf(bundle))

(* docs/EXTRACTION.md: only what the document says in so many words is     *)
(* stored.  Whatever an extractor answers to a text, with whatever quotes: *)
(* an accepted claim is stated in the text, no line of it says otherwise   *)
(* or qualifies it, no page contradicts another, and beside any upstream   *)
(* record the others see a whole budget or none, and nothing upstream      *)
(* denies.                                                                 *)
AcceptedMeansGrounded ==
  \A bundle \in texts : \A answer \in AnswersTo(bundle) :
    LET claims   == [f \in DOMAIN answer |-> answer[f].value]
        evidence == [f \in DOMAIN answer |-> answer[f].evidence]
        lines    == TextOf(bundle)
    IN  Accepted(claims, evidence, bundle) =>
          /\ \A f \in DOMAIN claims :
               /\ \E s \in lines : Speaks(s, f)
               /\ \A s \in lines : ~ Qualifies(s, f) /\ (Speaks(s, f) => Says(s)[f] = claims[f])
          /\ \A f \in Fields \ Qualified(bundle), s, t \in lines :
               Speaks(s, f) /\ Speaks(t, f) => Says(s)[f] = Says(t)[f]
          /\ \A s, t \in lines : Speaks(s, "published") /\ Speaks(t, "closes") =>
               Says(s)["published"][1] <= Says(t)["closes"][1]
          /\ \A upstream \in UpstreamRecords :
               LET view == TrustedView(claims, upstream)
               IN  /\ "amount" \in DOMAIN view <=> "currency" \in DOMAIN view
                   /\ \A f \in DOMAIN upstream \cap DOMAIN view : Equivalent(f, upstream[f], view[f])

=============================================================================
