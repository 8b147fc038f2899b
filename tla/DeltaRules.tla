----------------------------- MODULE DeltaRules -----------------------------
(***************************************************************************)
(* What changed between two versions of an opportunity: compute_delta of   *)
(* delta/engine.py and the impact of its changes, delta/rules.py.          *)
(* DerivedResults models which pairs are compared and when.                *)
(*                                                                         *)
(* A snapshot has the normalised fields of its version, the fields of the  *)
(* raw payload among them that upstream stated itself, the view of a       *)
(* trusted extraction (empty when there is none), and the manifest of the  *)
(* attachments by URL, complete or not.  Field values are sets of          *)
(* restrictions, or numbers for a deadline and a contract period.          *)
(***************************************************************************)
EXTENDS Integers, FiniteSetsExt

CONSTANTS
  NoValue,        \* null, an unknown claim
  NoSha,          \* the checksum of an attachment whose download failed
  Snapshots,      \* what may be compared
  TrueManifests,  \* what attachments a version may really have
  Companies       \* who may bid: [region, certificates, ready]

VARIABLE snapshots  \* those at hand, to be compared with any

SetFields      == {"regions", "certifications", "capabilities", "constraints"}
ComparedFields == SetFields \cup {"closes", "period"}

Stated(f, field) == IF field \in DOMAIN f THEN f[field] ELSE NoValue

-----------------------------------------------------------------------------
(* Claims                                                                  *)

(* _claim: upstream when the payload has the field, an empty list too;     *)
(* else the extraction.  What the normaliser put there by default is no    *)
(* claim.                                                                  *)
Claim(snapshot, field) ==
  IF field \in snapshot.raw THEN snapshot.normalized[field] ELSE Stated(snapshot.view, field)

(* _budget: an amount from upstream goes with the currency from upstream   *)
(* or the default of the normaliser, one from an extraction with that of   *)
(* the extraction.                                                         *)
Budget(snapshot) ==
  LET pair == CASE "amount" \in snapshot.raw ->
                     <<snapshot.normalized["amount"],
                       IF "currency" \in snapshot.raw \/ "currency" \notin DOMAIN snapshot.view
                         THEN snapshot.normalized["currency"] ELSE snapshot.view["currency"]>>
                [] OTHER -> <<Stated(snapshot.view, "amount"), Stated(snapshot.view, "currency")>>
  IN  IF NoValue \in {pair[1], pair[2]} THEN NoValue ELSE pair

Value(snapshot, field) == IF field = "budget" THEN Budget(snapshot) ELSE Claim(snapshot, field)

Change(before, after) == [before |-> before, after |-> after]

FieldChanges(before, after) ==
  LET changed == {f \in ComparedFields \cup {"budget"} : Value(before, f) # Value(after, f)}
  IN  [f \in changed |-> Change(Value(before, f), Value(after, f))]

-----------------------------------------------------------------------------
(* Documents                                                               *)

KindWhateverManifest(before, after, url) ==
  CASE url \notin DOMAIN before.manifest -> "added"
    [] url \notin DOMAIN after.manifest  -> "removed"
    [] OTHER -> IF before.manifest[url] = after.manifest[url] THEN "none" ELSE "replaced"

(* An unknown manifest does not establish that a document was absent, and  *)
(* a missing checksum does not prove another content.                      *)
Kind(before, after, url) ==
  CASE url \notin DOMAIN before.manifest -> IF before.complete THEN "added" ELSE "none"
    [] url \notin DOMAIN after.manifest  -> IF after.complete THEN "removed" ELSE "none"
    [] OTHER -> LET old == before.manifest[url]
                    new == after.manifest[url]
                IN  IF NoSha \in {old.sha, new.sha} \/ old = new THEN "none" ELSE "replaced"

DocumentChanges(before, after) ==
  LET urls == {u \in DOMAIN before.manifest \cup DOMAIN after.manifest : Kind(before, after, u) # "none"}
  IN  [u \in urls |-> Kind(before, after, u)]

-----------------------------------------------------------------------------
(* Impact: reasons with their severity, 0 low, 1 medium, 2 high            *)

Reason(code, severity) == [code |-> code, severity |-> severity]

FieldReasons(field, change) ==
  LET old == change.before
      new == change.after
  IN  CASE NoValue \in {old, new} -> {Reason("became_unknown_or_known", 1)}
        [] field = "budget"       -> {Reason("budget_changed", 1)}
        [] field = "closes"       -> {IF new < old THEN Reason("deadline_earlier", 2)
                                                   ELSE Reason("deadline_later", 1)}
        [] field = "regions"      -> {CASE old = {} -> Reason("region_restriction_added", 2)
                                        [] new = {} -> Reason("region_restriction_removed", 1)
                                        [] OTHER    -> Reason("region_restriction_changed", 2)}
        [] field \in {"certifications", "capabilities"} ->
             {r \in {Reason("added", 2), Reason("removed", 1)} :
                IF r.code = "added" THEN new \ old # {} ELSE old \ new # {}}
        [] field = "constraints"  -> {Reason("material_clause_changed", 2)}
        [] field = "period"       -> {Reason("contract_period_changed", 1)}

Impact(fields, documents) ==
  LET reasons == {Reason("attachment", IF documents[u] = "added" THEN 0 ELSE 1) : u \in DOMAIN documents}
                 \cup UNION {FieldReasons(f, fields[f]) : f \in DOMAIN fields}
  IN  Max({r.severity : r \in reasons} \cup {0})

ComputeDelta(before, after) ==
  LET fields    == FieldChanges(before, after)
      documents == DocumentChanges(before, after)
  IN  [fields |-> fields, documents |-> documents, impact |-> Impact(fields, documents)]

-----------------------------------------------------------------------------
(* What the rules promise                                                  *)

(* What the attachments of a snapshot may really have been: what is known  *)
(* of them, and where a checksum or the whole manifest is missing,         *)
(* anything.                                                               *)
MayBe(snapshot, manifest) ==
  /\ DOMAIN snapshot.manifest \subseteq DOMAIN manifest
  /\ snapshot.complete => DOMAIN manifest = DOMAIN snapshot.manifest
  /\ \A u \in DOMAIN snapshot.manifest :
       snapshot.manifest[u].sha = NoSha \/ manifest[u] = snapshot.manifest[u]

(* Whom a field admits: companies of its regions, with all of its          *)
(* certificates, ready by its deadline.                                    *)
Admitted(field, value, company) ==
  CASE field = "regions"        -> value = {} \/ company.region \in value
    [] field = "certifications" -> value \subseteq company.certificates
    [] field = "closes"         -> company.ready <= value

ASSUME SnapshotsAssumption ==
  /\ \A s \in Snapshots : Claim(s, "closes") \in Int \cup {NoValue}
  /\ \A c \in Companies : c.ready \in Int

(* docs/DELTA_ENGINE.md: unknown is not a change.  A document is reported  *)
(* as added, removed or replaced only if it was so whatever the missing    *)
(* checksums and manifests would show; nothing is reported between equal   *)
(* snapshots; a difference shows upwards what it shows downwards; and a    *)
(* change that shuts out a company that could bid is of high impact.       *)
DeltaIsHonest ==
  \A before \in snapshots, after \in Snapshots :
    LET delta == ComputeDelta(before, after)
        back  == ComputeDelta(after, before)
        docs  == delta.documents
    IN  /\ \A old \in {m \in TrueManifests : MayBe(before, m)},
             new \in {m \in TrueManifests : MayBe(after, m)} :
             \A url \in DOMAIN docs :
               /\ docs[url] = "added"    => url \in DOMAIN new \ DOMAIN old
               /\ docs[url] = "removed"  => url \in DOMAIN old \ DOMAIN new
               /\ docs[url] = "replaced" => url \in DOMAIN old \cap DOMAIN new /\ old[url] # new[url]
        /\ before = after => DOMAIN delta.fields \cup DOMAIN docs = {}
        /\ DOMAIN delta.fields = DOMAIN back.fields /\ DOMAIN docs = DOMAIN back.documents
        /\ \A f \in DOMAIN delta.fields \cap {"regions", "certifications", "closes"} :
             LET change == delta.fields[f]
             IN  (/\ NoValue \notin {change.before, change.after}
                  /\ \E c \in Companies : Admitted(f, change.before, c) /\ ~ Admitted(f, change.after, c))
                 => delta.impact = 2

=============================================================================
