----------------------- MODULE OpportunityGraphProofs -----------------------
(***************************************************************************)
(* Safety of the versions and links of opportunities, for any number of    *)
(* opportunities, records, times and contents.                             *)
(*                                                                         *)
(* The properties hold one another up: the content shown is that of the    *)
(* last adopted row, so the row must exist; a link is about that content.  *)
(* They are proved together, with one more fact: an opportunity without a  *)
(* row has no time yet.  At the end: what is told of the difference        *)
(* between two versions.                                                   *)
(***************************************************************************)
EXTENDS OpportunityGraph, DeltaRules, FiniteSetTheorems, WellFoundedInduction, TLAPS

NoTimeWithoutRow ==
  \A o \in Opportunities : ~ Exists(o) => opportunities[o].effective = 0

IInv ==
  /\ ProvenanceHolds
  /\ CurrentIsLatest
  /\ NoTimeWithoutRow
  /\ LinksHold

(* What no step may undo, as in HistoryOnlyGrows.                          *)
Grows ==
  /\ \A r \in Raws : raws[r].version # 0 => raws'[r] = raws[r]
  /\ \A o \in Opportunities :
       /\ SubSeq(versions'[o], 1, Len(versions[o])) = versions[o]
       /\ opportunities'[o].effective >= opportunities[o].effective

-----------------------------------------------------------------------------

(* The current version is one of the rows, and there is one as soon as     *)
(* there is a row.                                                         *)
LEMMA CurrentIsARow ==
  ASSUME ProvenanceHolds, NEW o \in Opportunities
  PROVE  /\ opportunities[o].current \in 0..Len(versions[o])
         /\ Exists(o) <=> Len(versions[o]) # 0
<1> DEFINE c == opportunities[o].current
           n == Len(versions[o])
<1>1. n \in Nat /\ c \in Nat
  BY DEF ProvenanceHolds, TypeOK, Opportunity
<1>2. LastAdopted(o, n, c)
  BY DEF ProvenanceHolds, AdoptionIsReplayable
<1>3. CASE c = 0
  <2>1. Adopted(o, n) = {}
    BY <1>2, <1>3 DEF LastAdopted, Adopted
  <2>2. n # 0 => 1 \in Adopted(o, n)
    BY <1>1 DEF ProvenanceHolds, AdoptionIsReplayable, Adopted
  <2> QED BY <1>1, <1>3, <2>1, <2>2 DEF Exists
<1>4. CASE c # 0
  <2>1. c \in 1..n
    BY <1>2, <1>4 DEF LastAdopted, Adopted
  <2> QED BY <1>1, <1>4, <2>1 DEF Exists
<1> QED BY <1>3, <1>4

(* What every step of one record does to a history: nothing, or a row at   *)
(* the end.                                                                *)
LEMMA AppendedRow ==
  ASSUME TypeOK, NEW o \in Opportunities, NEW v \in Version
  PROVE  LET s == Append(versions[o], v) IN
         /\ s \in Seq(Version)
         /\ Len(s) = Len(versions[o]) + 1
         /\ s[Len(versions[o]) + 1] = v
         /\ \A i \in 1..Len(versions[o]) : s[i] = versions[o][i]
         /\ SubSeq(s, 1, Len(versions[o])) = versions[o]
<1>1. versions[o] \in Seq(Version)
  BY DEF TypeOK
<1> QED BY <1>1

(* A record makes a row of the right type.                                 *)
LEMMA NewVersionType ==
  ASSUME TypeOK, NEW r \in Raws, NEW kind \in {"initial", "current", "historical"}
  PROVE  NewVersion(r, kind) \in Version
BY GraphAssumption DEF TypeOK, Raw, Opportunity, Version, NewVersion

-----------------------------------------------------------------------------

(* A step that makes record r of opportunity o the version n.              *)
Normalizes(r, o, n) ==
  /\ o = raws[r].opp /\ raws[r].version = 0
  /\ n \in Nat \ {0} /\ raws' = [raws EXCEPT ![r].version = n]

(* What becomes of the records.                                            *)
OnlyThisRecord(r, o, n) ==
  /\ o \in Opportunities /\ raws[r].version = 0 /\ raws[r].opp = o
  /\ raws' \in [Raws -> Raw]
  /\ \A q \in Raws : /\ raws'[q].opp = raws[q].opp /\ raws'[q].content = raws[q].content
                     /\ raws'[q].effective = raws[q].effective /\ raws[q].effective \in Nat
                     /\ raws'[q].version = IF q = r THEN n ELSE raws[q].version
                     /\ q # r => raws'[q] = raws[q]
  /\ \A p \in Opportunities : NormalizedRaws(p)' = NormalizedRaws(p) \cup (IF p = o THEN {r} ELSE {})

LEMMA OneRecord ==
  ASSUME TypeOK, NEW r \in Raws, NEW o, NEW n, Normalizes(r, o, n)
  PROVE  OnlyThisRecord(r, o, n)
<1>1. raws \in [Raws -> Raw]
  BY DEF TypeOK
<1>2. \A q \in Raws : raws[q] \in [opp: Opportunities, effective: Times, content: Contents, version: Nat]
  BY <1>1 DEF Raw
<1>3. raws' = [q \in Raws |-> IF q = r THEN [raws[q] EXCEPT !.version = n] ELSE raws[q]]
  BY <1>1 DEF Normalizes
<1>4. \A q \in Raws : raws'[q] \in [opp: Opportunities, effective: Times, content: Contents, version: Nat]
  BY <1>2, <1>3 DEF Normalizes
<1>5. raws' \in [Raws -> Raw]
  BY <1>3, <1>4 DEF Raw
<1>6. \A q \in Raws : /\ raws'[q].opp = raws[q].opp /\ raws'[q].content = raws[q].content
                      /\ raws'[q].effective = raws[q].effective /\ raws[q].effective \in Nat
                      /\ raws'[q].version = IF q = r THEN n ELSE raws[q].version
                      /\ q # r => raws'[q] = raws[q]
  BY <1>2, <1>3, GraphAssumption
<1>7. \A p \in Opportunities : NormalizedRaws(p)' = NormalizedRaws(p) \cup (IF p = o THEN {r} ELSE {})
  BY <1>6 DEF NormalizedRaws, Normalizes
<1> QED
  BY <1>2, <1>5, <1>6, <1>7 DEF OnlyThisRecord, Normalizes

(* A step that normalises r keeps the latest news, if it shows either what *)
(* r says and the time of r, or what was shown before and its time,        *)
(* whichever is later.                                                     *)
LEMMA LatestKept ==
  ASSUME TypeOK, CurrentIsLatest, NEW r \in Raws, NEW o, NEW n, Normalizes(r, o, n),
         \A p \in Opportunities \ {o} : /\ opportunities'[p] = opportunities[p]
                                        /\ CurrentContent(p)' = CurrentContent(p),
         Exists(o)', NEW t \in Nat, opportunities'[o].effective = t, raws[r].effective <= t,
         Exists(o) => opportunities[o].effective <= t,
         \/ t = raws[r].effective /\ CurrentContent(o)' = raws[r].content
         \/ /\ Exists(o) /\ t = opportunities[o].effective
            /\ CurrentContent(o)' = CurrentContent(o)
  PROVE  CurrentIsLatest'
<1>1. /\ o \in Opportunities
      /\ \A q \in Raws : /\ raws'[q].content = raws[q].content
                         /\ raws'[q].effective = raws[q].effective /\ raws[q].effective \in Nat
      /\ \A p \in Opportunities : NormalizedRaws(p)' = NormalizedRaws(p) \cup (IF p = o THEN {r} ELSE {})
  BY OneRecord DEF OnlyThisRecord
<1>2. \A p \in Opportunities : NormalizedRaws(p) \subseteq Raws
  BY DEF NormalizedRaws
<1>3. \A p \in Opportunities : opportunities[p].effective \in Nat
  BY DEF TypeOK, Opportunity
<1>4. ASSUME NEW p \in Opportunities \ {o}
      PROVE  /\ \A q \in NormalizedRaws(p)' : Exists(p)' /\ raws'[q].effective <= opportunities'[p].effective
             /\ Exists(p)' => \E q \in NormalizedRaws(p)' :
                  raws'[q].effective = opportunities'[p].effective /\ raws'[q].content = CurrentContent(p)'
  <2>1. NormalizedRaws(p)' = NormalizedRaws(p) /\ (Exists(p)' <=> Exists(p))
    BY <1>1 DEF Exists
  <2>2. /\ \A q \in NormalizedRaws(p) : Exists(p) /\ raws[q].effective <= opportunities[p].effective
        /\ Exists(p) => \E q \in NormalizedRaws(p) :
             raws[q].effective = opportunities[p].effective /\ raws[q].content = CurrentContent(p)
    BY DEF CurrentIsLatest
  <2>3. opportunities'[p] = opportunities[p] /\ CurrentContent(p)' = CurrentContent(p)
    OBVIOUS
  <2> QED
    BY <1>1, <1>2, <2>1, <2>2, <2>3
<1>5. \A q \in NormalizedRaws(o)' : Exists(o)' /\ raws'[q].effective <= opportunities'[o].effective
  <2> SUFFICES ASSUME NEW q \in NormalizedRaws(o)' PROVE raws'[q].effective <= t
    OBVIOUS
  <2>1. CASE q = r
    BY <1>1, <2>1
  <2>2. CASE q \in NormalizedRaws(o)
    <3>1. Exists(o) /\ raws[q].effective <= opportunities[o].effective
      BY <1>1, <2>2 DEF CurrentIsLatest
    <3> QED
      BY <1>1, <1>2, <1>3, <2>2, <3>1
  <2> QED
    BY <1>1, <2>1, <2>2
<1>6. \E q \in NormalizedRaws(o)' :
        raws'[q].effective = opportunities'[o].effective /\ raws'[q].content = CurrentContent(o)'
  <2>1. CASE t = raws[r].effective /\ CurrentContent(o)' = raws[r].content
    BY <1>1, <2>1
  <2>2. CASE Exists(o) /\ t = opportunities[o].effective /\ CurrentContent(o)' = CurrentContent(o)
    <3>1. PICK q \in NormalizedRaws(o) :
            raws[q].effective = opportunities[o].effective /\ raws[q].content = CurrentContent(o)
      BY <1>1, <2>2 DEF CurrentIsLatest
    <3> QED
      BY <1>1, <1>2, <2>2, <3>1
  <2> QED
    BY <2>1, <2>2
<1>7. ASSUME NEW p \in Opportunities
      PROVE  /\ \A q \in NormalizedRaws(p)' : Exists(p)' /\ raws'[q].effective <= opportunities'[p].effective
             /\ Exists(p)' => \E q \in NormalizedRaws(p)' :
                  raws'[q].effective = opportunities'[p].effective /\ raws'[q].content = CurrentContent(p)'
  <2>1. CASE p = o
    BY <1>5, <1>6, <2>1
  <2>2. CASE p # o
    BY <1>4, <2>2
  <2> QED
    BY <2>1, <2>2
<1> QED
  BY <1>7 DEF CurrentIsLatest

-----------------------------------------------------------------------------

(* A record that confirms a row keeps the pointers.                        *)
LEMMA PointersKept ==
  ASSUME TypeOK, PointersHold, NEW r \in Raws, NEW o, NEW n, Normalizes(r, o, n),
         versions' = versions, n \in 1..Len(versions[o]), versions[o][n].content = raws[r].content
  PROVE  PointersHold'
<1>1. /\ o \in Opportunities
      /\ \A q \in Raws : /\ raws'[q].opp = raws[q].opp /\ raws'[q].content = raws[q].content
                         /\ raws'[q].version = IF q = r THEN n ELSE raws[q].version
                         /\ q # r => raws'[q] = raws[q]
  BY OneRecord DEF OnlyThisRecord
<1>2. \A p \in Opportunities : versions[p] \in Seq(Version)
  BY DEF TypeOK
<1>3. ASSUME NEW q \in Raws, raws'[q].version # 0
      PROVE  /\ raws'[q].version \in DOMAIN versions'[raws'[q].opp]
             /\ versions'[raws'[q].opp][raws'[q].version].content = raws'[q].content
  <2>1. CASE q = r
    BY <1>1, <1>2, <2>1 DEF Normalizes
  <2>2. CASE q # r
    BY <1>1, <1>3, <2>2 DEF PointersHold
  <2> QED
    BY <2>1, <2>2
<1>4. ASSUME NEW p \in Opportunities, NEW i \in DOMAIN versions'[p]
      PROVE  raws'[versions'[p][i].raw].opp = p /\ raws'[versions'[p][i].raw].version = i
  <2>1. /\ raws[versions[p][i].raw].opp = p /\ raws[versions[p][i].raw].version = i
        /\ i # 0 /\ versions[p][i].raw \in Raws
    <3>1. versions[p][i] \in Version /\ i \in 1..Len(versions[p])
      BY <1>2, <1>4
    <3>2. i # 0 /\ versions[p][i].raw \in Raws
      BY <3>1 DEF Version
    <3> QED
      BY <1>4, <3>2 DEF PointersHold
  <2>2. versions[p][i].raw # r
    BY <2>1 DEF Normalizes
  <2> QED
    BY <1>1, <2>1, <2>2
<1> QED
  BY <1>3, <1>4 DEF PointersHold

(* A step that makes record r of opportunity o the version n, a row of its *)
(* own.                                                                    *)
AddsRow(r, o, n, kind) ==
  /\ Normalizes(r, o, n)
  /\ n = Len(versions[o]) + 1
  /\ kind \in {"initial", "current", "historical"}
  /\ versions' = [versions EXCEPT ![o] = Append(@, NewVersion(r, kind))]

(* What becomes of the rows.                                               *)
OnlyThisRow(o, n, row) ==
  /\ o \in Opportunities
  /\ Len(versions[o]) \in Nat /\ n = Len(versions[o]) + 1
  /\ versions' \in [Opportunities -> Seq(Version)]
  /\ Len(versions'[o]) = n /\ versions'[o][n] = row
  /\ \A i \in 1..Len(versions[o]) : versions'[o][i] = versions[o][i]
  /\ \A p \in Opportunities \ {o} : versions'[p] = versions[p]
  /\ \A p \in Opportunities : SubSeq(versions'[p], 1, Len(versions[p])) = versions[p]

LEMMA RowAdded ==
  ASSUME TypeOK, NEW r \in Raws, NEW o, NEW n, NEW kind, AddsRow(r, o, n, kind)
  PROVE  OnlyThisRow(o, n, NewVersion(r, kind))
<1>1. /\ versions \in [Opportunities -> Seq(Version)] /\ Normalizes(r, o, n)
      /\ n = Len(versions[o]) + 1
  BY DEF TypeOK, AddsRow
<1>2. o \in Opportunities
  BY <1>1, OneRecord DEF OnlyThisRecord
<1>3. NewVersion(r, kind) \in Version
  BY NewVersionType DEF AddsRow
<1>4. LET s == Append(versions[o], NewVersion(r, kind)) IN
      /\ s \in Seq(Version)
      /\ Len(s) = Len(versions[o]) + 1
      /\ s[Len(versions[o]) + 1] = NewVersion(r, kind)
      /\ \A i \in 1..Len(versions[o]) : s[i] = versions[o][i]
      /\ SubSeq(s, 1, Len(versions[o])) = versions[o]
  BY <1>2, <1>3, AppendedRow
<1>5. versions'[o] = Append(versions[o], NewVersion(r, kind))
  BY <1>1, <1>2 DEF AddsRow
<1>6. \A p \in Opportunities \ {o} : versions'[p] = versions[p]
  BY <1>1 DEF AddsRow
<1>7. versions' \in [Opportunities -> Seq(Version)]
  BY <1>1, <1>2, <1>4 DEF AddsRow
<1>8. ASSUME NEW p \in Opportunities PROVE SubSeq(versions'[p], 1, Len(versions[p])) = versions[p]
  <2>1. CASE p = o
    BY <1>4, <1>5, <2>1
  <2>2. CASE p # o
    <3>1. versions'[p] = versions[p] /\ versions[p] \in Seq(Version)
      BY <1>1, <1>6, <2>2
    <3> QED
      BY <3>1
  <2> QED
    BY <2>1, <2>2
<1>9. Len(versions[o]) \in Nat
  BY <1>1, <1>2
<1> QED
  BY <1>1, <1>2, <1>4, <1>5, <1>6, <1>7, <1>8, <1>9 DEF OnlyThisRow

(* A row of its own keeps the pointers, too.                               *)
LEMMA PointersKeptByRow ==
  ASSUME TypeOK, PointersHold, NEW r \in Raws, NEW o, NEW n, NEW kind, AddsRow(r, o, n, kind)
  PROVE  PointersHold'
<1>0. TypeOK /\ Normalizes(r, o, n) /\ AddsRow(r, o, n, kind) /\ r \in Raws
  BY DEF AddsRow
<1>1. /\ o \in Opportunities /\ raws[r].version = 0 /\ raws[r].opp = o
      /\ \A q \in Raws : /\ raws'[q].opp = raws[q].opp /\ raws'[q].content = raws[q].content
                         /\ raws'[q].version = IF q = r THEN n ELSE raws[q].version
                         /\ q # r => raws'[q] = raws[q]
  BY <1>0, OneRecord DEF OnlyThisRecord
<1>2. /\ Len(versions[o]) \in Nat /\ n = Len(versions[o]) + 1
      /\ versions' \in [Opportunities -> Seq(Version)]
      /\ Len(versions'[o]) = n /\ versions'[o][n] = NewVersion(r, kind)
      /\ \A i \in 1..Len(versions[o]) : versions'[o][i] = versions[o][i]
      /\ \A p \in Opportunities \ {o} : versions'[p] = versions[p]
  BY <1>0, RowAdded DEF OnlyThisRow
<1>3. NewVersion(r, kind).raw = r /\ NewVersion(r, kind).content = raws[r].content
  BY DEF NewVersion
<1>4. versions \in [Opportunities -> Seq(Version)] /\ raws \in [Raws -> Raw]
  BY <1>0 DEF TypeOK
<1>5. ASSUME NEW p \in Opportunities, NEW i \in DOMAIN versions[p]
      PROVE  versions'[p][i] = versions[p][i] /\ i \in DOMAIN versions'[p] /\ i # 0
  <2>1. versions[p] \in Seq(Version) /\ versions'[p] \in Seq(Version) /\ i \in 1..Len(versions[p])
    BY <1>2, <1>4, <1>5
  <2>2. CASE p = o
    <3>1. i \in 1..Len(versions'[o]) /\ versions'[o][i] = versions[o][i]
      BY <1>2, <2>1, <2>2
    <3> QED
      BY <2>1, <2>2, <3>1
  <2>3. CASE p # o
    BY <1>2, <2>1, <2>3
  <2> QED
    BY <2>2, <2>3
<1>6. ASSUME NEW q \in Raws, raws'[q].version # 0
      PROVE  /\ raws'[q].version \in DOMAIN versions'[raws'[q].opp]
             /\ versions'[raws'[q].opp][raws'[q].version].content = raws'[q].content
  <2>1. CASE q = r
    <3>1. raws'[q].version = n /\ raws'[q].opp = o /\ raws'[q].content = raws[r].content
      BY <1>1, <2>1
    <3>2. n \in DOMAIN versions'[o]
      BY <1>1, <1>2
    <3> QED
      BY <1>2, <1>3, <3>1, <3>2
  <2>2. CASE q # r
    <3>1. /\ raws[q].version \in DOMAIN versions[raws[q].opp] /\ raws[q].opp \in Opportunities
          /\ versions[raws[q].opp][raws[q].version].content = raws[q].content
      BY <1>1, <1>4, <1>6, <2>2 DEF PointersHold, Raw
    <3> QED
      BY <1>1, <1>5, <2>2, <3>1
  <2> QED
    BY <2>1, <2>2
<1>7. ASSUME NEW p \in Opportunities, NEW i \in DOMAIN versions'[p]
      PROVE  raws'[versions'[p][i].raw].opp = p /\ raws'[versions'[p][i].raw].version = i
  <2>1. CASE p = o /\ i = n
    BY <1>1, <1>2, <1>3, <2>1
  <2>2. CASE ~ (p = o /\ i = n)
    <3>1. i \in DOMAIN versions[p]
      <4>1. CASE p = o
        BY <1>2, <1>4, <1>7, <2>2, <4>1
      <4>2. CASE p # o
        BY <1>2, <1>7, <4>2
      <4> QED
        BY <4>1, <4>2
    <3>2. versions[p][i] \in Version
      BY <1>4, <3>1
    <3>3. /\ raws[versions[p][i].raw].opp = p /\ raws[versions[p][i].raw].version = i
          /\ i # 0 /\ versions[p][i].raw \in Raws
      BY <1>5, <3>1, <3>2 DEF PointersHold, Version
    <3>4. versions[p][i].raw # r
      BY <1>1, <3>3
    <3> QED
      BY <1>1, <1>5, <3>1, <3>3, <3>4
  <2> QED
    BY <2>1, <2>2
<1> QED
  BY <1>6, <1>7 DEF PointersHold

(* A new row goes on with the adoption history: it is the one adopted      *)
(* last, or it was never adopted.                                          *)
LEMMA AdoptionKept ==
  ASSUME TypeOK, AdoptionIsReplayable,
         NEW r \in Raws, NEW o, NEW n, NEW kind, AddsRow(r, o, n, kind),
         \A p \in Opportunities \ {o} : opportunities'[p].current = opportunities[p].current,
         kind = "initial" <=> n = 1,
         opportunities'[o].current = IF kind = "historical" THEN opportunities[o].current ELSE n
  PROVE  AdoptionIsReplayable'
<1>0. TypeOK /\ AddsRow(r, o, n, kind) /\ r \in Raws
  OBVIOUS
<1>1. /\ o \in Opportunities /\ Len(versions[o]) \in Nat /\ n = Len(versions[o]) + 1
      /\ Len(versions'[o]) = n /\ versions'[o][n] = NewVersion(r, kind)
      /\ \A i \in 1..Len(versions[o]) : versions'[o][i] = versions[o][i]
      /\ \A p \in Opportunities \ {o} : versions'[p] = versions[p]
  BY <1>0, RowAdded DEF OnlyThisRow
<1>2. /\ NewVersion(r, kind).kind = kind
      /\ NewVersion(r, kind).previous = opportunities[o].current
  BY <1>0 DEF NewVersion, AddsRow, Normalizes
<1>n. n \in Nat \ {0} /\ Len(versions[o]) = n - 1
  BY <1>1
<1>3. ASSUME NEW p \in Opportunities \ {o}
      PROVE  /\ LastAdopted(p, Len(versions[p]), opportunities[p].current)'
             /\ \A i \in 1..Len(versions'[p]) :
                  /\ LastAdopted(p, i - 1, versions[p][i].previous)'
                  /\ versions'[p][i].kind = "initial" <=> i = 1
  <2>1. /\ versions'[p] = versions[p] /\ p \in Opportunities
        /\ opportunities'[p].current = opportunities[p].current
    BY <1>1
  <2>2. /\ LastAdopted(p, Len(versions[p]), opportunities[p].current)
        /\ \A i \in 1..Len(versions[p]) : LastAdopted(p, i - 1, versions[p][i].previous)
                                           /\ (versions[p][i].kind = "initial" <=> i = 1)
    BY <2>1 DEF AdoptionIsReplayable
  <2>3. LastAdopted(p, Len(versions[p]), opportunities[p].current)'
    BY <2>1, <2>2 DEF LastAdopted, Adopted
  <2>4. ASSUME NEW i \in 1..Len(versions'[p])
        PROVE  LastAdopted(p, i - 1, versions[p][i].previous)'
               /\ (versions'[p][i].kind = "initial" <=> i = 1)
    <3>1. i \in 1..Len(versions[p])
      BY <2>1, <2>4
    <3>2. LastAdopted(p, i - 1, versions[p][i].previous) /\ (versions[p][i].kind = "initial" <=> i = 1)
      BY <2>2, <3>1
    <3> QED
      BY <2>1, <3>2 DEF LastAdopted, Adopted
  <2> QED
    BY <2>3, <2>4
<1>4. /\ LastAdopted(o, n - 1, opportunities[o].current)
      /\ \A i \in 1..(n - 1) : LastAdopted(o, i - 1, versions[o][i].previous)
                               /\ (versions[o][i].kind = "initial" <=> i = 1)
  BY <1>1, <1>n DEF AdoptionIsReplayable
<1>5. ASSUME NEW i \in 0..(n - 1) PROVE Adopted(o, i)' = Adopted(o, i)
  <2>1. \A m \in 1..i : versions'[o][m] = versions[o][m]
    BY <1>1, <1>n
  <2> QED
    BY <2>1 DEF Adopted
<1>6. Adopted(o, n)' = Adopted(o, n - 1) \cup (IF kind = "historical" THEN {} ELSE {n})
  <2>1. 1..n = (1..(n - 1)) \cup {n}
    BY <1>n
  <2>2. \A m \in 1..(n - 1) : versions'[o][m] = versions[o][m]
    BY <1>1, <1>n
  <2>3. versions'[o][n].kind = kind
    BY <1>1, <1>2
  <2> QED
    BY <2>1, <2>2, <2>3 DEF Adopted
<1>7. LastAdopted(o, Len(versions[o]), opportunities[o].current)'
  <2>1. LastAdopted(o, n, opportunities[o].current)'
    <3>1. CASE kind = "historical"
      BY <1>4, <1>6, <3>1 DEF LastAdopted
    <3>2. CASE kind # "historical"
      <4>1. \A i \in Adopted(o, n - 1) : i <= n
        BY <1>n DEF Adopted
      <4> QED
        BY <1>n, <1>6, <3>2, <4>1 DEF LastAdopted
    <3> QED
      BY <3>1, <3>2
  <2> QED
    BY <1>1, <2>1 DEF LastAdopted, Adopted
<1>8. ASSUME NEW i \in 1..n
      PROVE  LastAdopted(o, i - 1, versions[o][i].previous)'
             /\ (versions'[o][i].kind = "initial" <=> i = 1)
  <2>1. CASE i \in 1..(n - 1)
    <3>1. i - 1 \in 0..(n - 1) /\ versions'[o][i] = versions[o][i]
      BY <1>1, <1>n, <2>1
    <3>2. Adopted(o, i - 1)' = Adopted(o, i - 1)
      BY <1>5, <3>1
    <3> QED
      BY <1>4, <2>1, <3>1, <3>2 DEF LastAdopted
  <2>2. CASE i = n
    <3>1. versions'[o][i].previous = opportunities[o].current /\ versions'[o][i].kind = kind
      BY <1>1, <1>2, <2>2
    <3>2. Adopted(o, n - 1)' = Adopted(o, n - 1)
      BY <1>5, <1>n
    <3> QED
      BY <1>4, <2>2, <3>1, <3>2 DEF LastAdopted
  <2> QED
    BY <1>n, <1>8, <2>1, <2>2
<1> QED
  BY <1>1, <1>3, <1>7, <1>8 DEF AdoptionIsReplayable

(* The links stay sound if none is made and those that stay join what they *)
(* joined before.                                                          *)
LEMMA LinksKept ==
  ASSUME LinksHold, links' \subseteq links,
         \A l \in links' : \A o \in {l.parent, l.child} :
           /\ opportunities'[o].current = opportunities[o].current
           /\ CurrentContent(o)' = CurrentContent(o)
  PROVE  LinksHold'
BY DEF LinksHold, Exists

-----------------------------------------------------------------------------

(* What the types say of one opportunity, record or link.                  *)
LEMMA Types ==
  ASSUME TypeOK
  PROVE  /\ \A o \in Opportunities : /\ versions[o] \in Seq(Version)
                                     /\ opportunities[o].current \in Nat
                                     /\ opportunities[o].effective \in Nat
         /\ \A r \in Raws : /\ raws[r].opp \in Opportunities /\ raws[r].content \in Contents
                            /\ raws[r].effective \in Nat /\ raws[r].version \in Nat
         /\ \A l \in links : l.parent \in Opportunities /\ l.child \in Opportunities
BY GraphAssumption DEF TypeOK, Raw, Opportunity, Link

(* Before the first record is normalised, all of it holds.                 *)
LEMMA Initially == Init => IInv
<1> SUFFICES ASSUME Init PROVE IInv
  OBVIOUS
<1>1. TypeOK
  <2>1. raws \in [Raws -> Raw]
    BY DEF Init, Raw
  <2> QED
    BY <2>1 DEF Init, TypeOK, Opportunity
<1>2. /\ \A r \in Raws : raws[r].version = 0
      /\ \A o \in Opportunities : /\ versions[o] = <<>> /\ Len(versions[o]) = 0 /\ DOMAIN versions[o] = {}
                                  /\ opportunities[o].current = 0 /\ opportunities[o].effective = 0
      /\ links = {}
  BY DEF Init
<1>3. PointersHold
  BY <1>2 DEF PointersHold
<1>4. AdoptionIsReplayable
  BY <1>2 DEF AdoptionIsReplayable, LastAdopted, Adopted
<1>5. CurrentIsLatest /\ NoTimeWithoutRow /\ LinksHold
  BY <1>2 DEF CurrentIsLatest, NormalizedRaws, NoTimeWithoutRow, LinksHold, Exists
<1> QED
  BY <1>1, <1>3, <1>4, <1>5 DEF IInv, ProvenanceHolds

(* A record that repeats the current content moves at most the time, and   *)
(* only forward.                                                           *)
LEMMA ReaffirmKeeps ==
  ASSUME IInv, NEW r \in Raws, Reaffirm(r)
  PROVE  IInv' /\ Grows
<1>0. /\ TypeOK /\ PointersHold /\ AdoptionIsReplayable /\ ProvenanceHolds
      /\ CurrentIsLatest /\ NoTimeWithoutRow /\ LinksHold
  BY DEF IInv, ProvenanceHolds
<1>1. PICK o, n : o = raws[r].opp /\ n = opportunities[o].current
  OBVIOUS
<1>2. /\ o \in Opportunities /\ n \in 1..Len(versions[o]) /\ n \in Nat \ {0}
      /\ opportunities[o].effective \in Nat /\ raws[r].effective \in Nat
  <2>1. o \in Opportunities /\ n \in Nat /\ raws[r].effective \in Nat
        /\ opportunities[o].effective \in Nat /\ Len(versions[o]) \in Nat
    BY <1>0, <1>1, Types
  <2>2. n # 0
    BY <1>1 DEF Reaffirm, Exists
  <2>3. n \in 0..Len(versions[o])
    BY <1>0, <1>1, <2>1, CurrentIsARow
  <2> QED
    BY <2>1, <2>2, <2>3
<1>3. Normalizes(r, o, n)
  BY <1>1, <1>2 DEF Reaffirm, Normalizes
<1>4. OnlyThisRecord(r, o, n)
  BY <1>0, <1>3, OneRecord
<1>5. PICK t \in Nat : /\ t = LatestReaffirmed(o, raws[r].effective)
                       /\ raws[r].effective <= t /\ opportunities[o].effective <= t
                       /\ t = raws[r].effective \/ t = opportunities[o].effective
  BY <1>2 DEF LatestReaffirmed
<1>6. /\ versions' = versions /\ links' = links /\ Exists(o)
      /\ opportunities' = [opportunities EXCEPT ![o].effective = t]
      /\ CurrentContent(o) = raws[r].content
  BY <1>1, <1>5 DEF Reaffirm
<1>7. /\ opportunities' \in [Opportunities -> Opportunity]
      /\ opportunities'[o].effective = t
      /\ \A p \in Opportunities : opportunities'[p].current = opportunities[p].current
      /\ \A p \in Opportunities \ {o} : opportunities'[p] = opportunities[p]
  BY <1>0, <1>2, <1>6 DEF TypeOK, Opportunity
<1>8. \A p \in Opportunities : CurrentContent(p)' = CurrentContent(p)
  BY <1>6, <1>7 DEF CurrentContent
<1>9. TypeOK'
  BY <1>0, <1>4, <1>6, <1>7 DEF TypeOK, OnlyThisRecord
<1>10. PointersHold'
  <2>1. versions[o][n].content = raws[r].content
    BY <1>1, <1>6 DEF CurrentContent
  <2> QED
    BY <1>0, <1>2, <1>3, <1>6, <2>1, PointersKept
<1>11. AdoptionIsReplayable'
  BY <1>0, <1>6, <1>7, SMTT(30) DEF AdoptionIsReplayable, LastAdopted, Adopted
<1>12. CurrentIsLatest'
  <2>1. Exists(o)'
    BY <1>2, <1>6, <1>7 DEF Exists
  <2>2. \/ t = raws[r].effective /\ CurrentContent(o)' = raws[r].content
        \/ Exists(o) /\ t = opportunities[o].effective /\ CurrentContent(o)' = CurrentContent(o)
    BY <1>2, <1>5, <1>6, <1>8
  <2> QED
    BY <1>0, <1>3, <1>5, <1>7, <1>8, <2>1, <2>2, LatestKept
<1>13. NoTimeWithoutRow'
  <2>1. \A p \in Opportunities : Exists(p)' <=> Exists(p)
    BY <1>7 DEF Exists
  <2> QED
    BY <1>0, <1>6, <1>7, <2>1 DEF NoTimeWithoutRow
<1>14. LinksHold'
  BY <1>0, <1>6, <1>7, <1>8, Types, LinksKept
<1>15. Grows
  <2>1. \A q \in Raws : raws[q].version # 0 => raws'[q] = raws[q]
    BY <1>4 DEF OnlyThisRecord
  <2>2. ASSUME NEW p \in Opportunities PROVE SubSeq(versions'[p], 1, Len(versions[p])) = versions[p]
    <3>1. versions'[p] = versions[p] /\ versions[p] \in Seq(Version)
      BY <1>0, <1>6, Types
    <3> QED
      BY <3>1
  <2>3. ASSUME NEW p \in Opportunities PROVE opportunities'[p].effective >= opportunities[p].effective
    <3>1. opportunities[p].effective \in Nat
      BY <1>0, Types
    <3> QED
      BY <1>2, <1>5, <1>7, <3>1
  <2> QED
    BY <2>1, <2>2, <2>3 DEF Grows
<1> QED
  BY <1>9, <1>10, <1>11, <1>12, <1>13, <1>14, <1>15 DEF IInv, ProvenanceHolds

(* A version that takes over is the latest news, continues the adoption    *)
(* history and retracts the links of the version it replaces.              *)
LEMMA AdoptKeeps ==
  ASSUME IInv, NEW r \in Raws, Adopt(r)
  PROVE  IInv' /\ Grows
<1>0. /\ TypeOK /\ PointersHold /\ AdoptionIsReplayable /\ ProvenanceHolds
      /\ CurrentIsLatest /\ NoTimeWithoutRow /\ LinksHold
  BY DEF IInv, ProvenanceHolds
<1>1. PICK o, n, kind, t : /\ o = raws[r].opp /\ n = Len(versions[o]) + 1
                           /\ kind = IF Exists(o) THEN "current" ELSE "initial"
                           /\ t = raws[r].effective
  OBVIOUS
<1>2. /\ o \in Opportunities /\ n \in Nat \ {0} /\ t \in Nat
      /\ opportunities[o].effective \in Nat /\ Len(versions[o]) \in Nat
  BY <1>0, <1>1, Types
<1>3. kind = "initial" <=> n = 1
  <2>1. Exists(o) <=> Len(versions[o]) # 0
    BY <1>0, <1>2, CurrentIsARow
  <2> QED
    BY <1>1, <1>2, <2>1
<1>4. AddsRow(r, o, n, kind) /\ Normalizes(r, o, n)
  BY <1>1, <1>2 DEF Adopt, AddsRow, Normalizes
<1>5. OnlyThisRecord(r, o, n) /\ OnlyThisRow(o, n, NewVersion(r, kind))
  BY <1>0, <1>4, OneRecord, RowAdded
<1>6. /\ opportunities' = [opportunities EXCEPT ![o] = [current |-> n, effective |-> t]]
      /\ links' = links \ LinksTouching(o)
      /\ BecomesCurrent(o, t)
  BY <1>1 DEF Adopt
<1>7. /\ opportunities' \in [Opportunities -> Opportunity]
      /\ opportunities'[o].current = n /\ opportunities'[o].effective = t
      /\ \A p \in Opportunities \ {o} : opportunities'[p] = opportunities[p]
  BY <1>0, <1>2, <1>6 DEF TypeOK, Opportunity
<1>8. /\ CurrentContent(o)' = raws[r].content
      /\ \A p \in Opportunities \ {o} : CurrentContent(p)' = CurrentContent(p)
  BY <1>5, <1>7 DEF CurrentContent, OnlyThisRow, NewVersion
<1>9. Exists(o)' /\ \A p \in Opportunities \ {o} : Exists(p)' <=> Exists(p)
  BY <1>2, <1>7 DEF Exists
<1>10. opportunities[o].effective <= t
  <2>1. CASE Exists(o)
    BY <1>2, <1>6, <2>1 DEF BecomesCurrent
  <2>2. CASE ~ Exists(o)
    BY <1>0, <1>2, <2>2 DEF NoTimeWithoutRow
  <2> QED
    BY <2>1, <2>2
<1>11. TypeOK'
  <2>1. links' \subseteq Link
    BY <1>0, <1>6 DEF TypeOK
  <2> QED
    BY <1>5, <1>7, <2>1 DEF TypeOK, OnlyThisRecord, OnlyThisRow
<1>12. PointersHold'
  BY <1>0, <1>4, PointersKeptByRow
<1>13. AdoptionIsReplayable'
  <2>1. opportunities'[o].current = IF kind = "historical" THEN opportunities[o].current ELSE n
    BY <1>1, <1>7
  <2>2. \A p \in Opportunities \ {o} : opportunities'[p].current = opportunities[p].current
    BY <1>7
  <2> QED
    BY <1>0, <1>3, <1>4, <2>1, <2>2, AdoptionKept
<1>14. CurrentIsLatest'
  <2>1. raws[r].effective <= t /\ raws[r].effective = t
    BY <1>1, <1>2
  <2> QED
    BY <1>0, <1>2, <1>4, <1>7, <1>8, <1>9, <1>10, <2>1, LatestKept
<1>15. NoTimeWithoutRow'
  BY <1>0, <1>7, <1>9 DEF NoTimeWithoutRow
<1>16. LinksHold'
  <2>1. links' \subseteq links /\ \A l \in links' : l.parent # o /\ l.child # o
    BY <1>6 DEF LinksTouching
  <2>2. \A l \in links' : l.parent \in Opportunities \ {o} /\ l.child \in Opportunities \ {o}
    BY <1>0, <2>1, Types
  <2>3. \A l \in links' : \A p \in {l.parent, l.child} :
          /\ opportunities'[p].current = opportunities[p].current
          /\ CurrentContent(p)' = CurrentContent(p)
    BY <1>7, <1>8, <2>2
  <2> QED
    BY <1>0, <2>1, <2>3, LinksKept
<1>17. Grows
  <2>1. \A q \in Raws : raws[q].version # 0 => raws'[q] = raws[q]
    BY <1>5 DEF OnlyThisRecord
  <2>2. ASSUME NEW p \in Opportunities PROVE opportunities'[p].effective >= opportunities[p].effective
    <3>1. opportunities[p].effective \in Nat
      BY <1>0, Types
    <3> QED
      BY <1>2, <1>7, <1>10, <3>1
  <2> QED
    BY <1>5, <2>1, <2>2 DEF Grows, OnlyThisRow
<1> QED
  BY <1>11, <1>12, <1>13, <1>14, <1>15, <1>16, <1>17 DEF IInv, ProvenanceHolds

(* A late record about the past adds a row and changes nothing that is     *)
(* shown.                                                                  *)
LEMMA FileAsHistoryKeeps ==
  ASSUME IInv, NEW r \in Raws, FileAsHistory(r)
  PROVE  IInv' /\ Grows
<1>0. /\ TypeOK /\ PointersHold /\ AdoptionIsReplayable /\ ProvenanceHolds
      /\ CurrentIsLatest /\ NoTimeWithoutRow /\ LinksHold
  BY DEF IInv, ProvenanceHolds
<1>1. PICK o, n, t : /\ o = raws[r].opp /\ n = Len(versions[o]) + 1
                     /\ t = opportunities[o].effective
  OBVIOUS
<1>2. /\ o \in Opportunities /\ n \in Nat \ {0} /\ t \in Nat
      /\ raws[r].effective \in Nat /\ Len(versions[o]) \in Nat
  BY <1>0, <1>1, Types
<1>3. /\ Exists(o) /\ opportunities' = opportunities /\ links' = links
      /\ raws[r].effective <= t
  BY <1>1, <1>2 DEF FileAsHistory, BecomesCurrent
<1>4. /\ AddsRow(r, o, n, "historical") /\ Normalizes(r, o, n)
      /\ opportunities[o].current \in 1..Len(versions[o]) /\ n # 1
  <2>1. opportunities[o].current \in 0..Len(versions[o]) /\ opportunities[o].current # 0
    BY <1>0, <1>2, <1>3, CurrentIsARow DEF Exists
  <2> QED
    BY <1>1, <1>2, <2>1 DEF FileAsHistory, AddsRow, Normalizes
<1>5. OnlyThisRecord(r, o, n) /\ OnlyThisRow(o, n, NewVersion(r, "historical"))
  BY <1>0, <1>4, OneRecord, RowAdded
<1>6. \A p \in Opportunities : CurrentContent(p)' = CurrentContent(p)
  BY <1>3, <1>4, <1>5 DEF CurrentContent, OnlyThisRow
<1>7. TypeOK'
  BY <1>0, <1>3, <1>5 DEF TypeOK, OnlyThisRecord, OnlyThisRow
<1>8. PointersHold'
  BY <1>0, <1>4, PointersKeptByRow
<1>9. AdoptionIsReplayable'
  <2>1. opportunities'[o].current =
          IF "historical" = "historical" THEN opportunities[o].current ELSE n
    BY <1>3
  <2>2. "historical" = "initial" <=> n = 1
    BY <1>4
  <2>3. \A p \in Opportunities \ {o} : opportunities'[p].current = opportunities[p].current
    BY <1>3
  <2> QED
    BY <1>0, <1>4, <2>1, <2>2, <2>3, AdoptionKept
<1>10. CurrentIsLatest'
  <2>1. Exists(o)' /\ opportunities'[o].effective = t /\ opportunities[o].effective <= t
    BY <1>1, <1>2, <1>3 DEF Exists
  <2> QED
    BY <1>0, <1>1, <1>2, <1>3, <1>4, <1>6, <2>1, LatestKept
<1>11. NoTimeWithoutRow'
  BY <1>0, <1>3 DEF NoTimeWithoutRow, Exists
<1>12. LinksHold'
  BY <1>0, <1>3, <1>6, Types, LinksKept
<1>13. Grows
  <2>1. \A p \in Opportunities : opportunities'[p].effective >= opportunities[p].effective
    BY <1>0, <1>3, Types
  <2> QED
    BY <1>5, <2>1 DEF Grows, OnlyThisRecord, OnlyThisRow
<1> QED
  BY <1>7, <1>8, <1>9, <1>10, <1>11, <1>12, <1>13 DEF IInv, ProvenanceHolds

(* A link that is made joins two current versions, forward.                *)
LEMMA MadeLinkIsSound ==
  ASSUME TypeOK, NEW c \in Opportunities, Exists(c), NEW p \in Compatible(c)
  PROVE  /\ p \in Opportunities /\ Exists(p) /\ Forward(p, c)
         /\ LinkTo(p, c) \in Link
<1>1. Referenced(c) \subseteq Candidates(c) /\ SharingIdentifier(c) \subseteq Candidates(c)
      /\ SameFingerprint(c) \subseteq Candidates(c)
  BY DEF Referenced, SharingIdentifier, SameFingerprint
<1>2. p \in Matches(c) /\ Forward(p, c)
  BY DEF Compatible
<1>3. p \in Candidates(c)
  BY <1>1, <1>2 DEF Matches
<1>4. p \in Opportunities /\ Exists(p)
  BY <1>3 DEF Candidates
<1> QED
  BY <1>2, <1>4, Types DEF LinkTo, Link

(* The linker touches nothing but the links, and replaces all links of the *)
(* child when it makes one.                                                *)
LEMMA LinkingKeeps ==
  ASSUME IInv, NEW c \in Opportunities, LinkOpportunity(c)
  PROVE  IInv' /\ Grows
<1>0. /\ TypeOK /\ PointersHold /\ AdoptionIsReplayable
      /\ CurrentIsLatest /\ NoTimeWithoutRow /\ LinksHold
  BY DEF IInv, ProvenanceHolds
<1>1. raws' = raws /\ versions' = versions /\ opportunities' = opportunities
  BY DEF LinkOpportunity, LinkResolved, LinkUnresolved
<1>2. PointersHold' /\ AdoptionIsReplayable' /\ CurrentIsLatest' /\ NoTimeWithoutRow'
  BY <1>0, <1>1 DEF PointersHold, AdoptionIsReplayable, LastAdopted, Adopted, CurrentIsLatest,
                    NormalizedRaws, CurrentContent, NoTimeWithoutRow, Exists
<1>3. \A o : (Exists(o)' <=> Exists(o)) /\ CurrentContent(o)' = CurrentContent(o)
  BY <1>1 DEF Exists, CurrentContent
<1>4. links' \subseteq Link /\ LinksHold'
  <2>1. CASE links' \subseteq links
    <3>1. \A l \in links' : \A o \in {l.parent, l.child} :
            /\ opportunities'[o].current = opportunities[o].current
            /\ CurrentContent(o)' = CurrentContent(o)
      BY <1>1, <1>3
    <3>2. LinksHold'
      BY <1>0, <2>1, <3>1, LinksKept
    <3> QED
      BY <1>0, <2>1, <3>2 DEF TypeOK
  <2>2. CASE ~ (links' \subseteq links)
    <3>1. PICK p \in Compatible(c) : links' = (links \ LinksOfChild(c)) \cup {LinkTo(p, c)}
      BY <2>2 DEF LinkOpportunity, LinkResolved, LinkUnresolved
    <3>2. /\ p \in Opportunities /\ Exists(p) /\ Exists(c) /\ Forward(p, c)
          /\ LinkTo(p, c) \in Link
      <4>1. Exists(c)
        BY DEF LinkOpportunity, LinkResolved, LinkUnresolved
      <4> QED
        BY <1>0, <4>1, MadeLinkIsSound
    <3>3. links' \subseteq Link
      BY <1>0, <3>1, <3>2 DEF TypeOK
    <3>4. /\ LinkTo(p, c).parent = p /\ LinkTo(p, c).child = c
          /\ LinkTo(p, c).parentVersion = opportunities[p].current
          /\ LinkTo(p, c).childVersion = opportunities[c].current
      BY DEF LinkTo
    <3>5. \A l \in links' : l = LinkTo(p, c) \/ (l \in links /\ l.child # c)
      BY <3>1 DEF LinksOfChild
    <3>6. ASSUME NEW l \in links'
          PROVE  /\ Exists(l.parent)' /\ Exists(l.child)'
                 /\ l.parentVersion = opportunities'[l.parent].current
                 /\ l.childVersion = opportunities'[l.child].current
                 /\ {Stage[CurrentContent(l.parent)'], Stage[CurrentContent(l.child)']}
                      \subseteq DOMAIN StageOrder
                 /\ StageOrder[Stage[CurrentContent(l.parent)']]
                      < StageOrder[Stage[CurrentContent(l.child)']]
                 /\ \A m \in links' : l.child = m.child => l = m
      <4>1. CASE l = LinkTo(p, c)
        BY <1>1, <1>3, <3>2, <3>4, <3>5, <4>1 DEF Forward
      <4>2. CASE l \in links /\ l.child # c
        BY <1>0, <1>1, <1>3, <3>4, <3>5, <4>2 DEF LinksHold
      <4> QED
        BY <3>5, <4>1, <4>2
    <3> QED
      BY <3>3, <3>6 DEF LinksHold
  <2> QED
    BY <2>1, <2>2
<1>5. TypeOK'
  BY <1>0, <1>1, <1>4 DEF TypeOK
<1>6. Grows
  <2>1. \A o \in Opportunities : versions[o] \in Seq(Version) /\ opportunities[o].effective \in Nat
    BY <1>0, Types
  <2>2. \A o \in Opportunities : SubSeq(versions'[o], 1, Len(versions[o])) = versions[o]
    BY <1>1, <2>1
  <2> QED
    BY <1>1, <2>1, <2>2 DEF Grows
<1> QED
  BY <1>2, <1>4, <1>5, <1>6 DEF IInv, ProvenanceHolds

(* A step of something else changes nothing here.                          *)
LEMMA StutterKeeps ==
  ASSUME IInv, UNCHANGED vars
  PROVE  IInv'
<1>1. raws' = raws /\ versions' = versions /\ opportunities' = opportunities /\ links' = links
  BY DEF vars
<1>2. TypeOK' /\ PointersHold' /\ AdoptionIsReplayable'
  BY <1>1 DEF IInv, ProvenanceHolds, TypeOK, PointersHold, AdoptionIsReplayable, LastAdopted, Adopted
<1>3. CurrentIsLatest' /\ NoTimeWithoutRow'
  BY <1>1 DEF IInv, CurrentIsLatest, NormalizedRaws, CurrentContent, NoTimeWithoutRow, Exists
<1>4. LinksHold'
  BY <1>1 DEF IInv, LinksHold, CurrentContent, Exists
<1> QED
  BY <1>2, <1>3, <1>4 DEF IInv, ProvenanceHolds

(* Every step keeps the inductive invariant, and only adds to the history. *)
LEMMA StepKeeps == IInv /\ [Next]_vars => IInv' /\ [Grows]_vars
<1> SUFFICES ASSUME IInv, [Next]_vars PROVE IInv' /\ (Grows \/ UNCHANGED vars)
  OBVIOUS
<1>1. ASSUME NEW r \in Raws, Normalize(r) PROVE IInv' /\ Grows
  BY <1>1, ReaffirmKeeps, AdoptKeeps, FileAsHistoryKeeps DEF Normalize
<1>2. ASSUME NEW c \in Opportunities, LinkOpportunity(c) PROVE IInv' /\ Grows
  BY <1>2, LinkingKeeps
<1>3. CASE UNCHANGED vars
  BY <1>3, StutterKeeps
<1> QED
  BY <1>1, <1>2, <1>3 DEF Next

(* The inductive invariant.                                                *)
THEOREM GraphInvariant == Spec => []IInv
<1>1. IInv /\ [Next]_vars => IInv'
  BY StepKeeps
<1> QED
  BY <1>1, Initially, PTL DEF Spec

-----------------------------------------------------------------------------

(* The rows keep their types, whatever is stored.                          *)
THEOREM GraphTypeCorrect == Spec => []TypeOK
<1>1. IInv => TypeOK
  BY DEF IInv, ProvenanceHolds
<1> QED
  BY <1>1, GraphInvariant, PTL

(* upsert_opportunity_version never leaves a dangling or a foreign         *)
(* pointer, and the rows replay which versions were shown in which order.  *)
THEOREM ProvenanceAlwaysHolds == Spec => []ProvenanceHolds
<1>1. IInv => ProvenanceHolds
  BY DEF IInv
<1> QED
  BY <1>1, GraphInvariant, PTL

(* In whatever order the records are normalised, an opportunity shows the  *)
(* latest of them.                                                         *)
THEOREM CurrentAlwaysLatest == Spec => []CurrentIsLatest
<1>1. IInv => CurrentIsLatest
  BY DEF IInv
<1> QED
  BY <1>1, GraphInvariant, PTL

(* The active links join current versions, lead to a later stage and are   *)
(* one for each child, in whatever order versions are adopted and links    *)
(* are decided.                                                            *)
THEOREM LinksAlwaysHold == Spec => []LinksHold
<1>1. IInv => LinksHold
  BY DEF IInv
<1> QED
  BY <1>1, GraphInvariant, PTL

(* Nothing that was recorded is rewritten, and no opportunity goes back in *)
(* time.                                                                   *)
THEOREM HistoryAlwaysGrows == Spec => HistoryOnlyGrows
<1>1. IInv /\ [Next]_vars => [Grows]_vars
  BY StepKeeps
<1> QED
  BY <1>1, GraphInvariant, PTL DEF Spec, HistoryOnlyGrows, Grows

-----------------------------------------------------------------------------
(***************************************************************************)
(* Who is told of an outcome.  Closure is defined by recursion on the      *)
(* number of steps; what it computes follows by induction on that number,  *)
(* and the induction from the fact that a set of numbers that refutes a    *)
(* claim has a least member.                                               *)
(***************************************************************************)

(* Induction over the natural numbers, by a least counterexample.          *)
LEMMA LeastCounterexample ==
  ASSUME NEW B \in SUBSET Nat, B # {}
  PROVE  \E n \in B : \A m \in Nat : m < n => m \notin B
<1>1. PICK n \in B : \A m \in B : <<m, n>> \notin OpToRel(<, Nat)
  BY NatLessThanWellFounded, WFMin
<1>2. ASSUME NEW m \in B PROVE ~ (m < n)
  <2>1. <<m, n>> \in Nat \X Nat /\ <<m, n>>[1] = m /\ <<m, n>>[2] = n
    OBVIOUS
  <2> QED
    BY <1>1, <2>1, Zenon DEF OpToRel
<1> QED
  BY <1>2

(* One step along the edges, and what is reached from o in n steps.        *)
Along(edges, s) == s \cup {e[2] : e \in {d \in edges : d[1] \in s}}

After(f, o, edges, n) == IF n = 0 THEN {o} ELSE Along(edges, f[n - 1])

Reaching(f, o, edges, D) == f = [n \in D |-> After(f, o, edges, n)]

(* The recursion of Closure has a solution: its beginnings have, and they  *)
(* agree.                                                                  *)
LEMMA ReachingExists ==
  ASSUME NEW o, NEW edges
  PROVE  \E f : Reaching(f, o, edges, Nat)
<1>1. ASSUME NEW n \in Nat PROVE \E f : Reaching(f, o, edges, 0..n)
  <2> DEFINE B == {k \in Nat : ~ \E f : Reaching(f, o, edges, 0..k)}
  <2>1. ASSUME NEW k \in B, \A m \in Nat : m < k => m \notin B PROVE FALSE
    <3>1. CASE k = 0
      <4> DEFINE f == [i \in 0..0 |-> {o}]
      <4>1. Reaching(f, o, edges, 0..0)
        BY DEF Reaching, After
      <4> QED
        BY <3>1, <4>1
    <3>2. CASE k # 0
      <4>1. k - 1 \in Nat /\ k - 1 < k
        BY <3>2
      <4>2. PICK small : Reaching(small, o, edges, 0..(k - 1))
        BY <2>1, <4>1
      <4> DEFINE f == [i \in 0..k |-> After(small, o, edges, i)]
      <4>3. ASSUME NEW i \in 0..k PROVE After(small, o, edges, i) = After(f, o, edges, i)
        <5>1. CASE i = 0
          BY <5>1 DEF After
        <5>2. CASE i # 0
          <6>1. i - 1 \in 0..(k - 1) /\ i - 1 \in 0..k
            BY <5>2
          <6>2. small[i - 1] = f[i - 1]
            BY <4>2, <6>1 DEF Reaching
          <6> QED
            BY <6>2 DEF After
        <5> QED
          BY <5>1, <5>2
      <4>4. Reaching(f, o, edges, 0..k)
        BY <4>3 DEF Reaching
      <4> QED
        BY <4>4
    <3> QED
      BY <3>1, <3>2
  <2> HIDE DEF B
  <2>2. B \in SUBSET Nat
    BY DEF B
  <2>3. B = {}
    BY <2>1, <2>2, LeastCounterexample
  <2> QED
    BY <2>3 DEF B
<1>2. ASSUME NEW f, NEW g, NEW m \in Nat, NEW n \in Nat, m <= n,
             Reaching(f, o, edges, 0..m), Reaching(g, o, edges, 0..n)
      PROVE  f[m] = g[m]
  <2> DEFINE B == {i \in 0..m : f[i] # g[i]}
  <2>1. \A i \in 0..m : f[i] = After(f, o, edges, i) /\ g[i] = After(g, o, edges, i)
    <3>1. 0..m \subseteq 0..n
      BY <1>2
    <3>2. /\ \A i \in 0..m : f[i] = After(f, o, edges, i)
          /\ \A i \in 0..n : g[i] = After(g, o, edges, i)
      BY <1>2, Zenon DEF Reaching
    <3> QED
      BY <3>1, <3>2
  <2>2. ASSUME NEW i \in B, \A j \in Nat : j < i => j \notin B PROVE FALSE
    <3>0. i \in 0..m /\ f[i] # g[i]
      OBVIOUS
    <3>1. i # 0
      <4>1. After(f, o, edges, 0) = After(g, o, edges, 0)
        BY DEF After
      <4> QED
        BY <2>1, <3>0, <4>1
    <3>2. i - 1 \in 0..m /\ i - 1 \in Nat /\ i - 1 < i
      BY <3>1
    <3>3. f[i - 1] = g[i - 1]
      BY <2>2, <3>2
    <3>4. f[i] = g[i]
      BY <2>1, <3>1, <3>3 DEF After
    <3> QED
      BY <3>4
  <2>3. B = {}
    <3>1. B \in SUBSET Nat
      OBVIOUS
    <3> HIDE DEF B
    <3> QED
      BY <2>2, <3>1, LeastCounterexample
  <2>4. m \in 0..m /\ m \notin B
    BY <2>3
  <2> QED
    BY <2>4
<1> DEFINE part(n) == CHOOSE f : Reaching(f, o, edges, 0..n)
           all     == [n \in Nat |-> part(n)[n]]
<1>3. ASSUME NEW n \in Nat PROVE Reaching(part(n), o, edges, 0..n)
  BY <1>1
<1> HIDE DEF part
<1>4. ASSUME NEW n \in Nat PROVE part(n)[n] = After(all, o, edges, n)
  <2>1. part(n)[n] = After(part(n), o, edges, n)
    BY <1>3 DEF Reaching
  <2>2. CASE n = 0
    BY <2>1, <2>2 DEF After
  <2>3. CASE n # 0
    <3>1. n - 1 \in Nat /\ n - 1 <= n /\ n - 1 \in 0..n
      BY <2>3
    <3>2. Reaching(part(n - 1), o, edges, 0..(n - 1)) /\ Reaching(part(n), o, edges, 0..n)
      BY <1>3, <3>1
    <3>3. part(n - 1)[n - 1] = part(n)[n - 1]
      <4> DEFINE k == n - 1
      <4>1. k \in Nat /\ k <= n /\ Reaching(part(k), o, edges, 0..k)
        BY <3>1, <3>2
      <4> HIDE DEF k
      <4>2. part(k)[k] = part(n)[k]
        BY <1>2, <3>2, <4>1
      <4> QED
        BY <4>2 DEF k
    <3>4. all[n - 1] = part(n - 1)[n - 1]
      BY <3>1
    <3> HIDE DEF all
    <3> QED
      BY <2>1, <2>3, <3>3, <3>4 DEF After
  <2> QED
    BY <2>2, <2>3
<1>5. Reaching(all, o, edges, Nat)
  BY <1>4 DEF Reaching
<1> QED
  BY <1>5

(* What such a solution looks like from one step to the next.              *)
Solves(f, o, edges) ==
  f[0] = {o} /\ \A n \in Nat \ {0} : f[n] = Along(edges, f[n - 1])

(* Closure is what is reached in as many steps as there are opportunities. *)
LEMMA ClosureReached ==
  ASSUME NEW o, NEW edges
  PROVE  \E f : Solves(f, o, edges) /\ Closure(o, edges) = f[Cardinality(Opportunities)]
<1> DEFINE reached == CHOOSE f : Reaching(f, o, edges, Nat)
<1>1. Reaching(reached, o, edges, Nat)
  BY ReachingExists
<1>2. Closure(o, edges) = reached[Cardinality(Opportunities)]
  BY Zenon DEF Closure, Reaching, After, Along
<1> HIDE DEF reached
<1>3. \A n \in Nat : reached[n] = After(reached, o, edges, n)
  BY <1>1 DEF Reaching
<1>4. Solves(reached, o, edges)
  BY <1>3 DEF After, Solves
<1> QED
  BY <1>2, <1>4

(* What holds of o and passes along the edges holds of all that is         *)
(* reached; S is the set of those it holds of.                             *)
LEMMA ClosureStaysIn ==
  ASSUME NEW o, NEW edges, NEW S, o \in S, \A d \in edges : d[1] \in S => d[2] \in S,
         Cardinality(Opportunities) \in Nat
  PROVE  Closure(o, edges) \subseteq S
<1>1. PICK f : Solves(f, o, edges) /\ Closure(o, edges) = f[Cardinality(Opportunities)]
  BY ClosureReached
<1> DEFINE B == {n \in Nat : ~ (f[n] \subseteq S)}
           k == Cardinality(Opportunities)
<1>2. ASSUME NEW n \in B, \A m \in Nat : m < n => m \notin B PROVE FALSE
  <2>1. n # 0
    BY <1>1 DEF Solves
  <2>2. n - 1 \in Nat /\ n - 1 < n /\ n \in Nat \ {0}
    BY <2>1
  <2>3. f[n - 1] \subseteq S
    BY <1>2, <2>2
  <2>4. f[n] = Along(edges, f[n - 1])
    BY <1>1, <2>2 DEF Solves
  <2>5. f[n] \subseteq S
    BY <2>3, <2>4 DEF Along
  <2> QED
    BY <2>5
<1>3. B = {}
  <2>1. B \in SUBSET Nat
    OBVIOUS
  <2> HIDE DEF B
  <2> QED
    BY <1>2, <2>1, LeastCounterexample
<1>4. k \in Nat /\ Closure(o, edges) = f[k]
  BY <1>1
<1> HIDE DEF k
<1>5. f[k] \subseteq S
  BY <1>3, <1>4
<1> QED
  BY <1>4, <1>5

(* More edges reach more.                                                  *)
LEMMA ClosureIsMonotonic ==
  ASSUME NEW o, NEW few, NEW many, few \subseteq many, Cardinality(Opportunities) \in Nat
  PROVE  Closure(o, few) \subseteq Closure(o, many)
<1>1. PICK f : Solves(f, o, few) /\ Closure(o, few) = f[Cardinality(Opportunities)]
  BY ClosureReached
<1>2. PICK g : Solves(g, o, many) /\ Closure(o, many) = g[Cardinality(Opportunities)]
  BY ClosureReached
<1> DEFINE B == {n \in Nat : ~ (f[n] \subseteq g[n])}
           k == Cardinality(Opportunities)
<1>3. ASSUME NEW n \in B, \A m \in Nat : m < n => m \notin B PROVE FALSE
  <2>1. n # 0
    BY <1>1, <1>2 DEF Solves
  <2>2. n - 1 \in Nat /\ n - 1 < n /\ n \in Nat \ {0}
    BY <2>1
  <2>3. f[n - 1] \subseteq g[n - 1]
    BY <1>3, <2>2
  <2>4. f[n] = Along(few, f[n - 1]) /\ g[n] = Along(many, g[n - 1])
    BY <1>1, <1>2, <2>2 DEF Solves
  <2>5. f[n] \subseteq g[n]
    BY <2>3, <2>4 DEF Along
  <2> QED
    BY <2>5
<1>4. B = {}
  <2>1. B \in SUBSET Nat
    OBVIOUS
  <2> HIDE DEF B
  <2> QED
    BY <1>3, <2>1, LeastCounterexample
<1>5. k \in Nat /\ Closure(o, few) = f[k] /\ Closure(o, many) = g[k]
  BY <1>1, <1>2
<1> HIDE DEF k
<1>6. f[k] \subseteq g[k]
  BY <1>4, <1>5
<1> QED
  BY <1>5, <1>6

(* An edge from o is followed, as soon as there is an opportunity.         *)
LEMMA ClosureTakesAStep ==
  ASSUME NEW o, NEW edges, NEW d \in edges, d[1] = o, Cardinality(Opportunities) \in Nat \ {0}
  PROVE  d[2] \in Closure(o, edges)
<1>1. PICK f : Solves(f, o, edges) /\ Closure(o, edges) = f[Cardinality(Opportunities)]
  BY ClosureReached
<1> DEFINE B == {n \in Nat : n # 0 /\ d[2] \notin f[n]}
           k == Cardinality(Opportunities)
<1>2. ASSUME NEW n \in B, \A m \in Nat : m < n => m \notin B PROVE FALSE
  <2>1. n \in Nat \ {0} /\ n - 1 \in Nat /\ n - 1 < n
    OBVIOUS
  <2>2. f[n] = Along(edges, f[n - 1])
    BY <1>1, <2>1 DEF Solves
  <2>3. CASE n = 1
    <3>1. n - 1 = 0 /\ f[n] = Along(edges, f[0])
      BY <2>2, <2>3
    <3>2. d[2] \in f[n]
      BY <1>1, <3>1 DEF Along, Solves
    <3> QED
      BY <3>2
  <2>4. CASE n # 1
    <3>1. n - 1 \notin B /\ n - 1 # 0
      BY <1>2, <2>1, <2>4
    <3>2. d[2] \in f[n - 1]
      BY <2>1, <3>1
    <3>3. d[2] \in f[n]
      BY <2>2, <3>2 DEF Along
    <3> QED
      BY <3>3
  <2> QED
    BY <2>3, <2>4
<1>3. B = {}
  <2>1. B \in SUBSET Nat
    OBVIOUS
  <2> HIDE DEF B
  <2> QED
    BY <1>2, <2>1, LeastCounterexample
<1>4. k \in Nat \ {0} /\ Closure(o, edges) = f[k]
  BY <1>1
<1> HIDE DEF k
<1>5. d[2] \in f[k]
  BY <1>3, <1>4
<1> QED
  BY <1>4, <1>5

(* Who is told of an outcome.                                              *)
LEMMA ToldWatchesEarlier ==
  ASSUME TypeOK, LinksHold, NEW l \in links
  PROVE  /\ l.parent \in ToldOf(l.child) /\ ToldOf(l.child) \subseteq Timeline(l.child)
         /\ \A a \in ToldOf(l.child) \ {l.child} :
              StageOrder[Stage[CurrentContent(a)]] < StageOrder[Stage[CurrentContent(l.child)]]
<1> DEFINE Rank(a) == StageOrder[Stage[CurrentContent(a)]]
           o == l.child
<1>0. l.parent \in Opportunities /\ o \in Opportunities
  BY DEF TypeOK, Link
<1>1. Cardinality(Opportunities) \in Nat \ {0}
  <2>1. Opportunities # {}
    BY <1>0
  <2> QED
    BY <2>1, FS_CardinalityType, FS_EmptySet, GraphAssumption
<1>2. ASSUME NEW d \in Parents
      PROVE  \E k \in links : d = <<k.child, k.parent>>
  BY DEF Parents
<1>3. Parents \subseteq Neighbours
  BY <1>2 DEF Neighbours
<1>4. \A d \in Parents : Rank(d[1]) \in Nat /\ Rank(d[2]) \in Nat /\ Rank(d[2]) < Rank(d[1])
  <2>1. \A s \in DOMAIN StageOrder : StageOrder[s] \in Nat
    BY DEF StageOrder
  <2>2. ASSUME NEW k \in links
        PROVE  Rank(k.parent) \in Nat /\ Rank(k.child) \in Nat /\ Rank(k.parent) < Rank(k.child)
    BY <2>1 DEF LinksHold
  <2> HIDE DEF Rank
  <2> QED
    BY <1>2, <2>2
<1>5. l.parent \in ToldOf(o)
  <2> DEFINE d == <<o, l.parent>>
  <2>1. d \in Parents /\ d[1] = o /\ d[2] = l.parent
    BY DEF Parents, LinksHold
  <2> HIDE DEF d
  <2> QED
    BY <1>1, <2>1, ClosureTakesAStep DEF ToldOf
<1>6. ToldOf(o) \subseteq Timeline(o)
  BY <1>1, <1>3, ClosureIsMonotonic DEF ToldOf, Timeline
<1>7. ASSUME NEW a \in ToldOf(o), a # o PROVE Rank(a) < Rank(o)
  <2> DEFINE S == {o} \cup {b \in {d[2] : d \in Parents} : Rank(b) \in Nat /\ Rank(b) < Rank(o)}
  <2>1. Rank(o) \in Nat
    <3>1. \A s \in DOMAIN StageOrder : StageOrder[s] \in Nat
      BY DEF StageOrder
    <3> QED
      BY <3>1 DEF LinksHold
  <2>2. \A d \in Parents : d[1] \in S => d[2] \in S
    <3> HIDE DEF Rank
    <3> QED
      BY <1>4, <2>1
  <2>3. o \in S
    OBVIOUS
  <2> HIDE DEF S
  <2>4. ToldOf(o) \subseteq S
    BY <1>1, <2>2, <2>3, ClosureStaysIn DEF ToldOf
  <2> HIDE DEF Rank
  <2> QED
    BY <1>7, <2>4 DEF S
<1> QED
  BY <1>5, <1>6, <1>7

(* An outcome is told along current links only, to those that watch an     *)
(* earlier stage and that its timeline shows, whatever was revised and     *)
(* linked in which order: what the comment on cycles in                    *)
(* workers/lifecycle.py promises.                                          *)
THEOREM LinksAlwaysSound == Spec => []LinksAreSound
<1>1. IInv => LinksAreSound
  <2> SUFFICES ASSUME IInv PROVE LinksAreSound
    OBVIOUS
  <2>1. TypeOK /\ LinksHold
    BY DEF IInv, ProvenanceHolds
  <2> QED
    BY <2>1, ToldWatchesEarlier DEF LinksAreSound
<1> QED
  BY <1>1, GraphInvariant, PTL

-----------------------------------------------------------------------------
(***************************************************************************)
(* What is said of the difference between two versions (DeltaRules), for   *)
(* every pair of snapshots.                                                *)
(***************************************************************************)

(* What is told of a document.                                             *)
LEMMA KindOfDocument ==
  ASSUME NEW before, NEW after, NEW url \in DOMAIN DocumentChanges(before, after)
  PROVE  /\ url \in DOMAIN before.manifest \cup DOMAIN after.manifest
         /\ DocumentChanges(before, after)[url] = Kind(before, after, url)
         /\ Kind(before, after, url) # "none"
BY DEF DocumentChanges

(* compute_delta: unknown is not a change.  A document is reported as      *)
(* added, removed or replaced only if it was so whatever the missing       *)
(* checksums and manifests would have shown.                               *)
THEOREM ReportedDocumentsChanged ==
  ASSUME NEW before, NEW after, NEW old, NEW new, MayBe(before, old), MayBe(after, new),
         NEW url \in DOMAIN DocumentChanges(before, after)
  PROVE  LET kind == DocumentChanges(before, after)[url]
         IN  /\ kind \in {"added", "removed", "replaced"}
             /\ kind = "added"    => url \in DOMAIN new \ DOMAIN old
             /\ kind = "removed"  => url \in DOMAIN old \ DOMAIN new
             /\ kind = "replaced" => url \in DOMAIN old \cap DOMAIN new /\ old[url] # new[url]
<1> DEFINE kind == DocumentChanges(before, after)[url]
<1>1. /\ url \in DOMAIN before.manifest \cup DOMAIN after.manifest
      /\ kind = Kind(before, after, url) /\ kind # "none"
  BY KindOfDocument
<1>2. CASE url \notin DOMAIN before.manifest
  BY <1>1, <1>2 DEF Kind, MayBe
<1>3. CASE url \in DOMAIN before.manifest /\ url \notin DOMAIN after.manifest
  BY <1>1, <1>3 DEF Kind, MayBe
<1>4. CASE url \in DOMAIN before.manifest \cap DOMAIN after.manifest
  BY <1>1, <1>4 DEF Kind, MayBe
<1> QED
  BY <1>2, <1>3, <1>4

(* Two equal snapshots differ in nothing, and a difference shows upwards   *)
(* what it shows downwards.                                                *)
THEOREM DeltasAreSymmetric ==
  ASSUME NEW before, NEW after
  PROVE  LET delta == ComputeDelta(before, after)
             back  == ComputeDelta(after, before)
         IN  /\ before = after => DOMAIN delta.fields \cup DOMAIN delta.documents = {}
             /\ DOMAIN delta.fields = DOMAIN back.fields
             /\ DOMAIN delta.documents = DOMAIN back.documents
<1>1. \A a, b : /\ DOMAIN ComputeDelta(a, b).fields
                     = {f \in ComparedFields \cup {"budget"} : Value(a, f) # Value(b, f)}
                /\ DOMAIN ComputeDelta(a, b).documents
                     = {u \in DOMAIN a.manifest \cup DOMAIN b.manifest : Kind(a, b, u) # "none"}
  BY DEF ComputeDelta, FieldChanges, DocumentChanges
<1>2. \A u \in DOMAIN before.manifest \cup DOMAIN after.manifest :
        Kind(before, after, u) # "none" <=> Kind(after, before, u) # "none"
  BY DEF Kind
<1>3. before = after => \A u \in DOMAIN before.manifest : Kind(before, after, u) = "none"
  BY DEF Kind
<1>4. /\ DOMAIN ComputeDelta(before, after).fields = DOMAIN ComputeDelta(after, before).fields
      /\ DOMAIN ComputeDelta(before, after).documents = DOMAIN ComputeDelta(after, before).documents
  <2> DEFINE differ(a, b) == {f \in ComparedFields \cup {"budget"} : Value(a, f) # Value(b, f)}
             told(a, b)   == {u \in DOMAIN a.manifest \cup DOMAIN b.manifest : Kind(a, b, u) # "none"}
  <2>1. differ(before, after) = differ(after, before) /\ told(before, after) = told(after, before)
    BY <1>2
  <2>2. \A a, b : /\ DOMAIN ComputeDelta(a, b).fields = differ(a, b)
                  /\ DOMAIN ComputeDelta(a, b).documents = told(a, b)
    BY <1>1
  <2> HIDE DEF differ, told
  <2> QED
    BY <2>1, <2>2
<1>5. ASSUME before = after
      PROVE  DOMAIN ComputeDelta(before, after).fields
               \cup DOMAIN ComputeDelta(before, after).documents = {}
  BY <1>1, <1>3, <1>5
<1> QED
  BY <1>4, <1>5

(* Nothing is higher than high.                                            *)
LEMMA MaxOfSeverities ==
  ASSUME NEW S \in SUBSET (0..2), 2 \in S
  PROVE  Max(S) = 2
<1>1. \E x \in S : \A y \in S : x >= y
  OBVIOUS
<1>2. Max(S) \in S /\ \A y \in S : Max(S) >= y
  BY <1>1 DEF Max
<1>3. Max(S) \in 0..2 /\ Max(S) >= 2
  BY <1>2
<1> HIDE DEF Max
<1> QED
  BY <1>3

(* Every reason has a severity of 0, 1 or 2.                               *)
LEMMA SeveritiesAreBounded ==
  ASSUME NEW f \in ComparedFields \cup {"budget"}, NEW change, NEW r \in FieldReasons(f, change)
  PROVE  r.severity \in 0..2
<1> USE DEF ComparedFields, SetFields, Reason
<1>1. CASE NoValue \in {change.before, change.after}
  BY <1>1 DEF FieldReasons
<1>2. CASE NoValue \notin {change.before, change.after} /\ f = "budget"
  BY <1>2 DEF FieldReasons
<1>3. CASE NoValue \notin {change.before, change.after} /\ f = "closes"
  BY <1>3 DEF FieldReasons
<1>4. CASE NoValue \notin {change.before, change.after} /\ f = "regions"
  BY <1>4 DEF FieldReasons
<1>5. CASE /\ NoValue \notin {change.before, change.after}
           /\ f \in {"certifications", "capabilities"}
  BY <1>5 DEF FieldReasons
<1>6. CASE NoValue \notin {change.before, change.after} /\ f \in {"constraints", "period"}
  BY <1>6 DEF FieldReasons
<1> QED
  BY <1>1, <1>2, <1>3, <1>4, <1>5, <1>6

(* New restrictions of regions or certificates and an earlier deadline are *)
(* of high impact.                                                         *)
LEMMA RestrictionsAreHigh ==
  ASSUME NEW change, NoValue \notin {change.before, change.after}
  PROVE  /\ change.after # {} =>
              \E r \in FieldReasons("regions", change) : r.severity = 2
         /\ change.after \ change.before # {} =>
              \E r \in FieldReasons("certifications", change) : r.severity = 2
         /\ change.after < change.before =>
              \E r \in FieldReasons("closes", change) : r.severity = 2
<1>1. \A code : Reason(code, 2).severity = 2 /\ Reason(code, 2).code = code
  BY DEF Reason
<1>2. ASSUME change.after # {}, change.before = {}
      PROVE  Reason("region_restriction_added", 2) \in FieldReasons("regions", change)
  BY <1>2 DEF FieldReasons
<1>3. ASSUME change.after # {}, change.before # {}
      PROVE  Reason("region_restriction_changed", 2) \in FieldReasons("regions", change)
  BY <1>3, Zenon DEF FieldReasons
<1>4. ASSUME change.after \ change.before # {}
      PROVE  Reason("added", 2) \in FieldReasons("certifications", change)
  BY <1>1, <1>4 DEF FieldReasons
<1>5. ASSUME change.after < change.before
      PROVE  Reason("deadline_earlier", 2) \in FieldReasons("closes", change)
  BY <1>5 DEF FieldReasons
<1> QED
  BY <1>1, <1>2, <1>3, <1>4, <1>5

(* compute_delta of delta/engine.py, delta/rules.py: a change that         *)
(* shuts out a company that could bid before is of high impact.            *)
THEOREM ShuttingOutIsOfHighImpact ==
  ASSUME NEW before, NEW after, NEW company, company.ready \in Int,
         NEW f \in DOMAIN ComputeDelta(before, after).fields,
         f \in {"regions", "certifications", "closes"},
         NoValue \notin {Value(before, f), Value(after, f)},
         f = "closes" => Value(before, f) \in Int /\ Value(after, f) \in Int,
         Admitted(f, Value(before, f), company), ~ Admitted(f, Value(after, f), company)
  PROVE  ComputeDelta(before, after).impact = 2
<1> DEFINE fields    == FieldChanges(before, after)
           documents == DocumentChanges(before, after)
           own       == UNION {FieldReasons(g, fields[g]) : g \in DOMAIN fields}
           docs      == {Reason("attachment", IF documents[u] = "added" THEN 0 ELSE 1) :
                           u \in DOMAIN documents}
           severities == {r.severity : r \in docs \cup own} \cup {0}
           old == Value(before, f)
           new == Value(after, f)
<1>1. /\ DOMAIN fields \subseteq ComparedFields \cup {"budget"}
      /\ f \in DOMAIN fields /\ fields[f] = Change(old, new) /\ old # new
  BY DEF ComputeDelta, FieldChanges
<1>2. ComputeDelta(before, after).impact = Max(severities)
  BY DEF ComputeDelta, Impact
<1>3. severities \in SUBSET (0..2)
  <2>1. \A r \in own : r.severity \in 0..2
    BY <1>1, SeveritiesAreBounded
  <2>2. \A r \in docs : r.severity \in 0..2
    BY DEF Reason
  <2> HIDE DEF own, docs
  <2> QED
    BY <2>1, <2>2
<1>4. \E r \in FieldReasons(f, Change(old, new)) : r.severity = 2
  <2>1. Change(old, new).before = old /\ Change(old, new).after = new
    BY DEF Change
  <2>2. f = "regions" => new # {}
    BY DEF Admitted
  <2>3. f = "certifications" => new \ old # {}
    BY DEF Admitted
  <2>4. f = "closes" => new < old
    BY DEF Admitted
  <2> HIDE DEF old, new
  <2>5. NoValue \notin {old, new}
    BY DEF old, new
  <2> QED
    BY <2>1, <2>2, <2>3, <2>4, <2>5, RestrictionsAreHigh
<1>5. 2 \in severities
  BY <1>1, <1>4
<1> HIDE DEF severities
<1> QED
  BY <1>2, <1>3, <1>5, MaxOfSeverities

(* docs/DELTA_ENGINE.md, the property of the rules as the runs check it,   *)
(* for every set of snapshots, manifests and companies, where a deadline   *)
(* is a time or unknown: a delta reports no document that may not have     *)
(* changed, nothing between equal snapshots, the same in both directions,  *)
(* and never plays down what shuts out a company.                          *)
THEOREM DeltasAreHonest == snapshots \subseteq Snapshots => DeltaIsHonest
<1> SUFFICES ASSUME NEW before \in Snapshots, NEW after \in Snapshots,
                    NEW delta, delta = ComputeDelta(before, after),
                    NEW back, back = ComputeDelta(after, before)
             PROVE  /\ \A old \in {m \in TrueManifests : MayBe(before, m)},
                          new \in {m \in TrueManifests : MayBe(after, m)} :
                         \A url \in DOMAIN delta.documents :
                           /\ delta.documents[url] = "added"    => url \in DOMAIN new \ DOMAIN old
                           /\ delta.documents[url] = "removed"  => url \in DOMAIN old \ DOMAIN new
                           /\ delta.documents[url] = "replaced" =>
                                url \in DOMAIN old \cap DOMAIN new /\ old[url] # new[url]
                    /\ before = after => DOMAIN delta.fields \cup DOMAIN delta.documents = {}
                    /\ DOMAIN delta.fields = DOMAIN back.fields
                    /\ DOMAIN delta.documents = DOMAIN back.documents
                    /\ \A f \in DOMAIN delta.fields \cap {"regions", "certifications", "closes"} :
                         (/\ NoValue \notin {delta.fields[f].before, delta.fields[f].after}
                          /\ \E c \in Companies : /\ Admitted(f, delta.fields[f].before, c)
                                                  /\ ~ Admitted(f, delta.fields[f].after, c))
                         => delta.impact = 2
  BY DEF DeltaIsHonest
<1>1. delta.documents = DocumentChanges(before, after) /\ delta.fields = FieldChanges(before, after)
  BY DEF ComputeDelta
<1>2. ASSUME NEW old, NEW new, MayBe(before, old), MayBe(after, new),
             NEW url \in DOMAIN delta.documents
      PROVE  /\ delta.documents[url] = "added"    => url \in DOMAIN new \ DOMAIN old
             /\ delta.documents[url] = "removed"  => url \in DOMAIN old \ DOMAIN new
             /\ delta.documents[url] = "replaced" =>
                  url \in DOMAIN old \cap DOMAIN new /\ old[url] # new[url]
  BY <1>1, <1>2, ReportedDocumentsChanged
<1>3. /\ before = after => DOMAIN delta.fields \cup DOMAIN delta.documents = {}
      /\ DOMAIN delta.fields = DOMAIN back.fields
      /\ DOMAIN delta.documents = DOMAIN back.documents
  BY DeltasAreSymmetric, Zenon
<1>4. ASSUME NEW f \in DOMAIN delta.fields \cap {"regions", "certifications", "closes"},
             NoValue \notin {delta.fields[f].before, delta.fields[f].after},
             NEW c \in Companies,
             Admitted(f, delta.fields[f].before, c), ~ Admitted(f, delta.fields[f].after, c)
      PROVE  delta.impact = 2
  <2>1. /\ delta.fields[f].before = Value(before, f)
        /\ delta.fields[f].after = Value(after, f)
    BY <1>1, <1>4 DEF FieldChanges, Change
  <2>2. f = "closes" => Value(before, f) \in Int /\ Value(after, f) \in Int
    BY <1>4, <2>1, SnapshotsAssumption DEF Value
  <2> QED
    BY <1>4, <2>1, <2>2, SnapshotsAssumption, ShuttingOutIsOfHighImpact
<1> QED
  BY <1>2, <1>3, <1>4

=============================================================================
