------------------------ MODULE DerivedResultsProofs ------------------------
(***************************************************************************)
(* Proofs about DerivedResults, for any number of owners, profile values,  *)
(* facts and versions.  What a transaction relies on after it has read it  *)
(* is what its row locks hold still:                                       *)
(*                                                                         *)
(*   - rows that are not inserted yet belong to owners whose profile is    *)
(*     locked by the transaction that found them missing, so no two        *)
(*     transactions insert the same row (Locking, Fresh);                  *)
(*   - only the notifier prepares a delta or an event and commits later,   *)
(*     and it locks the opportunity as long as it works (Quiet);           *)
(*   - what it is about to announce stays true: the current version by the *)
(*     lock of the opportunity, the profile by its own lock, the facts of  *)
(*     the two versions by theirs (NotifierInv, MailInv).                  *)
(*                                                                         *)
(* At the end: what a reader of the feed sees of it, page by page, and     *)
(* what the decisions themselves may say (DecisionRules).                  *)
(***************************************************************************)
EXTENDS DerivedResults, InboxPages, DecisionRules, SequenceTheorems,
        FiniteSetTheorems, WellFoundedInduction, TLAPS

(* A job that is not idle locks the opportunity, the reader excepted; what *)
(* it is about to insert is about owners whose profiles it locks.          *)
Locking(j) ==
  /\ j # Reader /\ job[j].at # "idle" => opp = j
  /\ job[j].at = "idle" => job[j] = Idle
  /\ \A g \in job[j].eligs : profiles[g.owner] = j
  /\ \A r \in job[j].ranks : profiles[r.elig.owner] = j
  /\ job[j].at = "rank" => profiles[job[j].owner] = j

(* What a step of a job finds in its variables.                            *)
Prepared(j) ==
  /\ job[j].at \in {"lock", "rank"} =>
       job[j].owner \in Owners /\ job[j].target \in DOMAIN versions /\ job[j].seen \in Values
  /\ job[j].at \in {"before", "after"} => job[j].target \in 2..Len(versions)

Quiet(j) == j # Notifier => job[j].ranks = {} /\ job[j].delta = <<>> /\ job[j].mail = {}

(* No row that is to be inserted exists.                                   *)
Fresh(j) ==
  /\ job[j].eligs \cap eligs = {} /\ job[j].ranks \cap ranks = {}
  /\ ToSet(job[j].delta) \cap ToSet(deltas) = {}

(* Rankings recommend matches only.                                        *)
Honest(rankings) ==
  \A r \in rankings : r.recommended => <<r.elig.value, r.elig.facts>> \in Matches

JobInv(j) == Locking(j) /\ Prepared(j) /\ Quiet(j) /\ Fresh(j) /\ Honest(job[j].ranks)

(* A version that is not the first of its kind has a predecessor.          *)
VersionsInv ==
  \A v \in DOMAIN versions : /\ versions[v].kind = "current" => versions[v].prev \in 1..(v - 1)
                             /\ versions[v].kind = "initial" => v = 1

(* A change is one of a version and its predecessor, and is told once.     *)
EventsInv ==
  /\ \A e \in events : e.change # None =>
       /\ e.change.to \in 2..Len(versions) /\ e.change.from = Predecessor(e.change.to)
       /\ e.key = ChangeKey(e.owner, e.change)
  /\ \A e, f \in events : e.change # None /\ f.change # None /\ e.key = f.key => e = f

(* The notifier's reading of owners, profiles and versions stays true.     *)
NotifierInv ==
  LET n == job[Notifier]
  IN  /\ n.at \in {"profiles", "rank"} => \A o \in n.left : profiles[o] = Notifier /\ prof[o] # None
      /\ n.at = "rank" => n.target = current /\ n.seen = prof[n.owner]
      /\ n.at \in {"before", "after"} =>
           /\ n.target = current /\ versions[current].kind = "current"
           /\ \A o \in n.left : watch[o] # None => watch[o] < current
      /\ n.at = "after" =>
           /\ locks[Predecessor(current)] = Notifier
           /\ n.read = Snapshot(Predecessor(current))

(* What it is about to announce is true, and locked.                       *)
Tellable(e) ==
  /\ IsCurrent(e)
  /\ e.change = None => profiles[e.owner] = Notifier
  /\ e.change # None =>
       /\ e.key = ChangeKey(e.owner, e.change)
       /\ versions[current].kind = "current"
       /\ locks[versions[current].prev] = Notifier /\ locks[current] = Notifier

MailInv == \A e \in job[Notifier].mail : Tellable(e)

IInv ==
  /\ TypeOK /\ \A j \in Jobs : JobInv(j)
  /\ Honest(ranks) /\ VersionsInv /\ EventsInv /\ NotifierInv /\ MailInv

-----------------------------------------------------------------------------
(***************************************************************************)
(* Types.                                                                  *)
(***************************************************************************)

(* What is not started yet has a place among what is under way.            *)
LEMMA IdleIsWork == Idle \in Work
<1>1. /\ "idle" \in Stages /\ None \in Owners \cup {None} /\ <<>> \in Seq(Comparisons)
      /\ {} \in SUBSET Owners /\ {} \in SUBSET Eligibilities /\ {} \in SUBSET Rankings
      /\ {} \in SUBSET Messages
  BY DEF Stages
<1> QED BY <1>1 DEF Idle, Work

(* The fields of a job that is not started.                                *)
LEMMA IdleFields ==
  /\ Idle.at = "idle" /\ Idle.left = {} /\ Idle.eligs = {} /\ Idle.ranks = {} /\ Idle.delta = <<>>
  /\ Idle.mail = {} /\ Idle.owner = None /\ Idle.target = None /\ Idle.seen = None
  /\ Idle.read = None
BY DEF Idle

(* The two kinds of messages.                                              *)
LEMMA MessageForm ==
  ASSUME NEW e \in Messages
  PROVE  /\ e.owner \in Owners
         /\ e.change # None => e.change \in Comparisons /\ e = Change(e.owner, e.change)
BY NoneIsNoRow DEF Messages, Relevance, Change

(* A relevance message is about its owner's eligibility.                   *)
LEMMA RelevanceForm ==
  ASSUME NEW o \in Owners, NEW g \in Eligibilities
  PROVE  /\ Relevance(o, g) \in Messages /\ Relevance(o, g).change = None
         /\ Relevance(o, g).owner = o /\ Relevance(o, g).elig = g
BY DEF Messages, Relevance

(* A change message tells its comparison.                                  *)
LEMMA ChangeForm ==
  ASSUME NEW o \in Owners, NEW d \in Comparisons
  PROVE  /\ Change(o, d) \in Messages /\ Change(o, d).change = d /\ Change(o, d).change # None
         /\ Change(o, d).owner = o /\ Change(o, d).key = ChangeKey(o, d)
BY NoneIsNoRow DEF Messages, Change

(* The owner of a change is the first part of its identity.                *)
LEMMA KeyNamesOwner ==
  ASSUME NEW o, NEW p, NEW d, ChangeKey(o, d) = ChangeKey(p, d)
  PROVE  o = p
BY DEF ChangeKey

(* A version other than the first has a predecessor.                       *)
LEMMA PredecessorExists ==
  ASSUME TypeOK, VersionsInv, NEW v \in 2..Len(versions)
  PROVE  /\ v \in DOMAIN versions /\ Predecessor(v) \in DOMAIN versions
         /\ Predecessor(v) \in 1..MaxVersions
         /\ v \in 1..MaxVersions
         /\ versions[v].kind \in {"current", "historical"}
         /\ versions[v].kind = "current" => Predecessor(v) = versions[v].prev
<1>1. v \in DOMAIN versions /\ Len(versions) \in Nat /\ DOMAIN versions = 1..Len(versions)
      /\ MaxVersions \in Nat /\ Len(versions) <= MaxVersions
  BY DerivedAssumption DEF TypeOK
<1>2. versions[v] \in Stored
  BY <1>1 DEF TypeOK
<1>3. versions[v].kind \in {"current", "historical"}
  BY <1>1, <1>2 DEF VersionsInv, Stored
<1>4. Predecessor(v) \in 1..(v - 1)
  BY <1>1, <1>3 DEF VersionsInv, Predecessor
<1> QED BY <1>1, <1>3, <1>4 DEF Predecessor

(* The version that a current one replaced.                                *)
LEMMA CurrentHasPredecessor ==
  ASSUME TypeOK, VersionsInv, versions[current].kind = "current"
  PROVE  current \in 2..Len(versions) /\ Predecessor(current) = versions[current].prev
<1>1. current \in DOMAIN versions /\ Len(versions) \in Nat /\ DOMAIN versions = 1..Len(versions)
  BY DEF TypeOK
<1>2. versions[current].prev \in 1..(current - 1)
  BY <1>1 DEF VersionsInv
<1> QED BY <1>1, <1>2 DEF Predecessor

-----------------------------------------------------------------------------
(***************************************************************************)
(* The inputs change.                                                      *)
(***************************************************************************)

(* Whatever changes, it is nothing that is locked.                         *)
LEMMA EditKeeps ==
  ASSUME IInv, TypeOK', VersionsInv', UNCHANGED <<rows, held, job>>,
         DOMAIN versions \subseteq DOMAIN versions',
         \A v \in DOMAIN versions : /\ versions'[v].kind = versions[v].kind
                                    /\ versions'[v].prev = versions[v].prev,
         opp # None => current' = current,
         opp # None => \A o \in Owners : watch'[o] \in {watch[o], None},
         \A o \in Owners : profiles[o] # None => prof'[o] = prof[o],
         \A v \in DOMAIN versions : locks[v] # None =>
           (IF versions'[v].gate THEN versions'[v].facts ELSE None) = Snapshot(v)
  PROVE  IInv'
<1>0. /\ TypeOK /\ VersionsInv /\ EventsInv /\ NotifierInv /\ MailInv /\ Honest(ranks)
      /\ \A j \in Jobs : JobInv(j)
  BY DEF IInv
<1>1. /\ Notifier \in Jobs /\ Reader # Notifier /\ None # Notifier /\ job' = job /\ opp' = opp
      /\ profiles' = profiles /\ locks' = locks /\ eligs' = eligs /\ ranks' = ranks
      /\ deltas' = deltas /\ events' = events
  BY DerivedAssumption DEF Jobs, rows, held
<1>2. /\ DOMAIN versions = 1..Len(versions) /\ DOMAIN versions' = 1..Len(versions')
      /\ Len(versions) \in Nat /\ Len(versions') \in Nat /\ Len(versions) <= Len(versions')
      /\ current \in DOMAIN versions
  <2>1. /\ versions \in Seq(Stored) /\ versions' \in Seq(Stored) /\ current \in DOMAIN versions
    BY <1>0 DEF TypeOK
  <2>2. /\ DOMAIN versions = 1..Len(versions) /\ DOMAIN versions' = 1..Len(versions')
        /\ Len(versions) \in Nat /\ Len(versions') \in Nat
    BY <2>1
  <2> QED BY <2>1, <2>2
<1>3. ASSUME NEW v \in 2..Len(versions)
      PROVE  /\ v \in 2..Len(versions')
             /\ (IF versions'[v].kind = "current" THEN versions'[v].prev ELSE v - 1) = Predecessor(v)
  BY <1>2 DEF Predecessor
<1>4. \A j \in Jobs : JobInv(j)'
  <2> SUFFICES ASSUME NEW j \in Jobs PROVE JobInv(j)'
    OBVIOUS
  <2>1. Locking(j)' /\ Quiet(j)' /\ Fresh(j)' /\ Honest(job[j].ranks)'
    BY <1>0, <1>1 DEF JobInv, Locking, Quiet, Fresh, Honest
  <2>2. Prepared(j)'
    BY <1>0, <1>1, <1>2 DEF JobInv, Prepared
  <2> QED BY <2>1, <2>2 DEF JobInv
<1>5. Honest(ranks)'
  BY <1>0, <1>1 DEF Honest
<1>6. EventsInv'
  <2>1. ASSUME NEW e \in events, e.change # None
        PROVE  /\ e.change.to \in 2..Len(versions') /\ e.change.from = Predecessor(e.change.to)'
               /\ e.key = ChangeKey(e.owner, e.change)
    <3>1. /\ e.change.to \in 2..Len(versions) /\ e.change.from = Predecessor(e.change.to)
          /\ e.key = ChangeKey(e.owner, e.change)
      BY <1>0, <2>1 DEF EventsInv
    <3> QED BY <3>1, <1>3 DEF Predecessor
  <2>2. ASSUME NEW e \in events, NEW f \in events, e.change # None, f.change # None, e.key = f.key
        PROVE  e = f
    BY <1>0, <2>2 DEF EventsInv
  <2>3. ASSUME NEW e \in events', e.change # None
        PROVE  /\ e.change.to \in 2..Len(versions') /\ e.change.from = Predecessor(e.change.to)'
               /\ e.key = ChangeKey(e.owner, e.change)
    BY <1>1, <2>1, <2>3
  <2>4. ASSUME NEW e \in events', NEW f \in events', e.change # None, f.change # None, e.key = f.key
        PROVE  e = f
    BY <1>1, <2>2, <2>4
  <2> QED BY <2>3, <2>4 DEF EventsInv, ChangeKey
<1>7. ASSUME versions[current].kind = "current"
      PROVE  /\ current \in 2..Len(versions) /\ versions[current].prev \in DOMAIN versions
             /\ Predecessor(current) = versions[current].prev
  BY <1>0, <1>7, CurrentHasPredecessor, PredecessorExists
<1>8. CASE job[Notifier].at = "idle"
  <2>1. job[Notifier] = Idle
    BY <1>0, <1>1, <1>8 DEF JobInv, Locking
  <2>2. NotifierInv'
    BY <1>1, <2>1, IdleFields DEF NotifierInv
  <2>3. MailInv'
    BY <1>1, <2>1, IdleFields DEF MailInv, Tellable
  <2> QED BY <1>0, <1>4, <1>5, <1>6, <2>2, <2>3 DEF IInv
<1>9. CASE job[Notifier].at # "idle"
  <2>1. /\ opp = Notifier /\ opp # None /\ current' = current
        /\ \A o \in Owners : watch'[o] \in {watch[o], None}
    BY <1>0, <1>1, <1>9 DEF JobInv, Locking
  <2>2. job[Notifier] \in Work
    BY <1>0, <1>1 DEF TypeOK
  <2>3. NotifierInv'
    <3>1. job[Notifier].at \in {"profiles", "rank"} =>
            \A o \in job[Notifier].left : profiles[o] = Notifier /\ prof'[o] # None
      BY <1>0, <1>1, <2>2 DEF NotifierInv, Work
    <3>2. job[Notifier].at = "rank" =>
            job[Notifier].target = current /\ job[Notifier].seen = prof'[job[Notifier].owner]
      BY <1>0, <1>1, <2>2 DEF NotifierInv, JobInv, Locking, Prepared
    <3>3. job[Notifier].at \in {"before", "after"} =>
            /\ job[Notifier].target = current /\ versions'[current].kind = "current"
            /\ \A o \in job[Notifier].left : watch'[o] # None => watch'[o] < current
      <4> SUFFICES ASSUME job[Notifier].at \in {"before", "after"}
                   PROVE  /\ job[Notifier].target = current /\ versions'[current].kind = "current"
                          /\ \A o \in job[Notifier].left : watch'[o] # None => watch'[o] < current
        OBVIOUS
      <4>1. /\ job[Notifier].target = current /\ versions[current].kind = "current"
            /\ \A o \in job[Notifier].left : watch[o] # None => watch[o] < current
        BY <1>0 DEF NotifierInv
      <4>2. job[Notifier].left \subseteq Owners
        BY <2>2 DEF Work
      <4>3. ASSUME NEW o \in job[Notifier].left, watch'[o] # None PROVE watch'[o] < current
        <5>1. watch'[o] = watch[o]
          BY <2>1, <4>2, <4>3
        <5> QED BY <4>1, <4>3, <5>1
      <4> QED BY <1>2, <4>1, <4>3
    <3>4. job[Notifier].at = "after" =>
            /\ locks[Predecessor(current)'] = Notifier
            /\ job[Notifier].read = Snapshot(Predecessor(current))'
      <4> SUFFICES ASSUME job[Notifier].at = "after"
                   PROVE  /\ locks[Predecessor(current)'] = Notifier
                          /\ job[Notifier].read = Snapshot(Predecessor(current))'
        OBVIOUS
      <4>1. /\ versions[current].kind = "current" /\ locks[Predecessor(current)] = Notifier
            /\ job[Notifier].read = Snapshot(Predecessor(current))
        BY <1>0 DEF NotifierInv
      <4>2. Predecessor(current)' = Predecessor(current)
        BY <1>2, <1>3, <1>7, <2>1, <4>1 DEF Predecessor
      <4>3. Predecessor(current) \in DOMAIN versions
        BY <1>7, <4>1
      <4>4. Snapshot(Predecessor(current))' = Snapshot(Predecessor(current))
        BY <1>1, <4>1, <4>2, <4>3 DEF Snapshot
      <4> QED BY <4>1, <4>2, <4>4 DEF Snapshot
    <3> QED BY <1>1, <2>1, <3>1, <3>2, <3>3, <3>4 DEF NotifierInv, Snapshot
  <2>4. MailInv'
    <3> SUFFICES ASSUME NEW e \in job[Notifier].mail
                 PROVE  /\ IsCurrent(e)'
                        /\ e.change = None => profiles[e.owner] = Notifier
                        /\ e.change # None =>
                             /\ e.key = ChangeKey(e.owner, e.change)
                             /\ versions'[current].kind = "current"
                             /\ locks[versions'[current].prev] = Notifier
                             /\ locks[current] = Notifier
      BY <1>1, <2>1 DEF MailInv, Tellable, ChangeKey
    <3>1. /\ IsCurrent(e)
          /\ e.change = None => profiles[e.owner] = Notifier
          /\ e.change # None =>
               /\ e.key = ChangeKey(e.owner, e.change)
               /\ versions[current].kind = "current"
               /\ locks[versions[current].prev] = Notifier /\ locks[current] = Notifier
      BY <1>0 DEF MailInv, Tellable
    <3>2. e.owner \in Owners
      BY <2>2, MessageForm DEF Work
    <3>3. CASE e.change = None
      BY <1>1, <2>1, <3>1, <3>2, <3>3 DEF IsCurrent
    <3>4. CASE e.change # None
      <4>1. /\ Predecessor(current)' = Predecessor(current)
            /\ Predecessor(current) = versions[current].prev
        BY <1>2, <1>3, <1>7, <2>1, <3>1, <3>4 DEF Predecessor
      <4>2. /\ Snapshot(versions[current].prev)' = Snapshot(versions[current].prev)
            /\ Snapshot(current)' = Snapshot(current)
            /\ versions'[current].kind = versions[current].kind
            /\ versions'[current].prev = versions[current].prev
        BY <1>1, <1>2, <1>7, <2>1, <3>1, <3>4 DEF Snapshot
      <4>3. Delta(current, Snapshot(versions[current].prev), Snapshot(current))'
              = Delta(current, Snapshot(versions[current].prev), Snapshot(current))
        BY <2>1, <4>1, <4>2 DEF Delta
      <4>4. watch'[e.owner] # None => watch'[e.owner] < current'
        BY <2>1, <3>1, <3>2, <3>4 DEF IsCurrent
      <4> QED BY <2>1, <3>1, <3>4, <4>2, <4>3, <4>4 DEF IsCurrent
    <3> QED BY <3>3, <3>4
  <2> QED BY <1>0, <1>4, <1>5, <1>6, <2>3, <2>4 DEF IInv
<1> QED BY <1>8, <1>9

(* Types of what an edit finds.                                            *)
LEMMA StoredVersions ==
  ASSUME TypeOK
  PROVE  /\ DOMAIN versions = 1..Len(versions) /\ Len(versions) \in Nat
         /\ Len(versions) <= MaxVersions
         /\ \A v \in DOMAIN versions : versions[v] \in Stored
         /\ current \in DOMAIN versions /\ current \in 1..MaxVersions /\ MaxVersions \in Nat
         /\ current \in Nat /\ opp \in {None, Notifier, DeltaWorker}
<1>1. versions \in Seq(Stored) /\ Len(versions) <= MaxVersions /\ current \in DOMAIN versions
  BY DEF TypeOK
<1>2. DOMAIN versions = 1..Len(versions) /\ Len(versions) \in Nat
  BY <1>1
<1> QED BY <1>1, <1>2, DerivedAssumption DEF TypeOK

(* A new version leaves the older ones alone; whoever works under the lock *)
(* of the opportunity keeps its current one.                               *)
LEMMA NormalizeKeeps ==
  ASSUME IInv, NEW kind \in {"current", "historical"}, Normalize(kind)
  PROVE  IInv'
<1> DEFINE new == [kind |-> kind, prev |-> IF kind = "current" THEN current ELSE None,
                   gate |-> FALSE, facts |-> Bare]
           n   == Len(versions) + 1
<1>0. /\ TypeOK /\ VersionsInv /\ opp = None /\ Len(versions) < MaxVersions
      /\ versions' = Append(versions, new)
      /\ current' = (IF kind = "current" THEN Len(versions') ELSE current)
      /\ UNCHANGED <<prof, watch, prefs, expired, rows, held, job>>
      /\ edits < MaxEdits /\ edits' = edits + 1
  BY DEF IInv, Normalize, Edit, Free
<1>1. /\ DOMAIN versions = 1..Len(versions) /\ Len(versions) \in Nat
      /\ current \in 1..MaxVersions /\ current \in DOMAIN versions
  BY <1>0, StoredVersions
<1>2. new \in Stored
  BY <1>1, DerivedAssumption DEF Stored
<1>3. new.kind = kind /\ new.prev = (IF kind = "current" THEN current ELSE None)
  OBVIOUS
<1> HIDE DEF new
<1>4. /\ versions' \in Seq(Stored) /\ Len(versions') = n /\ DOMAIN versions' = 1..n
      /\ versions'[n] = new /\ \A v \in DOMAIN versions : versions'[v] = versions[v]
      /\ n \in Nat
  <2>1. versions \in Seq(Stored)
    BY <1>0 DEF TypeOK
  <2> QED BY <1>0, <1>1, <1>2, <2>1
<1>5. \A v \in DOMAIN versions' : v \in DOMAIN versions \/ v = n
  BY <1>1, <1>4
<1>6. TypeOK'
  <2>1. Len(versions') <= MaxVersions /\ current' \in DOMAIN versions'
    BY <1>0, <1>1, <1>4, DerivedAssumption
  <2>2. ASSUME NEW v \in DOMAIN versions' PROVE versions'[v].prev \in 1..(v - 1) \cup {None}
    <3>1. CASE v \in DOMAIN versions
      BY <1>0, <1>4, <3>1 DEF TypeOK
    <3>2. CASE v = n
      BY <1>1, <1>3, <1>4, <3>2
    <3> QED BY <1>5, <3>1, <3>2
  <2>3. watch' \in [Owners -> DOMAIN versions' \cup {None}]
    BY <1>0, <1>1, <1>4 DEF TypeOK
  <2>4. edits' \in 0..MaxEdits
    BY <1>0, DerivedAssumption DEF TypeOK
  <2> QED BY <1>0, <1>4, <2>1, <2>2, <2>3, <2>4 DEF TypeOK, rows, held
<1>7. VersionsInv'
  <2> SUFFICES ASSUME NEW v \in DOMAIN versions'
               PROVE  /\ versions'[v].kind = "current" => versions'[v].prev \in 1..(v - 1)
                      /\ versions'[v].kind = "initial" => v = 1
    BY DEF VersionsInv
  <2>1. CASE v \in DOMAIN versions
    BY <1>0, <1>4, <2>1 DEF VersionsInv
  <2>2. CASE v = n
    BY <1>1, <1>3, <1>4, <2>2
  <2> QED BY <1>5, <2>1, <2>2
<1>8. DOMAIN versions \subseteq DOMAIN versions'
  BY <1>1, <1>4
<1>9. /\ opp # None => current' = current
      /\ opp # None => \A o \in Owners : watch'[o] \in {watch[o], None}
      /\ \A o \in Owners : profiles[o] # None => prof'[o] = prof[o]
      /\ \A v \in DOMAIN versions : locks[v] # None =>
           (IF versions'[v].gate THEN versions'[v].facts ELSE None) = Snapshot(v)
  BY <1>0, <1>4 DEF Snapshot
<1>10. \A v \in DOMAIN versions : /\ versions'[v].kind = versions[v].kind
                                  /\ versions'[v].prev = versions[v].prev
  BY <1>4
<1> QED BY <1>0, <1>6, <1>7, <1>8, <1>9, <1>10, EditKeeps

(* The gate or the facts of a version that nobody has locked change.       *)
LEMMA VersionKeeps ==
  ASSUME IInv, NEW v \in DOMAIN versions, locks[v] = None,
         NEW gate \in BOOLEAN, NEW facts \in Facts,
         versions' = [versions EXCEPT ![v].gate = gate, ![v].facts = facts],
         UNCHANGED <<current, prof, watch, prefs, expired, rows, held, job>>, edits' \in 0..MaxEdits
  PROVE  IInv'
<1>0. TypeOK /\ VersionsInv
  BY DEF IInv
<1>1. /\ DOMAIN versions = 1..Len(versions) /\ Len(versions) \in Nat /\ versions[v] \in Stored
      /\ versions \in Seq(Stored) /\ v \in 1..Len(versions)
  BY <1>0, StoredVersions DEF TypeOK
<1>2. /\ versions'[v] = [versions[v] EXCEPT !.gate = gate, !.facts = facts]
      /\ \A w \in DOMAIN versions : w # v => versions'[w] = versions[w]
      /\ DOMAIN versions' = DOMAIN versions
  BY <1>1
<1>3. /\ versions'[v] \in Stored
      /\ versions'[v].kind = versions[v].kind /\ versions'[v].prev = versions[v].prev
  BY <1>1, <1>2 DEF Stored
<1>4. versions' \in Seq(Stored) /\ Len(versions') = Len(versions)
  <2>1. versions' = [versions EXCEPT ![v] = versions'[v]]
    BY <1>1, <1>2
  <2> HIDE DEF Stored
  <2>2. [versions EXCEPT ![v] = versions'[v]] \in Seq(Stored)
    BY <1>1, <1>3, ExceptSeq
  <2> QED BY <1>1, <1>2, <2>1, <2>2
<1>5. \A w \in DOMAIN versions : /\ versions'[w].kind = versions[w].kind
                                 /\ versions'[w].prev = versions[w].prev
  BY <1>2, <1>3
<1>6. TypeOK'
  BY <1>0, <1>2, <1>4, <1>5 DEF TypeOK, rows, held
<1>7. VersionsInv'
  BY <1>0, <1>2, <1>5 DEF VersionsInv
<1>8. \A w \in DOMAIN versions : locks[w] # None =>
        (IF versions'[w].gate THEN versions'[w].facts ELSE None) = Snapshot(w)
  BY <1>2 DEF Snapshot
<1>9. /\ opp # None => \A o \in Owners : watch'[o] \in {watch[o], None}
      /\ \A o \in Owners : profiles[o] # None => prof'[o] = prof[o]
      /\ DOMAIN versions \subseteq DOMAIN versions'
      /\ current' = current
  BY <1>2
<1> QED BY <1>5, <1>6, <1>7, <1>8, <1>9, EditKeeps

(* Profiles, watches, preferences and the deadline.                        *)
LEMMA SettingsKeep ==
  ASSUME IInv, UNCHANGED <<versions, current, rows, held, job>>, edits' \in 0..MaxEdits,
         prof' \in [Owners -> Values \cup {None}],
         \A o \in Owners : profiles[o] # None => prof'[o] = prof[o],
         watch' \in [Owners -> DOMAIN versions \cup {None}],
         opp # None => \A o \in Owners : watch'[o] \in {watch[o], None},
         prefs' \in [Owners -> BOOLEAN], expired' \in BOOLEAN
  PROVE  IInv'
<1>0. TypeOK /\ VersionsInv
  BY DEF IInv
<1>1. TypeOK' /\ VersionsInv'
  BY <1>0 DEF TypeOK, VersionsInv, rows, held
<1>2. \A w \in DOMAIN versions : locks[w] # None =>
        (IF versions'[w].gate THEN versions'[w].facts ELSE None) = Snapshot(w)
  BY DEF Snapshot
<1>3. /\ \A w \in DOMAIN versions : /\ versions'[w].kind = versions[w].kind
                                     /\ versions'[w].prev = versions[w].prev
      /\ DOMAIN versions \subseteq DOMAIN versions'
  OBVIOUS
<1> QED BY <1>1, <1>2, <1>3, EditKeeps

(* Every change of the inputs keeps the invariant.                         *)
LEMMA ChangesKeep == IInv /\ Changes => IInv'
<1> SUFFICES ASSUME IInv, Changes PROVE IInv'
  OBVIOUS
<1>0. /\ TypeOK /\ prof \in [Owners -> Values \cup {None}]
      /\ watch \in [Owners -> DOMAIN versions \cup {None}]
      /\ prefs \in [Owners -> BOOLEAN] /\ expired \in BOOLEAN /\ edits \in 0..MaxEdits
      /\ MaxEdits \in Nat
  BY DerivedAssumption DEF IInv, TypeOK
<1>1. Edit => edits' \in 0..MaxEdits /\ UNCHANGED <<rows, held, job>>
  BY <1>0 DEF Edit
<1>2. ASSUME NEW v \in DOMAIN versions, Repair(v) PROVE IInv'
  <2>1. /\ versions' = [versions EXCEPT ![v].gate = FALSE] /\ locks[v] = None
        /\ UNCHANGED <<current, prof, watch, prefs, expired, rows, held, job>>
        /\ edits' \in 0..MaxEdits
    BY <1>1, <1>2 DEF Repair, Free
  <2>2. versions[v] \in Stored
    BY <1>0, StoredVersions
  <2>3. [versions[v] EXCEPT !.gate = FALSE]
          = [versions[v] EXCEPT !.gate = FALSE, !.facts = versions[v].facts]
    BY <2>2 DEF Stored
  <2>4. /\ versions' = [versions EXCEPT ![v].gate = FALSE, ![v].facts = versions[v].facts]
        /\ versions[v].facts \in Facts
    BY <2>1, <2>2, <2>3 DEF Stored
  <2> QED BY <2>1, <2>4, VersionKeeps
<1>3. ASSUME NEW v \in DOMAIN versions, Process(v) PROVE IInv'
  <2>1. PICK f \in Facts : versions' = [versions EXCEPT ![v].gate = TRUE, ![v].facts = f]
    BY <1>3 DEF Process
  <2>2. /\ locks[v] = None /\ edits' \in 0..MaxEdits
        /\ UNCHANGED <<current, prof, watch, prefs, expired, rows, held, job>>
    BY <1>0, <1>3 DEF Process, Free
  <2> QED BY <2>1, <2>2, VersionKeeps
<1>4. ASSUME NEW o \in Owners, SetProfile(o) PROVE IInv'
  <2>1. PICK value \in Values : prof' = [prof EXCEPT ![o] = value]
    BY <1>4 DEF SetProfile
  <2>2. /\ profiles[o] = None /\ edits' \in 0..MaxEdits
        /\ UNCHANGED <<versions, current, watch, prefs, expired, rows, held, job>>
    BY <1>1, <1>4 DEF SetProfile, Free
  <2>3. /\ prof' \in [Owners -> Values \cup {None}]
        /\ \A p \in Owners : profiles[p] # None => prof'[p] = prof[p]
    BY <1>0, <2>1, <2>2
  <2> QED BY <1>0, <2>2, <2>3, SettingsKeep
<1>5. ASSUME NEW o \in Owners, Watch(o) PROVE IInv'
  <2>1. /\ watch' = [watch EXCEPT ![o] = Len(versions)] /\ opp = None /\ edits' \in 0..MaxEdits
        /\ UNCHANGED <<versions, current, prof, prefs, expired, rows, held, job>>
    BY <1>1, <1>5 DEF Watch, Free
  <2>2. Len(versions) \in DOMAIN versions
    BY <1>0, StoredVersions
  <2>3. watch' \in [Owners -> DOMAIN versions \cup {None}]
    BY <1>0, <2>1, <2>2
  <2> QED BY <1>0, <2>1, <2>3, SettingsKeep
<1>6. ASSUME NEW o \in Owners, Unwatch(o) PROVE IInv'
  <2>1. /\ watch' = [watch EXCEPT ![o] = None] /\ edits' \in 0..MaxEdits
        /\ UNCHANGED <<versions, current, prof, prefs, expired, rows, held, job>>
    BY <1>1, <1>6 DEF Unwatch
  <2>2. /\ watch' \in [Owners -> DOMAIN versions \cup {None}]
        /\ \A p \in Owners : watch'[p] \in {watch[p], None}
    BY <1>0, <2>1
  <2> QED BY <1>0, <2>1, <2>2, SettingsKeep
<1>7. ASSUME NEW o \in Owners, SetPreferences(o) PROVE IInv'
  <2>1. /\ prefs' = [prefs EXCEPT ![o] = ~ prefs[o]] /\ edits' \in 0..MaxEdits
        /\ UNCHANGED <<versions, current, prof, watch, expired, rows, held, job>>
    BY <1>1, <1>7 DEF SetPreferences
  <2>2. prefs' \in [Owners -> BOOLEAN]
    BY <1>0, <2>1
  <2> QED BY <1>0, <2>1, <2>2, SettingsKeep
<1>8. ASSUME DeadlinePasses PROVE IInv'
  <2>1. /\ expired' = TRUE /\ edits' \in 0..MaxEdits
        /\ UNCHANGED <<versions, current, prof, watch, prefs, rows, held, job>>
    BY <1>1, <1>8 DEF DeadlinePasses
  <2> QED BY <1>0, <2>1, SettingsKeep
<1> QED BY <1>2, <1>3, <1>4, <1>5, <1>6, <1>7, <1>8, NormalizeKeeps DEF Changes

-----------------------------------------------------------------------------
(***************************************************************************)
(* A job goes on, or ends.                                                 *)
(***************************************************************************)

(* What the invariant says of the tables and the versions.                 *)
LEMMA TablesKeep ==
  ASSUME IInv, UNCHANGED <<inputs, rows>>
  PROVE  Honest(ranks)' /\ VersionsInv' /\ EventsInv'
<1>1. /\ versions' = versions /\ ranks' = ranks /\ events' = events
  BY DEF inputs, rows
<1>2. Honest(ranks) /\ VersionsInv /\ EventsInv
  BY DEF IInv
<1>3. Honest(ranks)'
  BY <1>1, <1>2 DEF Honest
<1>4. VersionsInv'
  BY <1>1, <1>2 DEF VersionsInv
<1>5. EventsInv'
  BY <1>1, <1>2 DEF EventsInv, Predecessor, ChangeKey
<1> QED BY <1>3, <1>4, <1>5

(* What the notifier can tell under its locks it can tell later.           *)
LEMMA TellableStays ==
  ASSUME TypeOK, VersionsInv, NEW e \in Messages, Tellable(e),
         UNCHANGED <<versions, current, prof, watch>>,
         \A o \in Owners : profiles[o] = Notifier => profiles'[o] = Notifier,
         \A v \in 1..MaxVersions : locks[v] = Notifier => locks'[v] = Notifier
  PROVE  Tellable(e)'
<1>1. /\ IsCurrent(e)
      /\ e.change = None => profiles[e.owner] = Notifier
      /\ e.change # None =>
           /\ e.key = ChangeKey(e.owner, e.change)
           /\ versions[current].kind = "current"
           /\ locks[versions[current].prev] = Notifier /\ locks[current] = Notifier
  BY DEF Tellable
<1>2. IsCurrent(e)'
  BY <1>1 DEF IsCurrent, Delta, Predecessor, Snapshot
<1>3. e.change = None => profiles'[e.owner] = Notifier
  BY <1>1, MessageForm
<1>4. ASSUME e.change # None
      PROVE  locks'[versions[current].prev] = Notifier /\ locks'[current] = Notifier
  <2>1. versions[current].prev \in 1..MaxVersions /\ current \in 1..MaxVersions
    BY <1>1, <1>4, CurrentHasPredecessor, PredecessorExists
  <2> QED BY <1>1, <1>4, <2>1
<1> QED BY <1>1, <1>2, <1>3, <1>4 DEF Tellable, ChangeKey

(* What others do to locks that are not the notifier's is none of its      *)
(* concern.                                                                *)
LEMMA NotifierUndisturbed ==
  ASSUME TypeOK, VersionsInv, NotifierInv, MailInv, job'[Notifier] = job[Notifier],
         UNCHANGED <<versions, current, prof, watch>>,
         \A o \in Owners : profiles[o] = Notifier => profiles'[o] = Notifier,
         \A v \in 1..MaxVersions : locks[v] = Notifier => locks'[v] = Notifier
  PROVE  NotifierInv' /\ MailInv'
<1>0. job[Notifier] \in Work
  BY DEF TypeOK, Jobs
<1>1. NotifierInv'
  <2>1. job[Notifier].at \in {"profiles", "rank"} =>
          \A o \in job[Notifier].left : profiles'[o] = Notifier /\ prof[o] # None
    BY <1>0 DEF NotifierInv, Work
  <2>2. job[Notifier].at = "after" => locks'[Predecessor(current)] = Notifier
    <3> SUFFICES ASSUME job[Notifier].at = "after" PROVE locks'[Predecessor(current)] = Notifier
      OBVIOUS
    <3>1. locks[Predecessor(current)] = Notifier /\ versions[current].kind = "current"
      BY <1>0 DEF NotifierInv
    <3>2. Predecessor(current) \in 1..MaxVersions
      BY <1>0, <3>1, CurrentHasPredecessor, PredecessorExists
    <3> QED BY <3>1, <3>2
  <2> QED BY <1>0, <2>1, <2>2 DEF NotifierInv, Predecessor, Snapshot
<1>2. MailInv'
  BY <1>0, TellableStays DEF MailInv, Work
<1> QED BY <1>1, <1>2

(* A job that takes no lock of another one and leaves the tables alone.    *)
LEMMA ProgressKeeps ==
  ASSUME IInv, NEW j \in Jobs, UNCHANGED <<inputs, rows, edits>>,
         job' = [job EXCEPT ![j] = job'[j]], job'[j] \in Work, JobInv(j)',
         opp' = opp \/ (opp = None /\ opp' = j), j # Reader \/ opp' = opp,
         profiles' \in [Owners -> Jobs \cup {None}],
         \A o \in Owners : profiles'[o] = profiles[o] \/ (profiles[o] = None /\ profiles'[o] = j),
         locks' \in [1..MaxVersions -> Jobs \cup {None}],
         \A v \in 1..MaxVersions : locks'[v] = locks[v] \/ (locks[v] = None /\ locks'[v] = j),
         j = Notifier => NotifierInv' /\ MailInv'
  PROVE  IInv'
<1>0. /\ TypeOK /\ NotifierInv /\ MailInv /\ VersionsInv /\ job \in [Jobs -> Work]
      /\ \A k \in Jobs : JobInv(k)
      /\ Notifier \in Jobs /\ None \notin Jobs /\ MaxVersions \in Nat
  BY DerivedAssumption DEF IInv, TypeOK, Jobs
<1>1. /\ versions' = versions /\ current' = current /\ prof' = prof /\ watch' = watch
      /\ prefs' = prefs
      /\ expired' = expired /\ eligs' = eligs /\ ranks' = ranks /\ deltas' = deltas
      /\ events' = events
  BY DEF inputs, rows
<1>2. /\ job' \in [Jobs -> Work] /\ \A k \in Jobs : k # j => job'[k] = job[k]
  BY <1>0
<1>3. TypeOK'
  <2>1. opp' \in {None, Notifier, DeltaWorker}
    BY <1>0 DEF TypeOK, Jobs
  <2> QED BY <1>0, <1>1, <1>2, <2>1 DEF TypeOK
<1>4. ASSUME NEW k \in Jobs, k # j PROVE JobInv(k)'
  <2>1. job'[k] = job[k] /\ JobInv(k) /\ job[k] \in Work
    BY <1>0, <1>2, <1>4
  <2>2. Prepared(k)' /\ Quiet(k)' /\ Fresh(k)' /\ Honest(job[k].ranks)'
    BY <1>1, <2>1 DEF JobInv, Prepared, Quiet, Fresh, Honest
  <2>3. /\ k # Reader /\ job'[k].at # "idle" => opp' = k
        /\ job'[k].at = "idle" => job'[k] = Idle
    BY <1>0, <2>1 DEF JobInv, Locking
  <2>4. \A g \in job'[k].eligs : profiles'[g.owner] = k
    <3> SUFFICES ASSUME NEW g \in job[k].eligs PROVE profiles'[g.owner] = k
      BY <2>1
    <3>1. profiles[g.owner] = k /\ g.owner \in Owners
      BY <2>1 DEF JobInv, Locking, Work, Eligibilities
    <3> QED BY <1>0, <3>1
  <2>5. \A r \in job'[k].ranks : profiles'[r.elig.owner] = k
    <3> SUFFICES ASSUME NEW r \in job[k].ranks PROVE profiles'[r.elig.owner] = k
      BY <2>1
    <3>1. profiles[r.elig.owner] = k /\ r.elig.owner \in Owners
      BY <2>1 DEF JobInv, Locking, Work, Rankings, Eligibilities
    <3> QED BY <1>0, <3>1
  <2>6. job'[k].at = "rank" => profiles'[job'[k].owner] = k
    BY <1>0, <2>1 DEF JobInv, Locking, Prepared
  <2> QED BY <2>2, <2>3, <2>4, <2>5, <2>6 DEF JobInv, Locking
<1>5. ASSUME j # Notifier PROVE NotifierInv' /\ MailInv'
  <2>1. /\ job'[Notifier] = job[Notifier]
        /\ \A o \in Owners : profiles[o] = Notifier => profiles'[o] = Notifier
        /\ \A v \in 1..MaxVersions : locks[v] = Notifier => locks'[v] = Notifier
    BY <1>0, <1>2, <1>5
  <2> QED BY <1>0, <1>1, <2>1, NotifierUndisturbed
<1> QED BY <1>3, <1>4, <1>5, TablesKeep DEF IInv

(* Two changes of one commit are told to two owners.                       *)
LEMMA MailIsNews ==
  ASSUME IInv
  PROVE  /\ \A e \in job[Notifier].mail : e.change # None =>
              /\ e.change.to \in 2..Len(versions) /\ e.change.from = Predecessor(e.change.to)
              /\ e.key = ChangeKey(e.owner, e.change)
         /\ \A e, f \in job[Notifier].mail :
              e.change # None /\ f.change # None /\ e.key = f.key => e = f
<1>0. TypeOK /\ VersionsInv /\ MailInv /\ job[Notifier] \in Work
  BY DEF IInv, TypeOK, Jobs
<1>1. ASSUME NEW e \in job[Notifier].mail, e.change # None
      PROVE  /\ e.change.to \in 2..Len(versions) /\ e.change.from = Predecessor(e.change.to)
             /\ e.key = ChangeKey(e.owner, e.change)
             /\ e.change = Delta(current, Snapshot(versions[current].prev), Snapshot(current))
             /\ e = Change(e.owner, e.change)
  <2>1. /\ e.change = Delta(current, Snapshot(versions[current].prev), Snapshot(current))
        /\ e.key = ChangeKey(e.owner, e.change) /\ versions[current].kind = "current"
    BY <1>0, <1>1 DEF MailInv, Tellable, IsCurrent
  <2>2. e.change.to = current /\ e.change.from = Predecessor(current)
    BY <2>1 DEF Delta
  <2>3. e = Change(e.owner, e.change)
    BY <1>0, <1>1, MessageForm DEF Work
  <2> QED BY <1>0, <2>1, <2>2, <2>3, CurrentHasPredecessor
<1>2. ASSUME NEW e \in job[Notifier].mail, NEW f \in job[Notifier].mail,
             e.change # None, f.change # None, e.key = f.key
      PROVE  e = f
  <2>1. /\ e.change = f.change /\ e = Change(e.owner, e.change) /\ f = Change(f.owner, f.change)
        /\ e.key = ChangeKey(e.owner, e.change) /\ f.key = ChangeKey(f.owner, f.change)
    BY <1>1, <1>2
  <2>2. e.owner = f.owner
    <3>1. ChangeKey(e.owner, e.change) = ChangeKey(f.owner, e.change)
      BY <1>2, <2>1
    <3> QED BY ONLY <3>1, KeyNamesOwner
  <2> QED BY <2>1, <2>2
<1> QED BY <1>1, <1>2

(* A job ends: with nothing, or with rows that it alone could insert.      *)
LEMMA ReleaseKeeps ==
  ASSUME IInv, NEW j \in Jobs, Release(j), UNCHANGED inputs, edits' \in 0..MaxEdits,
         NEW E \in SUBSET job[j].eligs,
         NEW R \in SUBSET Rankings, Honest(R), \A r \in R : profiles[r.elig.owner] = j,
         NEW D \in Seq(Comparisons), D # <<>> => opp = j,
         NEW M \in SUBSET Messages, M # {} => j = Notifier /\ M = job[Notifier].mail,
         eligs' = eligs \cup E, ranks' = ranks \cup R, deltas' = deltas \o D,
         events' = events \cup {e \in M : \A old \in events : old.key # e.key}
  PROVE  IInv'
<1>0. /\ TypeOK /\ NotifierInv /\ MailInv /\ VersionsInv /\ EventsInv /\ Honest(ranks)
      /\ job \in [Jobs -> Work] /\ \A k \in Jobs : JobInv(k)
      /\ Notifier \in Jobs /\ None \notin Jobs /\ MaxVersions \in Nat /\ None \notin Owners
  BY DerivedAssumption DEF IInv, TypeOK, Jobs
<1>1. /\ versions' = versions /\ current' = current /\ prof' = prof /\ watch' = watch
      /\ prefs' = prefs
      /\ expired' = expired
  BY DEF inputs
<1>2. /\ job' = [job EXCEPT ![j] = Idle] /\ opp' = IF opp = j THEN None ELSE opp
      /\ job'[j] = Idle /\ \A k \in Jobs : k # j => job'[k] = job[k]
      /\ job' \in [Jobs -> Work]
  BY <1>0, IdleIsWork DEF Release
<1>3. /\ profiles' \in [Owners -> Jobs \cup {None}]
      /\ locks' \in [1..MaxVersions -> Jobs \cup {None}]
      /\ \A o \in Owners : profiles[o] # j => profiles'[o] = profiles[o]
      /\ \A v \in 1..MaxVersions : locks[v] # j => locks'[v] = locks[v]
  <2>1. profiles \in [Owners -> Jobs \cup {None}] /\ locks \in [1..MaxVersions -> Jobs \cup {None}]
    BY <1>0 DEF TypeOK
  <2> QED BY <2>1 DEF Release, Released
<1>4. /\ deltas \in Seq(Comparisons) /\ deltas' \in Seq(Comparisons)
      /\ eligs' \subseteq Eligibilities /\ ranks' \subseteq Rankings /\ events' \subseteq Messages
  <2>1. deltas \in Seq(Comparisons) /\ job[j] \in Work
    BY <1>0 DEF TypeOK
  <2>2. deltas' \in Seq(Comparisons)
    BY <2>1
  <2>3. E \subseteq Eligibilities
    BY <2>1 DEF Work
  <2> QED BY <1>0, <2>1, <2>2, <2>3 DEF TypeOK
<1>5. TypeOK'
  <2>1. opp' \in {None, Notifier, DeltaWorker}
    BY <1>0, <1>2 DEF TypeOK
  <2> QED BY <1>0, <1>1, <1>2, <1>3, <1>4, <2>1 DEF TypeOK
<1>6. JobInv(j)'
  <2>1. Locking(j)' /\ Prepared(j)' /\ Quiet(j)' /\ Honest(job[j].ranks)'
    BY <1>2, IdleFields DEF Locking, Prepared, Quiet, Honest
  <2>2. ToSet(<<>>) = {}
    BY DEF ToSet
  <2>3. Fresh(j)'
    BY <1>2, <2>2, IdleFields DEF Fresh, ToSet
  <2> QED BY <2>1, <2>3 DEF JobInv
<1>7. ASSUME NEW k \in Jobs, k # j PROVE JobInv(k)'
  <2>1. job'[k] = job[k] /\ JobInv(k) /\ job[k] \in Work
    BY <1>0, <1>2, <1>7
  <2>2. Prepared(k)' /\ Quiet(k)' /\ Honest(job[k].ranks)'
    BY <1>1, <2>1 DEF JobInv, Prepared, Quiet, Honest
  <2>3. /\ k # Reader /\ job'[k].at # "idle" => opp' = k
        /\ job'[k].at = "idle" => job'[k] = Idle
    BY <1>0, <1>2, <1>7, <2>1 DEF JobInv, Locking
  <2>4. \A g \in job[k].eligs : profiles[g.owner] = k /\ g.owner \in Owners
    BY <2>1 DEF JobInv, Locking, Work, Eligibilities
  <2>5. \A r \in job[k].ranks : profiles[r.elig.owner] = k /\ r.elig.owner \in Owners
    BY <2>1 DEF JobInv, Locking, Work, Rankings, Eligibilities
  <2>6. job[k].at = "rank" => profiles[job[k].owner] = k /\ job[k].owner \in Owners
    BY <2>1 DEF JobInv, Locking, Prepared
  <2>7. Locking(k)'
    <3>1. \A o \in Owners : profiles[o] = k => profiles'[o] = k
      BY <1>3, <1>7
    <3>2. /\ \A g \in job'[k].eligs : profiles'[g.owner] = k
          /\ \A r \in job'[k].ranks : profiles'[r.elig.owner] = k
          /\ job'[k].at = "rank" => profiles'[job'[k].owner] = k
      BY <2>1, <2>4, <2>5, <2>6, <3>1
    <3> QED BY <2>3, <3>2 DEF Locking
  <2>8. job[k].eligs \cap eligs' = {}
    <3>1. \A g \in E : profiles[g.owner] = j
      BY <1>0 DEF JobInv, Locking
    <3> QED BY <1>7, <2>1, <2>4, <3>1 DEF JobInv, Fresh
  <2>9. job[k].ranks \cap ranks' = {}
    BY <1>7, <2>1, <2>5 DEF JobInv, Fresh
  <2>10. ToSet(job[k].delta) \cap ToSet(deltas') = {}
    <3>1. CASE D = <<>>
      <4>1. deltas' = deltas
        BY <1>4, <3>1
      <4> QED BY <2>1, <4>1 DEF JobInv, Fresh
    <3>2. CASE D # <<>>
      <4>1. opp = j
        BY <3>2
      <4>2. k = Notifier => job[k].at = "idle"
        BY <1>7, <2>1, <4>1, DerivedAssumption DEF JobInv, Locking
      <4>3. job[k].delta = <<>>
        BY <2>1, <4>2, IdleFields DEF JobInv, Quiet, Locking
      <4> QED BY <4>3 DEF ToSet
    <3> QED BY <3>1, <3>2
  <2>11. Fresh(k)'
    BY <2>1, <2>8, <2>9, <2>10 DEF Fresh, ToSet
  <2> QED BY <2>2, <2>7, <2>11 DEF JobInv
<1>8. Honest(ranks)'
  BY <1>0 DEF Honest
<1>9. VersionsInv'
  BY <1>0, <1>1 DEF VersionsInv
<1>10. EventsInv'
  <2>1. M = {} \/ M = job[Notifier].mail
    OBVIOUS
  <2>2. /\ \A e \in M : e.change # None =>
              /\ e.change.to \in 2..Len(versions) /\ e.change.from = Predecessor(e.change.to)
              /\ e.key = ChangeKey(e.owner, e.change)
        /\ \A e, f \in M : e.change # None /\ f.change # None /\ e.key = f.key => e = f
    BY <2>1, MailIsNews
  <2>3. /\ \A e \in events : e.change # None =>
              /\ e.change.to \in 2..Len(versions) /\ e.change.from = Predecessor(e.change.to)
              /\ e.key = ChangeKey(e.owner, e.change)
        /\ \A e, f \in events : e.change # None /\ f.change # None /\ e.key = f.key => e = f
    BY <1>0 DEF EventsInv
  <2>4. \A e \in events' : e.change # None =>
              /\ e.change.to \in 2..Len(versions) /\ e.change.from = Predecessor(e.change.to)
              /\ e.key = ChangeKey(e.owner, e.change)
    BY <2>2, <2>3
  <2>5. ASSUME NEW e \in events', NEW f \in events', e.change # None, f.change # None, e.key = f.key
        PROVE  e = f
    BY <2>2, <2>3, <2>5
  <2> QED BY <1>1, <2>4, <2>5 DEF EventsInv, Predecessor, ChangeKey
<1>11. CASE j = Notifier
  <2>1. NotifierInv' /\ MailInv'
    BY <1>2, <1>11, IdleFields DEF NotifierInv, MailInv, Tellable
  <2> QED BY <1>5, <1>6, <1>7, <1>8, <1>9, <1>10, <2>1 DEF IInv
<1>12. CASE j # Notifier
  <2>1. job'[Notifier] = job[Notifier] /\ job[Notifier] \in Work
    BY <1>0, <1>2, <1>12
  <2>2. /\ \A o \in Owners : profiles[o] = Notifier => profiles'[o] = Notifier
        /\ \A v \in 1..MaxVersions : locks[v] = Notifier => locks'[v] = Notifier
    BY <1>3, <1>12
  <2>3. NotifierInv' /\ MailInv'
    BY <1>0, <1>1, <2>1, <2>2, NotifierUndisturbed
  <2> QED BY <1>5, <1>6, <1>7, <1>8, <1>9, <1>10, <2>3 DEF IInv
<1> QED BY <1>11, <1>12

-----------------------------------------------------------------------------
(***************************************************************************)
(* Eligibility and ranking.                                                *)
(***************************************************************************)

(* A transaction that is rolled back leaves its locks only.                *)
LEMMA RollbackKeeps ==
  ASSUME IInv, NEW j \in Jobs, Release(j), UNCHANGED <<inputs, rows>>, edits' \in 0..MaxEdits
  PROVE  IInv'
<1>1. deltas \in Seq(Comparisons) /\ <<>> \in Seq(Comparisons)
  BY DEF IInv, TypeOK
<1>2. deltas \o <<>> = deltas
  BY <1>1
<1>3. Honest({})
  BY DEF Honest
<1>4. /\ eligs' = eligs \cup {} /\ ranks' = ranks \cup {} /\ deltas' = deltas \o <<>>
      /\ events' = events \cup {e \in {} : \A old \in events : old.key # e.key}
      /\ UNCHANGED inputs
  BY <1>2 DEF rows, inputs
<1>5. {} \in SUBSET job[j].eligs /\ {} \in SUBSET Rankings /\ {} \in SUBSET Messages
  OBVIOUS
<1>6. \A r \in {} : profiles[r.elig.owner] = j
  OBVIOUS
<1> QED BY ONLY IInv, j \in Jobs, Release(j), edits' \in 0..MaxEdits,
               <1>1, <1>3, <1>4, <1>5, <1>6, ReleaseKeeps

(* What a job ranks is its owner's eligibility, as a row that may have     *)
(* been there before.                                                      *)
LEMMA RankForm ==
  ASSUME IInv, NEW j \in Jobs, job[j].at = "rank", NEW elig,
         elig = Eligibility(job[j].owner, job[j].target, job[j].seen),
         NEW rank, rank = Ranked(j, elig)
  PROVE  /\ elig \in Eligibilities /\ elig.owner = job[j].owner /\ elig.version = job[j].target
         /\ elig.value = job[j].seen
         /\ rank \in Rankings /\ rank.elig = elig
         /\ rank.recommended => <<elig.value, elig.facts>> \in Matches
<1>0. /\ TypeOK /\ JobInv(j) /\ job[j] \in Work /\ Honest(ranks) /\ Honest(job[j].ranks)
      /\ ranks \subseteq Rankings
  BY DEF IInv, TypeOK, JobInv
<1>1. job[j].owner \in Owners /\ job[j].target \in DOMAIN versions /\ job[j].seen \in Values
  BY <1>0 DEF JobInv, Prepared
<1>2. job[j].target \in 1..MaxVersions /\ versions[job[j].target].facts \in Facts
  BY <1>0, <1>1, StoredVersions DEF Stored
<1>3. /\ elig \in Eligibilities /\ elig.owner = job[j].owner /\ elig.version = job[j].target
      /\ elig.value = job[j].seen
  BY <1>1, <1>2 DEF Eligibility, Eligibilities
<1> DEFINE row   == Ranking(elig, job[j].now)
           known == {r \in ranks \cup job[j].ranks : r.elig = row.elig /\ r.epoch = row.epoch}
<1>4. /\ row \in Rankings /\ row.elig = elig
      /\ row.recommended => <<elig.value, elig.facts>> \in Matches
  BY <1>0, <1>3 DEF Ranking, Rankings, Work, Epoch
<1>5. rank = IF known = {} THEN row ELSE CHOOSE r \in known : TRUE
  BY DEF Ranked
<1>6. \A r \in known : /\ r \in Rankings /\ r.elig = elig
                       /\ r.recommended => <<elig.value, elig.facts>> \in Matches
  BY <1>0, <1>4 DEF Honest, Work
<1> HIDE DEF row, known
<1>7. known # {} => (CHOOSE r \in known : TRUE) \in known
  OBVIOUS
<1> QED BY <1>3, <1>4, <1>5, <1>6, <1>7

(* The notifier ranks under the lock of the profile, and may announce it.  *)
LEMMA NotifierRankKeeps ==
  ASSUME IInv, Rank(Notifier)
  PROVE  IInv'
<1> DEFINE n     == job[Notifier]
           o     == n.owner
           elig  == Eligibility(o, n.target, n.seen)
           rank  == Ranked(Notifier, elig)
           fresh == {rank} \ ranks
           news  == IF rank.recommended /\ prefs[o] THEN {Relevance(o, elig)} ELSE {}
<1>0. /\ Notifier \in Jobs /\ Notifier # Reader /\ None \notin Owners /\ MaxEdits \in Nat
      /\ job \in [Jobs -> Work] /\ edits \in 0..MaxEdits /\ ranks \subseteq Rankings
      /\ n.at = "rank" /\ n \in Work /\ JobInv(Notifier) /\ NotifierInv /\ MailInv
      /\ TypeOK /\ VersionsInv
  BY DerivedAssumption DEF IInv, TypeOK, Rank, Jobs
<1>1. /\ elig \in Eligibilities /\ elig.owner = o /\ elig.version = n.target /\ elig.value = n.seen
      /\ rank \in Rankings /\ rank.elig = elig
      /\ rank.recommended => <<elig.value, elig.facts>> \in Matches
  BY <1>0, RankForm
<1>2. CASE elig.facts # n.read
  <2>1. Release(Notifier) /\ UNCHANGED <<inputs, rows, edits>>
    BY <1>2 DEF Rank
  <2> QED BY <1>0, <2>1, RollbackKeeps
<1>3. CASE elig.facts = n.read
  <2> DEFINE next == [n EXCEPT !.at = "profiles", !.ranks = n.ranks \cup fresh,
                               !.mail = n.mail \cup news,
                               !.owner = None, !.target = None, !.seen = None, !.read = None]
  <2>0. n.mail \cup news =
          IF rank.recommended /\ prefs[o] THEN n.mail \cup {Relevance(o, elig)} ELSE n.mail
    OBVIOUS
  <2>1. /\ UNCHANGED <<inputs, rows, held, edits>>
        /\ job' = [job EXCEPT
             ![Notifier].at = "profiles", ![Notifier].ranks = @ \cup fresh,
             ![Notifier].mail =
               IF rank.recommended /\ prefs[o] THEN @ \cup {Relevance(o, elig)} ELSE @,
             ![Notifier].owner = None, ![Notifier].target = None, ![Notifier].seen = None,
             ![Notifier].read = None]
    BY <1>0, <1>3 DEF Rank
  <2> HIDE DEF elig, rank
  <2>2. job' = [job EXCEPT ![Notifier] = job'[Notifier]] /\ job'[Notifier] = next
    <3>1. n \in Work /\ Notifier \in Jobs /\ job \in [Jobs -> Work]
      BY <1>0
    <3> HIDE DEF fresh
    <3>2. CASE rank.recommended /\ prefs[o]
      BY ONLY <2>1, <3>1, <3>2 DEF Work
    <3>3. CASE ~ (rank.recommended /\ prefs[o])
      BY ONLY <2>0, <2>1, <3>1, <3>3 DEF Work
    <3> QED BY <3>2, <3>3
  <2>3. o \in Owners /\ n.target = current /\ n.seen = prof[o] /\ profiles[o] = Notifier
    BY <1>0 DEF JobInv, Locking, Prepared, NotifierInv
  <2>4. news \subseteq Messages /\ \A e \in news : e = Relevance(o, elig)
    BY <1>1, <2>3, RelevanceForm
  <2>5. /\ next \in Work /\ next.at = "profiles" /\ next.left = n.left /\ next.eligs = n.eligs
        /\ next.ranks = n.ranks \cup fresh /\ next.delta = n.delta /\ next.mail = n.mail \cup news
    <3>1. fresh \subseteq Rankings
      BY <1>1
    <3> HIDE DEF fresh, news
    <3>2. n.ranks \cup fresh \in SUBSET Rankings /\ n.mail \cup news \in SUBSET Messages
      BY <1>0, <2>4, <3>1 DEF Work
    <3> QED BY <1>0, <3>2 DEF Work, Stages
  <2> HIDE DEF next
  <2>6. /\ versions' = versions /\ current' = current /\ prof' = prof /\ watch' = watch
        /\ prefs' = prefs
        /\ eligs' = eligs /\ ranks' = ranks /\ deltas' = deltas
        /\ opp' = opp /\ profiles' = profiles /\ locks' = locks
    BY <2>1 DEF inputs, rows, held
  <2>7. JobInv(Notifier)'
    <3>1. Locking(Notifier)'
      BY <1>0, <1>1, <2>2, <2>3, <2>5, <2>6 DEF JobInv, Locking
    <3>2. Prepared(Notifier)' /\ Quiet(Notifier)'
      BY <2>2, <2>5 DEF Prepared, Quiet
    <3>3. Fresh(Notifier)'
      BY <1>0, <2>2, <2>5, <2>6 DEF JobInv, Fresh, ToSet
    <3>4. Honest(job[Notifier].ranks)'
      BY <1>0, <1>1, <2>2, <2>5 DEF JobInv, Honest
    <3> QED BY <3>1, <3>2, <3>3, <3>4 DEF JobInv
  <2>8. NotifierInv'
    BY <1>0, <2>2, <2>5, <2>6 DEF NotifierInv
  <2>9. MailInv'
    <3>1. ASSUME NEW e \in n.mail PROVE Tellable(e)'
      BY <1>0, <2>6, <3>1, TellableStays DEF MailInv, Work
    <3>2. ASSUME NEW e \in news PROVE Tellable(e)'
      <4>1. /\ e.change = None /\ e.owner = o /\ e.elig = elig /\ rank.recommended
        BY <1>1, <2>3, <2>4, <3>2, RelevanceForm
      <4> QED BY <1>1, <2>3, <2>6, <4>1 DEF Tellable, IsCurrent
    <3> QED BY <2>2, <2>5, <3>1, <3>2 DEF MailInv
  <2>10. /\ profiles' \in [Owners -> Jobs \cup {None}]
         /\ locks' \in [1..MaxVersions -> Jobs \cup {None}]
    BY <1>0, <2>6 DEF TypeOK
  <2> QED BY <1>0, <2>1, <2>2, <2>5, <2>6, <2>7, <2>8, <2>9, <2>10, ProgressKeeps
<1> QED BY <1>2, <1>3

(* The reader ranks and commits.                                           *)
LEMMA ReaderRankKeeps ==
  ASSUME IInv, Rank(Reader)
  PROVE  IInv'
<1> DEFINE n     == job[Reader]
           elig  == Eligibility(n.owner, n.target, n.seen)
           rank  == Ranked(Reader, elig)
           fresh == {rank} \ ranks
<1>0. /\ Reader \in Jobs /\ MaxEdits \in Nat /\ edits \in 0..MaxEdits
      /\ n.at = "rank" /\ JobInv(Reader)
  BY DerivedAssumption DEF IInv, TypeOK, Rank, Jobs
<1>1. /\ elig \in Eligibilities /\ elig.owner = n.owner
      /\ rank \in Rankings /\ rank.elig = elig
      /\ rank.recommended => <<elig.value, elig.facts>> \in Matches
  BY <1>0, RankForm
<1>2. CASE elig.facts # n.read
  <2>1. Release(Reader) /\ UNCHANGED <<inputs, rows, edits>>
    BY <1>2 DEF Rank
  <2> QED BY <1>0, <2>1, RollbackKeeps
<1>3. CASE elig.facts = n.read
  <2>1. Save(Reader, n.eligs, fresh, <<>>, {})
    BY <1>3 DEF Rank
  <2> HIDE DEF elig, rank
  <2>2. /\ fresh \in SUBSET Rankings /\ Honest(fresh)
        /\ \A r \in fresh : profiles[r.elig.owner] = Reader
    BY <1>0, <1>1 DEF Honest, JobInv, Locking
  <2> HIDE DEF fresh
  <2>3. /\ Release(Reader) /\ UNCHANGED inputs /\ edits' \in 0..MaxEdits
        /\ eligs' = eligs \cup n.eligs /\ ranks' = ranks \cup fresh /\ deltas' = deltas \o <<>>
        /\ events' = events \cup {e \in {} : \A old \in events : old.key # e.key}
    BY <1>0, <2>1 DEF Save
  <2>4. <<>> \in Seq(Comparisons) /\ {} \in SUBSET Messages /\ n.eligs \in SUBSET job[Reader].eligs
    OBVIOUS
  <2> HIDE DEF n
  <2> QED BY <1>0, <2>2, <2>3, <2>4, ReleaseKeeps
<1> QED BY <1>2, <1>3

(* An owner's eligibility for a version that there is.                     *)
LEMMA EligibilityForm ==
  ASSUME TypeOK, NEW o \in Owners, NEW v \in DOMAIN versions, NEW value \in Values
  PROVE  /\ Eligibility(o, v, value) \in Eligibilities /\ Eligibility(o, v, value).owner = o
         /\ versions[v].facts \in Facts /\ v \in 1..MaxVersions
<1>1. v \in 1..MaxVersions /\ versions[v].facts \in Facts
  BY StoredVersions DEF Stored
<1> QED BY <1>1 DEF Eligibility, Eligibilities

(* The reader has what it read of the profile before it was locked.        *)
LEMMA ListKeeps ==
  ASSUME IInv, NEW o \in Owners, ListOpportunity(o)
  PROVE  IInv'
<1> DEFINE next == [Idle EXCEPT !.at = "lock", !.now = expired, !.owner = o,
                                !.target = current, !.seen = prof[o]]
<1>0. /\ Reader \in Jobs /\ Reader # Notifier /\ TypeOK /\ job \in [Jobs -> Work]
      /\ job[Reader] = Idle /\ prof[o] # None /\ prof[o] \in Values /\ expired \in BOOLEAN
      /\ current \in DOMAIN versions /\ current \in 1..MaxVersions
  BY DerivedAssumption, StoredVersions DEF IInv, TypeOK, ListOpportunity, Jobs
<1>1. /\ UNCHANGED <<inputs, rows, held, edits>> /\ job' = [job EXCEPT ![Reader] = next]
  BY DEF ListOpportunity
<1>2. /\ next \in Work /\ next.at = "lock" /\ next.owner = o /\ next.target = current
      /\ next.seen = prof[o] /\ next.eligs = {} /\ next.ranks = {} /\ next.delta = <<>>
      /\ next.mail = {}
  BY <1>0, IdleIsWork, IdleFields DEF Work, Stages
<1> HIDE DEF next
<1>3. job' = [job EXCEPT ![Reader] = job'[Reader]] /\ job'[Reader] = next
  BY <1>0, <1>1
<1>4. /\ versions' = versions /\ opp' = opp /\ profiles' = profiles /\ locks' = locks
  BY <1>1 DEF inputs, held
<1>5. JobInv(Reader)'
  <2>1. Locking(Reader)' /\ Quiet(Reader)' /\ Honest(job[Reader].ranks)'
    BY <1>2, <1>3 DEF Locking, Quiet, Honest
  <2>2. Prepared(Reader)'
    BY <1>0, <1>2, <1>3, <1>4 DEF Prepared
  <2>3. Fresh(Reader)'
    BY <1>2, <1>3 DEF Fresh, ToSet
  <2> QED BY <2>1, <2>2, <2>3 DEF JobInv
<1>6. profiles' \in [Owners -> Jobs \cup {None}] /\ locks' \in [1..MaxVersions -> Jobs \cup {None}]
  BY <1>0, <1>4 DEF TypeOK
<1> QED BY <1>0, <1>1, <1>2, <1>3, <1>4, <1>5, <1>6, ProgressKeeps

(* The reader takes a free profile and looks for the eligibility.          *)
LEMMA LockProfileKeeps ==
  ASSUME IInv, LockProfile
  PROVE  IInv'
<1> DEFINE r     == job[Reader]
           o     == r.owner
           elig  == Eligibility(o, r.target, r.seen)
           facts == versions[r.target].facts
           next  == [r EXCEPT !.at = "rank", !.owner = o, !.target = r.target, !.seen = r.seen,
                              !.read = facts, !.eligs = r.eligs \cup ({elig} \ eligs)]
<1>0. /\ Reader \in Jobs /\ Reader # Notifier /\ TypeOK /\ job \in [Jobs -> Work] /\ r \in Work
      /\ r.at = "lock" /\ JobInv(Reader)
  BY DerivedAssumption DEF IInv, TypeOK, LockProfile, Jobs
<1>1. /\ UNCHANGED <<inputs, rows, opp, locks, edits>> /\ profiles[o] = None
      /\ profiles' = [profiles EXCEPT ![o] = Reader]
      /\ job' = [job EXCEPT ![Reader].at = "rank", ![Reader].owner = o, ![Reader].target = r.target,
                            ![Reader].seen = r.seen, ![Reader].read = facts,
                            ![Reader].eligs = @ \cup ({elig} \ eligs)]
  BY DEF LockProfile, Materialize, ProfileFree, Free
<1>2. o \in Owners /\ r.target \in DOMAIN versions /\ r.seen \in Values
  BY <1>0 DEF JobInv, Prepared
<1>3. elig \in Eligibilities /\ elig.owner = o /\ facts \in Facts
  BY <1>0, <1>2, EligibilityForm
<1> HIDE DEF elig, facts
<1>4. job' = [job EXCEPT ![Reader] = job'[Reader]] /\ job'[Reader] = next
  BY <1>0, <1>1
<1>5. /\ next \in Work /\ next.at = "rank" /\ next.owner = o /\ next.target = r.target
      /\ next.seen = r.seen /\ next.eligs = r.eligs \cup ({elig} \ eligs) /\ next.ranks = r.ranks
      /\ next.delta = r.delta /\ next.mail = r.mail
  BY <1>0, <1>2, <1>3 DEF Work, Stages
<1> HIDE DEF next
<1>6. /\ versions' = versions /\ eligs' = eligs /\ ranks' = ranks /\ deltas' = deltas
      /\ opp' = opp /\ locks' = locks
  BY <1>1 DEF inputs, rows
<1>7. /\ profiles' \in [Owners -> Jobs \cup {None}]
      /\ locks' \in [1..MaxVersions -> Jobs \cup {None}]
      /\ profiles'[o] = Reader /\ \A p \in Owners : p # o => profiles'[p] = profiles[p]
  BY <1>0, <1>1, <1>2, <1>6 DEF TypeOK
<1>8. JobInv(Reader)'
  <2>1. Locking(Reader)'
    <3>1. \A g \in next.eligs : profiles'[g.owner] = Reader
      BY <1>0, <1>3, <1>5, <1>7 DEF JobInv, Locking, Work, Eligibilities
    <3>2. \A q \in next.ranks : profiles'[q.elig.owner] = Reader
      BY <1>0, <1>5 DEF JobInv, Quiet
    <3> QED BY <1>4, <1>5, <1>7, <3>1, <3>2 DEF Locking
  <2>2. Prepared(Reader)' /\ Quiet(Reader)' /\ Honest(job[Reader].ranks)'
    BY <1>0, <1>2, <1>4, <1>5, <1>6 DEF JobInv, Prepared, Quiet, Honest
  <2>3. Fresh(Reader)'
    BY <1>0, <1>4, <1>5, <1>6 DEF JobInv, Fresh, ToSet
  <2> QED BY <2>1, <2>2, <2>3 DEF JobInv
<1> QED BY <1>0, <1>1, <1>4, <1>5, <1>6, <1>7, <1>8, ProgressKeeps

-----------------------------------------------------------------------------
(***************************************************************************)
(* reconcile_current, up to the rankings.                                  *)
(***************************************************************************)

(* The notifier locks the opportunity.                                     *)
LEMMA LockItemsKeeps ==
  ASSUME IInv, LockItems
  PROVE  IInv'
<1> DEFINE next == [Idle EXCEPT !.at = "items", !.now = expired]
<1>0. /\ Notifier \in Jobs /\ Notifier # Reader /\ TypeOK /\ job \in [Jobs -> Work]
      /\ job[Notifier] = Idle /\ opp = None /\ expired \in BOOLEAN
  BY DerivedAssumption DEF IInv, TypeOK, LockItems, Free, Jobs
<1>1. /\ UNCHANGED <<inputs, rows, profiles, locks, edits>> /\ opp' = Notifier
      /\ job' = [job EXCEPT ![Notifier] = next]
  BY DEF LockItems
<1>2. /\ next \in Work /\ next.at = "items" /\ next.eligs = {} /\ next.ranks = {}
      /\ next.delta = <<>>
      /\ next.mail = {}
  BY <1>0, IdleIsWork, IdleFields DEF Work, Stages
<1> HIDE DEF next
<1>3. job' = [job EXCEPT ![Notifier] = job'[Notifier]] /\ job'[Notifier] = next
  BY <1>0, <1>1
<1>4. JobInv(Notifier)'
  <2>1. /\ Locking(Notifier)' /\ Quiet(Notifier)'
        /\ Honest(job[Notifier].ranks)' /\ Prepared(Notifier)'
    BY <1>1, <1>2, <1>3 DEF Locking, Quiet, Honest, Prepared
  <2>2. Fresh(Notifier)'
    BY <1>2, <1>3 DEF Fresh, ToSet
  <2> QED BY <2>1, <2>2 DEF JobInv
<1>5. NotifierInv' /\ MailInv'
  BY <1>2, <1>3 DEF NotifierInv, MailInv
<1>6. profiles' \in [Owners -> Jobs \cup {None}] /\ locks' \in [1..MaxVersions -> Jobs \cup {None}]
  BY <1>0, <1>1 DEF TypeOK
<1> QED BY <1>0, <1>1, <1>2, <1>3, <1>4, <1>5, <1>6, ProgressKeeps

(* A step of the notifier that inserts nothing new and keeps its messages. *)
LEMMA NotifierGoesOn ==
  ASSUME IInv, UNCHANGED <<inputs, rows, edits, opp>>, job[Notifier].at # "idle",
         job' = [job EXCEPT ![Notifier] = job'[Notifier]], job'[Notifier] \in Work,
         job'[Notifier].at \notin {"idle", "lock", "rank"}, Prepared(Notifier)',
         job'[Notifier].eligs = job[Notifier].eligs, job'[Notifier].ranks = job[Notifier].ranks,
         job'[Notifier].delta = job[Notifier].delta, job'[Notifier].mail = job[Notifier].mail,
         profiles' \in [Owners -> Jobs \cup {None}],
         \A o \in Owners : \/ profiles'[o] = profiles[o]
                           \/ profiles[o] = None /\ profiles'[o] = Notifier,
         locks' \in [1..MaxVersions -> Jobs \cup {None}],
         \A v \in 1..MaxVersions : locks'[v] = locks[v] \/ (locks[v] = None /\ locks'[v] = Notifier),
         NotifierInv'
  PROVE  IInv'
<1> DEFINE n == job[Notifier]
<1>0. /\ Notifier \in Jobs /\ Notifier # Reader /\ Notifier # None /\ TypeOK /\ VersionsInv
      /\ MailInv
      /\ n \in Work /\ JobInv(Notifier)
  BY DerivedAssumption DEF IInv, TypeOK, Jobs
<1>1. /\ versions' = versions /\ current' = current /\ prof' = prof /\ watch' = watch
      /\ eligs' = eligs /\ ranks' = ranks /\ deltas' = deltas /\ opp' = opp
  BY DEF inputs, rows
<1>2. /\ \A o \in Owners : profiles[o] = Notifier => profiles'[o] = Notifier
      /\ \A v \in 1..MaxVersions : locks[v] = Notifier => locks'[v] = Notifier
  BY <1>0
<1>3. Locking(Notifier)'
  <2>1. \A g \in n.eligs : profiles'[g.owner] = Notifier
    BY <1>0, <1>2 DEF JobInv, Locking, Work, Eligibilities
  <2>2. \A r \in n.ranks : profiles'[r.elig.owner] = Notifier
    BY <1>0, <1>2 DEF JobInv, Locking, Work, Rankings, Eligibilities
  <2> QED BY <1>0, <1>1, <2>1, <2>2 DEF JobInv, Locking
<1>4. Quiet(Notifier)' /\ Fresh(Notifier)' /\ Honest(job[Notifier].ranks)'
  BY <1>0, <1>1 DEF JobInv, Quiet, Fresh, Honest, ToSet
<1>5. MailInv'
  BY <1>0, <1>1, <1>2, TellableStays DEF MailInv, Work
<1> QED BY <1>0, <1>3, <1>4, <1>5, ProgressKeeps DEF JobInv

(* All profiles are locked at once.                                        *)
LEMMA LockProfilesKeeps ==
  ASSUME IInv, LockProfiles
  PROVE  IInv'
<1> DEFINE n      == job[Notifier]
           owners == {o \in Owners : prof[o] # None}
           next   == [n EXCEPT !.at = "profiles", !.left = owners]
<1>0. /\ Notifier \in Jobs /\ TypeOK /\ job \in [Jobs -> Work] /\ n \in Work /\ n.at = "items"
      /\ profiles \in [Owners -> Jobs \cup {None}] /\ locks \in [1..MaxVersions -> Jobs \cup {None}]
  BY DEF IInv, TypeOK, LockProfiles, Jobs
<1>1. /\ UNCHANGED <<inputs, rows, opp, locks, edits>> /\ \A o \in owners : profiles[o] = None
      /\ profiles' = [o \in Owners |-> IF o \in owners THEN Notifier ELSE profiles[o]]
      /\ job' = [job EXCEPT ![Notifier].at = "profiles", ![Notifier].left = owners]
  BY DEF LockProfiles, ProfileFree, Free
<1>2. job' = [job EXCEPT ![Notifier] = job'[Notifier]] /\ job'[Notifier] = next
  BY <1>0, <1>1
<1>3. /\ next \in Work /\ next.at = "profiles" /\ next.left = owners /\ next.eligs = n.eligs
      /\ next.ranks = n.ranks /\ next.delta = n.delta /\ next.mail = n.mail
  BY <1>0 DEF Work, Stages
<1> HIDE DEF next
<1>4. /\ profiles' \in [Owners -> Jobs \cup {None}]
      /\ locks' \in [1..MaxVersions -> Jobs \cup {None}]
      /\ \A o \in Owners : \/ profiles'[o] = profiles[o]
                           \/ profiles[o] = None /\ profiles'[o] = Notifier
      /\ \A o \in owners : profiles'[o] = Notifier
      /\ locks' = locks
  BY <1>0, <1>1
<1>5. Prepared(Notifier)'
  BY <1>2, <1>3 DEF Prepared
<1>6. NotifierInv'
  <2>1. prof' = prof
    BY <1>1 DEF inputs
  <2> QED BY <1>2, <1>3, <1>4, <2>1 DEF NotifierInv
<1> QED BY <1>0, <1>1, <1>2, <1>3, <1>4, <1>5, <1>6, NotifierGoesOn

(* One owner is evaluated, or left out.                                    *)
LEMMA EvaluateKeeps ==
  ASSUME IInv, NEW o \in Owners, EvaluateOwner(o)
  PROVE  IInv'
<1> DEFINE n == job[Notifier]
<1>0. /\ Notifier \in Jobs /\ Notifier # Reader /\ Notifier # None /\ TypeOK /\ VersionsInv
      /\ MailInv
      /\ NotifierInv /\ job \in [Jobs -> Work] /\ n \in Work /\ n.at = "profiles" /\ o \in n.left
      /\ JobInv(Notifier) /\ prof \in [Owners -> Values \cup {None}]
      /\ profiles \in [Owners -> Jobs \cup {None}] /\ locks \in [1..MaxVersions -> Jobs \cup {None}]
  BY DerivedAssumption DEF IInv, TypeOK, EvaluateOwner, Jobs
<1>1. UNCHANGED <<inputs, rows, held, edits>>
  BY DEF EvaluateOwner
<1>2. /\ versions' = versions /\ current' = current /\ prof' = prof /\ watch' = watch
      /\ eligs' = eligs /\ ranks' = ranks /\ deltas' = deltas
      /\ opp' = opp /\ profiles' = profiles /\ locks' = locks
  BY <1>1 DEF inputs, rows, held
<1>3. /\ profiles[o] = Notifier /\ prof[o] \in Values
      /\ \A p \in n.left : profiles[p] = Notifier /\ prof[p] # None
  BY <1>0 DEF NotifierInv
<1>4. CASE ~ prefs[o]
  <2> DEFINE next == [n EXCEPT !.left = n.left \ {o}]
  <2>1. job' = [job EXCEPT ![Notifier].left = @ \ {o}]
    BY <1>4 DEF EvaluateOwner
  <2>2. job' = [job EXCEPT ![Notifier] = job'[Notifier]] /\ job'[Notifier] = next
    BY <1>0, <2>1
  <2>3. /\ next \in Work /\ next.at = "profiles" /\ next.left \subseteq n.left
        /\ next.eligs = n.eligs
        /\ next.ranks = n.ranks /\ next.delta = n.delta /\ next.mail = n.mail
    BY <1>0 DEF Work, Stages
  <2> HIDE DEF next
  <2>4. Prepared(Notifier)' /\ NotifierInv'
    BY <1>2, <1>3, <2>2, <2>3 DEF Prepared, NotifierInv
  <2> QED BY <1>0, <1>1, <1>2, <2>2, <2>3, <2>4, NotifierGoesOn
<1>5. CASE prefs[o]
  <2> DEFINE elig  == Eligibility(o, current, prof[o])
             facts == versions[current].facts
             next  == [n EXCEPT !.left = n.left \ {o}, !.at = "rank", !.owner = o,
                                !.target = current, !.seen = prof[o], !.read = facts,
                                !.eligs = n.eligs \cup ({elig} \ eligs)]
  <2>1. job' = [job EXCEPT ![Notifier].left = @ \ {o}, ![Notifier].at = "rank",
                      ![Notifier].owner = o, ![Notifier].target = current,
                      ![Notifier].seen = prof[o], ![Notifier].read = facts,
                      ![Notifier].eligs = @ \cup ({elig} \ eligs)]
    BY <1>5 DEF EvaluateOwner
  <2>2. current \in DOMAIN versions /\ current \in 1..MaxVersions
    BY <1>0, StoredVersions
  <2>3. elig \in Eligibilities /\ elig.owner = o /\ facts \in Facts
    BY <1>0, <1>3, <2>2, EligibilityForm
  <2> HIDE DEF elig, facts
  <2>4. job' = [job EXCEPT ![Notifier] = job'[Notifier]] /\ job'[Notifier] = next
    BY <1>0, <2>1
  <2>5. /\ next \in Work /\ next.at = "rank" /\ next.left \subseteq n.left /\ next.owner = o
        /\ next.target = current /\ next.seen = prof[o]
        /\ next.eligs = n.eligs \cup ({elig} \ eligs)
        /\ next.ranks = n.ranks /\ next.delta = n.delta /\ next.mail = n.mail
    <3>1. n.eligs \cup ({elig} \ eligs) \in SUBSET Eligibilities /\ n.left \ {o} \in SUBSET Owners
      BY <1>0, <2>3 DEF Work
    <3>2. /\ "rank" \in Stages /\ o \in Owners \cup {None} /\ current \in 1..MaxVersions \cup {None}
          /\ prof[o] \in Values \cup {None} /\ facts \in Facts \cup {None}
      BY <1>0, <1>3, <2>2, <2>3 DEF Stages, TypeOK
    <3> QED BY <1>0, <3>1, <3>2 DEF Work
  <2> HIDE DEF next
  <2>6. JobInv(Notifier)'
    <3>1. Locking(Notifier)'
      BY <1>0, <1>2, <1>3, <2>3, <2>4, <2>5 DEF JobInv, Locking
    <3>2. Prepared(Notifier)' /\ Quiet(Notifier)' /\ Honest(job[Notifier].ranks)'
      BY <1>0, <1>2, <1>3, <2>2, <2>4, <2>5 DEF JobInv, Prepared, Quiet, Honest
    <3>3. Fresh(Notifier)'
      <4>1. next.eligs \cap eligs' = {} /\ next.ranks \cap ranks' = {}
        BY <1>0, <1>2, <2>5 DEF JobInv, Fresh
      <4>2. ToSet(next.delta) \cap ToSet(deltas') = {}
        BY <1>0, <1>2, <2>5 DEF JobInv, Fresh
      <4> QED BY <2>4, <4>1, <4>2 DEF Fresh, ToSet
    <3> QED BY <3>1, <3>2, <3>3 DEF JobInv
  <2>7. NotifierInv'
    BY <1>2, <1>3, <2>4, <2>5 DEF NotifierInv
  <2>8. MailInv'
    BY <1>0, <1>2, <2>4, <2>5, TellableStays DEF MailInv, Work
  <2> QED BY <1>0, <1>1, <1>2, <2>4, <2>5, <2>6, <2>7, <2>8, ProgressKeeps
<1> QED BY <1>4, <1>5

(* The watches are read, and the versions to compare are known.            *)
LEMMA ReadWatchesKeeps ==
  ASSUME IInv, ReadWatches
  PROVE  IInv'
<1> DEFINE n      == job[Notifier]
           owners == {o \in Owners : ObservedAfterWatch(o)}
           ended  == [n EXCEPT !.at = "commit"]
           next   == [n EXCEPT !.at = "before", !.left = owners, !.target = current]
<1>0. /\ Notifier \in Jobs /\ TypeOK /\ VersionsInv
      /\ job \in [Jobs -> Work] /\ n \in Work /\ n.at = "profiles"
      /\ profiles \in [Owners -> Jobs \cup {None}] /\ locks \in [1..MaxVersions -> Jobs \cup {None}]
      /\ current \in 1..MaxVersions
  BY StoredVersions DEF IInv, TypeOK, ReadWatches, Jobs
<1>1. UNCHANGED <<inputs, rows, held, edits>>
  BY DEF ReadWatches
<1>2. /\ versions' = versions /\ current' = current /\ watch' = watch
      /\ opp' = opp /\ profiles' = profiles /\ locks' = locks
  BY <1>1 DEF inputs, held
<1>3. CASE owners = {} \/ versions[current].kind # "current"
  <2>1. job' = [job EXCEPT ![Notifier].at = "commit"]
    BY <1>3 DEF ReadWatches
  <2>2. job' = [job EXCEPT ![Notifier] = job'[Notifier]] /\ job'[Notifier] = ended
    BY <1>0, <2>1
  <2>3. /\ ended \in Work /\ ended.at = "commit" /\ ended.eligs = n.eligs
        /\ ended.ranks = n.ranks /\ ended.delta = n.delta /\ ended.mail = n.mail
    BY <1>0 DEF Work, Stages
  <2> HIDE DEF ended
  <2>4. Prepared(Notifier)' /\ NotifierInv'
    BY <2>2, <2>3 DEF Prepared, NotifierInv
  <2> QED BY <1>0, <1>1, <1>2, <2>2, <2>3, <2>4, NotifierGoesOn
<1>4. CASE owners # {} /\ versions[current].kind = "current"
  <2>1. job' = [job EXCEPT ![Notifier].at = "before", ![Notifier].left = owners,
                           ![Notifier].target = current]
    BY <1>4 DEF ReadWatches
  <2>2. job' = [job EXCEPT ![Notifier] = job'[Notifier]] /\ job'[Notifier] = next
    BY <1>0, <2>1
  <2>3. /\ next \in Work /\ next.at = "before" /\ next.left = owners /\ next.target = current
        /\ next.eligs = n.eligs /\ next.ranks = n.ranks /\ next.delta = n.delta
        /\ next.mail = n.mail
    BY <1>0 DEF Work, Stages
  <2> HIDE DEF next
  <2>4. Prepared(Notifier)'
    BY <1>0, <1>2, <1>4, <2>2, <2>3, CurrentHasPredecessor DEF Prepared
  <2>5. NotifierInv'
    BY <1>2, <1>4, <2>2, <2>3 DEF NotifierInv, ObservedAfterWatch
  <2> QED BY <1>0, <1>1, <1>2, <2>2, <2>3, <2>4, <2>5, NotifierGoesOn
<1> QED BY <1>3, <1>4

-----------------------------------------------------------------------------
(***************************************************************************)
(* Deltas and the commit.                                                  *)
(***************************************************************************)

(* The worker locks the opportunity to compare a version.                  *)
LEMMA StartDeltaKeeps ==
  ASSUME IInv, NEW v \in 2..Len(versions), StartDelta(v)
  PROVE  IInv'
<1> DEFINE next == [Idle EXCEPT !.at = "before", !.target = v]
<1>0. /\ DeltaWorker \in Jobs /\ DeltaWorker # Reader /\ DeltaWorker # Notifier /\ TypeOK
      /\ VersionsInv
      /\ job \in [Jobs -> Work] /\ job[DeltaWorker] = Idle /\ opp = None
  BY DerivedAssumption DEF IInv, TypeOK, StartDelta, Free, Jobs
<1>1. /\ UNCHANGED <<inputs, rows, profiles, locks, edits>> /\ opp' = DeltaWorker
      /\ job' = [job EXCEPT ![DeltaWorker] = next] /\ versions' = versions
  BY DEF StartDelta, inputs
<1>2. v \in 1..MaxVersions
  BY <1>0, PredecessorExists
<1>3. /\ next \in Work /\ next.at = "before" /\ next.target = v /\ next.eligs = {}
      /\ next.ranks = {} /\ next.delta = <<>> /\ next.mail = {}
  BY <1>2, IdleIsWork, IdleFields DEF Work, Stages
<1> HIDE DEF next
<1>4. job' = [job EXCEPT ![DeltaWorker] = job'[DeltaWorker]] /\ job'[DeltaWorker] = next
  BY <1>0, <1>1
<1>5. JobInv(DeltaWorker)'
  <2>1. Locking(DeltaWorker)' /\ Quiet(DeltaWorker)' /\ Honest(job[DeltaWorker].ranks)'
    BY <1>1, <1>3, <1>4 DEF Locking, Quiet, Honest
  <2>2. Prepared(DeltaWorker)'
    BY <1>1, <1>3, <1>4 DEF Prepared
  <2>3. Fresh(DeltaWorker)'
    BY <1>3, <1>4 DEF Fresh, ToSet
  <2> QED BY <2>1, <2>2, <2>3 DEF JobInv
<1>6. profiles' \in [Owners -> Jobs \cup {None}] /\ locks' \in [1..MaxVersions -> Jobs \cup {None}]
  BY <1>0, <1>1 DEF TypeOK
<1> QED BY <1>0, <1>1, <1>3, <1>4, <1>5, <1>6, ProgressKeeps

(* The predecessor is locked and read.                                     *)
LEMMA PrepareBeforeKeeps ==
  ASSUME IInv, NEW j \in {Notifier, DeltaWorker}, PrepareBefore(j)
  PROVE  IInv'
<1> DEFINE n    == job[j]
           p    == Predecessor(n.target)
           next == [n EXCEPT !.at = "after", !.read = Snapshot(p)]
<1>0. /\ j \in Jobs /\ j # Reader /\ j # None /\ TypeOK /\ VersionsInv /\ NotifierInv /\ MailInv
      /\ job \in [Jobs -> Work] /\ n \in Work /\ JobInv(j) /\ n.at = "before"
      /\ profiles \in [Owners -> Jobs \cup {None}] /\ locks \in [1..MaxVersions -> Jobs \cup {None}]
  BY DerivedAssumption DEF IInv, TypeOK, PrepareBefore, Jobs
<1>1. /\ UNCHANGED <<inputs, rows, opp, profiles, edits>> /\ locks[p] = None
      /\ locks' = [locks EXCEPT ![p] = j]
      /\ job' = [job EXCEPT ![j].at = "after", ![j].read = Snapshot(p)]
  BY DEF PrepareBefore, HoldVersion, Free
<1>2. n.target \in 2..Len(versions)
  BY <1>0 DEF JobInv, Prepared
<1>3. p \in DOMAIN versions /\ p \in 1..MaxVersions
  BY <1>0, <1>2, PredecessorExists
<1>4. Snapshot(p) \in Facts \cup {None}
  BY <1>0, <1>3, StoredVersions DEF Snapshot, Stored
<1>5. job' = [job EXCEPT ![j] = job'[j]] /\ job'[j] = next
  BY <1>0, <1>1
<1>6. /\ next \in Work /\ next.at = "after" /\ next.target = n.target /\ next.read = Snapshot(p)
      /\ next.left = n.left /\ next.eligs = n.eligs /\ next.ranks = n.ranks /\ next.delta = n.delta
      /\ next.mail = n.mail
  BY <1>0, <1>4 DEF Work, Stages
<1> HIDE DEF next
<1>7. /\ versions' = versions /\ current' = current /\ prof' = prof /\ watch' = watch
      /\ eligs' = eligs /\ ranks' = ranks /\ deltas' = deltas
      /\ opp' = opp /\ profiles' = profiles
  BY <1>1 DEF inputs, rows
<1>8. /\ locks' \in [1..MaxVersions -> Jobs \cup {None}] /\ locks'[p] = j
      /\ \A v \in 1..MaxVersions : locks'[v] = locks[v] \/ (locks[v] = None /\ locks'[v] = j)
  BY <1>0, <1>1, <1>3
<1>9. JobInv(j)'
  <2>1. Locking(j)' /\ Prepared(j)'
    BY <1>0, <1>2, <1>5, <1>6, <1>7 DEF JobInv, Locking, Prepared
  <2>2. Quiet(j)' /\ Honest(job[j].ranks)'
    BY <1>0, <1>5, <1>6, <1>7 DEF JobInv, Quiet, Honest
  <2>3. Fresh(j)'
    <3>1. next.eligs \cap eligs' = {} /\ next.ranks \cap ranks' = {}
      BY <1>0, <1>6, <1>7 DEF JobInv, Fresh
    <3>2. ToSet(next.delta) \cap ToSet(deltas') = {}
      BY <1>0, <1>6, <1>7 DEF JobInv, Fresh
    <3> QED BY <1>5, <3>1, <3>2 DEF Fresh, ToSet
  <2> QED BY <2>1, <2>2, <2>3 DEF JobInv
<1>10. ASSUME j = Notifier PROVE NotifierInv' /\ MailInv'
  <2>1. /\ n.target = current /\ versions[current].kind = "current"
        /\ \A o \in n.left : watch[o] # None => watch[o] < current
    BY <1>0, <1>10 DEF NotifierInv
  <2>2. NotifierInv'
    BY <1>5, <1>6, <1>7, <1>8, <1>10, <2>1 DEF NotifierInv, Predecessor, Snapshot
  <2>3. MailInv'
    BY <1>0, <1>5, <1>6, <1>7, <1>8, <1>10, TellableStays DEF MailInv, Work
  <2> QED BY <2>2, <2>3
<1>11. /\ j \in Jobs /\ job'[j] \in Work /\ opp' = opp /\ UNCHANGED <<inputs, rows, edits>>
       /\ profiles' \in [Owners -> Jobs \cup {None}] /\ \A o \in Owners : profiles'[o] = profiles[o]
       /\ \A v \in 1..MaxVersions : locks'[v] = locks[v] \/ (locks[v] = None /\ locks'[v] = j)
  BY <1>0, <1>1, <1>5, <1>6, <1>8
<1> QED BY ONLY IInv, <1>5, <1>8, <1>9, <1>10, <1>11, ProgressKeeps

(* A delta of two finished versions, and how it gets into the table.       *)
LEMMA DeltaForm ==
  ASSUME IInv, NEW v \in 2..Len(versions), NEW before \in Facts, NEW delta,
         delta = Delta(v, before, Snapshot(v)), Snapshot(v) # None, NEW new,
         new = IF delta \in ToSet(deltas) THEN <<>> ELSE <<delta>>
  PROVE  /\ delta \in Comparisons /\ new \in Seq(Comparisons)
         /\ ToSet(new) \cap ToSet(deltas) = {}
<1>0. TypeOK /\ VersionsInv
  BY DEF IInv
<1>1. /\ v \in 1..MaxVersions /\ Predecessor(v) \in 1..MaxVersions /\ v \in DOMAIN versions
      /\ versions[v].kind \in {"current", "historical"}
  BY <1>0, PredecessorExists
<1>2. Snapshot(v) \in Facts
  BY <1>0, <1>1, StoredVersions DEF Snapshot, Stored
<1>3. delta \in Comparisons
  BY <1>1, <1>2 DEF Delta, Comparisons
<1>4. ToSet(<<>>) = {} /\ ToSet(<<delta>>) = {delta}
  <2>1. ToSet(<<>>) = {}
    BY DEF ToSet
  <2>2. /\ DOMAIN <<delta>> = {1} /\ <<delta>>[1] = delta
    OBVIOUS
  <2>3. ToSet(<<delta>>) = {delta}
    BY <2>2 DEF ToSet
  <2> QED BY <2>1, <2>3
<1> QED BY <1>3, <1>4

(* The worker compares and commits.                                        *)
LEMMA WorkerDeltaKeeps ==
  ASSUME IInv, PrepareAfter(DeltaWorker)
  PROVE  IInv'
<1> DEFINE n     == job[DeltaWorker]
           v     == n.target
           delta == Delta(v, n.read, Snapshot(v))
           new   == IF delta \in ToSet(deltas) THEN <<>> ELSE <<delta>>
           D     == IF None \notin {n.read, Snapshot(v)} THEN new ELSE <<>>
<1>0. /\ DeltaWorker \in Jobs /\ DeltaWorker # Reader /\ TypeOK /\ n \in Work /\ n.at = "after"
      /\ JobInv(DeltaWorker) /\ edits \in 0..MaxEdits
  BY DerivedAssumption DEF IInv, TypeOK, PrepareAfter, Jobs
<1>1. Save(DeltaWorker, {}, {}, D, {})
  BY DEF PrepareAfter
<1>2. v \in 2..Len(versions) /\ opp = DeltaWorker
  BY <1>0 DEF JobInv, Prepared, Locking
<1>3. D \in Seq(Comparisons)
  <2>1. CASE None \notin {n.read, Snapshot(v)}
    <3>1. n.read \in Facts /\ Snapshot(v) # None
      BY <1>0, <2>1 DEF Work
    <3>2. new \in Seq(Comparisons)
      BY <1>2, <3>1, DeltaForm
    <3> QED BY <2>1, <3>2
  <2>2. CASE None \in {n.read, Snapshot(v)}
    BY <2>2
  <2> QED BY <2>1, <2>2
<1> HIDE DEF D
<1>4. /\ Release(DeltaWorker) /\ UNCHANGED inputs /\ edits' \in 0..MaxEdits
      /\ eligs' = eligs \cup {} /\ ranks' = ranks \cup {} /\ deltas' = deltas \o D
      /\ events' = events \cup {e \in {} : \A old \in events : old.key # e.key}
  BY <1>0, <1>1 DEF Save
<1>5. /\ Honest({}) /\ {} \in SUBSET Rankings /\ {} \in SUBSET Messages
      /\ {} \in SUBSET job[DeltaWorker].eligs
  BY DEF Honest
<1> HIDE DEF n
<1> QED BY <1>0, <1>2, <1>3, <1>4, <1>5, ReleaseKeeps

(* The notifier compares; the versions are locked, so what it will tell is *)
(* still so when it commits.                                               *)
LEMMA NotifierDeltaKeeps ==
  ASSUME IInv, PrepareAfter(Notifier)
  PROVE  IInv'
<1> DEFINE n     == job[Notifier]
           v     == n.target
           after == Snapshot(v)
           delta == Delta(v, n.read, after)
           new   == IF delta \in ToSet(deltas) THEN <<>> ELSE <<delta>>
           told  == IF Differs(delta) /\ IsLatest(delta, deltas \o new)
                      THEN {o \in n.left : prefs[o]} ELSE {}
           ready == None \notin {n.read, after}
           D     == IF ready THEN new ELSE <<>>
           news  == IF ready THEN {Change(o, delta) : o \in told} ELSE {}
           next  == [n EXCEPT !.at = "commit", !.left = {}, !.target = None, !.read = None,
                              !.delta = D, !.mail = n.mail \cup news]
<1>0. /\ Notifier \in Jobs /\ Notifier # Reader /\ Notifier # DeltaWorker /\ Notifier # None
      /\ TypeOK /\ VersionsInv /\ NotifierInv /\ MailInv
      /\ job \in [Jobs -> Work] /\ n \in Work /\ JobInv(Notifier) /\ n.at = "after"
      /\ profiles \in [Owners -> Jobs \cup {None}] /\ locks \in [1..MaxVersions -> Jobs \cup {None}]
  BY DerivedAssumption DEF IInv, TypeOK, PrepareAfter, Jobs
<1>1. v \in 2..Len(versions) /\ opp = Notifier
  BY <1>0 DEF JobInv, Prepared, Locking
<1>2. /\ v = current /\ versions[current].kind = "current"
      /\ \A o \in n.left : watch[o] # None => watch[o] < current
      /\ locks[Predecessor(current)] = Notifier /\ n.read = Snapshot(Predecessor(current))
  BY <1>0 DEF NotifierInv
<1>3. /\ Predecessor(current) = versions[current].prev /\ v \in 1..MaxVersions
      /\ Predecessor(current) \in 1..MaxVersions
  BY <1>0, <1>1, <1>2, PredecessorExists
<1>4. /\ UNCHANGED <<inputs, rows, opp, profiles, edits>> /\ locks[v] = None
      /\ locks' = [locks EXCEPT ![v] = Notifier]
      /\ job' = [job EXCEPT ![Notifier].at = "commit", ![Notifier].left = {},
                            ![Notifier].target = None, ![Notifier].read = None, ![Notifier].delta = D,
                            ![Notifier].mail = n.mail \cup news]
  <2>1. PrepareAfter(Notifier)
    OBVIOUS
  <2>2. (IF ready THEN n.mail \cup {Change(o, delta) : o \in told} ELSE n.mail) = n.mail \cup news
    OBVIOUS
  <2> QED BY <1>0, <2>1, <2>2 DEF PrepareAfter, HoldVersion, Free
<1>5. ready => /\ delta \in Comparisons /\ new \in Seq(Comparisons)
               /\ ToSet(new) \cap ToSet(deltas) = {}
  <2> SUFFICES ASSUME ready
               PROVE  /\ delta \in Comparisons /\ new \in Seq(Comparisons)
                      /\ ToSet(new) \cap ToSet(deltas) = {}
    OBVIOUS
  <2>1. n.read \in Facts /\ Snapshot(v) # None
    BY <1>0 DEF Work
  <2> QED BY <1>1, <2>1, DeltaForm
<1>6. D \in Seq(Comparisons) /\ ToSet(D) \cap ToSet(deltas) = {}
  <2>1. ToSet(<<>>) = {} /\ <<>> \in Seq(Comparisons)
    BY DEF ToSet
  <2> QED BY <1>5, <2>1
<1>7. /\ told \subseteq n.left /\ told \subseteq Owners
  BY <1>0 DEF Work
<1>8. news \subseteq Messages /\ \A e \in news : /\ \E o \in n.left : e = Change(o, delta)
                                                /\ delta \in Comparisons
  <2> HIDE DEF told, delta
  <2> QED BY <1>5, <1>7, ChangeForm
<1> HIDE DEF D, news
<1>9. job' = [job EXCEPT ![Notifier] = job'[Notifier]] /\ job'[Notifier] = next
  BY <1>0, <1>4
<1>10. /\ next \in Work /\ next.at = "commit" /\ next.eligs = n.eligs /\ next.ranks = n.ranks
       /\ next.delta = D /\ next.mail = n.mail \cup news
  BY <1>0, <1>6, <1>8 DEF Work, Stages
<1> HIDE DEF next
<1>11. /\ versions' = versions /\ current' = current /\ prof' = prof /\ watch' = watch
       /\ eligs' = eligs /\ ranks' = ranks /\ deltas' = deltas
       /\ opp' = opp /\ profiles' = profiles
  BY <1>4 DEF inputs, rows
<1>12. /\ locks' \in [1..MaxVersions -> Jobs \cup {None}] /\ locks'[current] = Notifier
       /\ \A w \in 1..MaxVersions : locks'[w] = locks[w] \/ (locks[w] = None /\ locks'[w] = Notifier)
       /\ locks'[Predecessor(current)] = Notifier
  BY <1>0, <1>2, <1>3, <1>4
<1>13. JobInv(Notifier)'
  <2>1. Locking(Notifier)'
    BY <1>0, <1>9, <1>10, <1>11 DEF JobInv, Locking
  <2>2. Prepared(Notifier)' /\ Quiet(Notifier)' /\ Honest(job[Notifier].ranks)'
    BY <1>0, <1>9, <1>10 DEF JobInv, Prepared, Quiet, Honest
  <2>3. Fresh(Notifier)'
    <3>1. next.eligs \cap eligs' = {} /\ next.ranks \cap ranks' = {}
      BY <1>0, <1>10, <1>11 DEF JobInv, Fresh
    <3>2. ToSet(next.delta) \cap ToSet(deltas') = {}
      BY <1>6, <1>10, <1>11
    <3> QED BY <1>9, <3>1, <3>2 DEF Fresh, ToSet
  <2> QED BY <2>1, <2>2, <2>3 DEF JobInv
<1>14. NotifierInv'
  BY <1>9, <1>10 DEF NotifierInv
<1>15. MailInv'
  <2>1. ASSUME NEW e \in n.mail PROVE Tellable(e)'
    BY <1>0, <1>11, <1>12, <2>1, TellableStays DEF MailInv, Work
  <2>2. ASSUME NEW e \in news PROVE Tellable(e)'
    <3>1. PICK o \in n.left : e = Change(o, delta)
      BY <1>8, <2>2
    <3>2. o \in Owners /\ delta \in Comparisons
      BY <1>0, <1>8, <2>2, <3>1 DEF Work
    <3>3. /\ e.change = delta /\ e.change # None /\ e.owner = o /\ e.key = ChangeKey(o, delta)
      BY <3>1, <3>2, ChangeForm
    <3>4. delta = Delta(current, Snapshot(versions[current].prev), Snapshot(current))
      BY <1>2, <1>3
    <3>5. IsCurrent(e)
      BY <1>2, <3>1, <3>3, <3>4 DEF IsCurrent
    <3>6. IsCurrent(e)'
      BY <1>11, <3>5 DEF IsCurrent, Delta, Predecessor, Snapshot
    <3>7. e.key = ChangeKey(e.owner, e.change)
      BY <3>3
    <3> QED BY <1>2, <1>3, <1>11, <1>12, <3>3, <3>6, <3>7 DEF Tellable, ChangeKey
  <2> QED BY <1>9, <1>10, <2>1, <2>2 DEF MailInv
<1>16. /\ UNCHANGED <<inputs, rows, edits>> /\ profiles' \in [Owners -> Jobs \cup {None}]
       /\ \A o \in Owners : \/ profiles'[o] = profiles[o]
                            \/ profiles[o] = None /\ profiles'[o] = Notifier
       /\ job'[Notifier] \in Work /\ opp' = opp
  BY <1>0, <1>4, <1>9, <1>10, <1>11
<1> HIDE DEF n, v, after, delta, new, told, ready
<1> QED BY <1>0, <1>9, <1>12, <1>13, <1>14, <1>15, <1>16, ProgressKeeps

(* The notifier's commit.                                                  *)
LEMMA CommitKeeps ==
  ASSUME IInv, Commit
  PROVE  IInv'
<1> DEFINE n == job[Notifier]
<1>0. /\ Notifier \in Jobs /\ Notifier # Reader /\ n \in Work /\ n.at = "commit" /\ JobInv(Notifier)
      /\ edits \in 0..MaxEdits
  BY DerivedAssumption DEF IInv, TypeOK, Commit, Jobs
<1>1. Save(Notifier, n.eligs, n.ranks, n.delta, n.mail)
  BY DEF Commit
<1>2. /\ opp = Notifier /\ Honest(n.ranks) /\ \A r \in n.ranks : profiles[r.elig.owner] = Notifier
  BY <1>0 DEF JobInv, Locking
<1>3. /\ n.eligs \in SUBSET job[Notifier].eligs /\ n.ranks \in SUBSET Rankings
      /\ n.delta \in Seq(Comparisons) /\ n.mail \in SUBSET Messages
  BY <1>0 DEF Work
<1>4. /\ Release(Notifier) /\ UNCHANGED inputs /\ edits' \in 0..MaxEdits
      /\ eligs' = eligs \cup n.eligs /\ ranks' = ranks \cup n.ranks /\ deltas' = deltas \o n.delta
      /\ events' = events \cup {e \in n.mail : \A old \in events : old.key # e.key}
  BY <1>0, <1>1 DEF Save
<1> QED BY <1>0, <1>2, <1>3, <1>4, ReleaseKeeps

(* A crash.                                                                *)
LEMMA CrashKeeps ==
  ASSUME IInv, NEW j \in Jobs, Crash(j)
  PROVE  IInv'
<1>1. edits' \in 0..MaxEdits
  BY DerivedAssumption DEF IInv, TypeOK, Crash
<1>2. Release(j) /\ UNCHANGED <<inputs, rows>>
  BY DEF Crash
<1> QED BY <1>1, <1>2, RollbackKeeps

-----------------------------------------------------------------------------
(***************************************************************************)
(* The theorems.                                                           *)
(***************************************************************************)

(* Initially nothing is locked, under way or derived.                      *)
LEMMA InitHolds == Init => IInv
<1> SUFFICES ASSUME Init PROVE IInv
  OBVIOUS
<1> DEFINE first == [kind |-> "initial", prev |-> None, gate |-> TRUE, facts |-> Bare]
<1>0. /\ versions = <<first>> /\ current = 1 /\ MaxVersions \in Nat \ {0} /\ MaxEdits \in Nat
      /\ Bare \in Facts
  BY DerivedAssumption DEF Init
<1>1. first \in Stored /\ first.prev = None /\ first.kind = "initial"
  BY <1>0 DEF Stored
<1> HIDE DEF first
<1>2. /\ versions \in Seq(Stored) /\ Len(versions) = 1 /\ DOMAIN versions = {1}
      /\ versions[1] = first
  BY <1>0, <1>1
<1>3. job = [j \in Jobs |-> Idle] /\ \A j \in Jobs : job[j] = Idle
  BY DEF Init
<1>4. TypeOK
  <2>1. Len(versions) <= MaxVersions /\ current \in DOMAIN versions
    BY <1>0, <1>2
  <2>2. \A v \in DOMAIN versions : versions[v].prev \in 1..(v - 1) \cup {None}
    BY <1>1, <1>2
  <2>3. prof \in [Owners -> Values \cup {None}] /\ watch \in [Owners -> DOMAIN versions \cup {None}]
    BY <1>2 DEF Init
  <2>4. prefs \in [Owners -> BOOLEAN] /\ expired \in BOOLEAN
    BY DEF Init
  <2>5. edits \in 0..MaxEdits
    BY DerivedAssumption DEF Init
  <2>6. /\ eligs \subseteq Eligibilities /\ ranks \subseteq Rankings
        /\ deltas \in Seq(Comparisons) /\ events \subseteq Messages
        /\ opp \in {None, Notifier, DeltaWorker} /\ profiles \in [Owners -> Jobs \cup {None}]
        /\ locks \in [1..MaxVersions -> Jobs \cup {None}]
    BY DEF Init
  <2>7. job \in [Jobs -> Work]
    BY <1>3, IdleIsWork
  <2> QED BY <1>2, <2>1, <2>2, <2>3, <2>4, <2>5, <2>6, <2>7 DEF TypeOK
<1>5. ASSUME NEW j \in Jobs PROVE JobInv(j)
  <2>1. job[j] = Idle
    BY <1>3
  <2>2. Locking(j) /\ Prepared(j) /\ Quiet(j) /\ Honest(job[j].ranks)
    BY <2>1, IdleFields DEF Locking, Prepared, Quiet, Honest
  <2>3. Fresh(j)
    BY <2>1, IdleFields DEF Fresh, ToSet
  <2> QED BY <2>2, <2>3 DEF JobInv
<1>6. Honest(ranks) /\ EventsInv
  BY DEF Init, Honest, EventsInv
<1>7. VersionsInv
  BY <1>1, <1>2 DEF VersionsInv
<1>8. NotifierInv /\ MailInv
  <2>1. job[Notifier] = Idle
    BY <1>3 DEF Jobs
  <2> QED BY <2>1, IdleFields DEF NotifierInv, MailInv
<1> QED BY <1>4, <1>5, <1>6, <1>7, <1>8 DEF IInv

(* Every step of a job or of the inputs keeps the invariant.               *)
LEMMA StepKeeps == IInv /\ [Next]_vars => IInv'
<1> SUFFICES ASSUME IInv, [Next]_vars PROVE IInv'
  OBVIOUS
<1>1. CASE Changes
  BY <1>1, ChangesKeep
<1>2. CASE LockItems \/ LockProfiles
  BY <1>2, LockItemsKeeps, LockProfilesKeeps
<1>3. CASE NotifierSteps
  BY <1>3, EvaluateKeeps, NotifierRankKeeps, ReadWatchesKeeps, PrepareBeforeKeeps,
     NotifierDeltaKeeps,
     CommitKeeps DEF NotifierSteps
<1>4. CASE DeltaSteps \/ \E v \in 2..Len(versions) : StartDelta(v)
  BY <1>4, PrepareBeforeKeeps, WorkerDeltaKeeps, StartDeltaKeeps DEF DeltaSteps
<1>5. CASE ReaderSteps \/ \E o \in Owners : ListOpportunity(o)
  BY <1>5, LockProfileKeeps, ReaderRankKeeps, ListKeeps DEF ReaderSteps
<1>6. CASE \E j \in Jobs : Crash(j)
  BY <1>6, CrashKeeps
<1>7. CASE UNCHANGED vars
  <2>1. /\ UNCHANGED <<versions, current, prof, watch, rows, held, job>> /\ edits' = edits
        /\ prefs' = prefs /\ expired' = expired
    BY <1>7 DEF vars, inputs
  <2>2. TypeOK
    BY DEF IInv
  <2> QED BY <2>1, <2>2, SettingsKeep DEF TypeOK
<1> QED BY <1>1, <1>2, <1>3, <1>4, <1>5, <1>6, <1>7 DEF Next

LEMMA Invariant == Spec => []IInv
BY InitHolds, StepKeeps, PTL DEF Spec

(* No transaction inserts a row that another one has inserted, or is about *)
(* to, and no owner is told the same change twice: for any number of       *)
(* owners, values, facts and versions, and whatever is edited or fails     *)
(* between the steps of the jobs.                                          *)
THEOREM NoJobCollides == Spec => []InsertsAreFresh
<1>1. IInv => InsertsAreFresh
  <2> SUFFICES ASSUME IInv PROVE InsertsAreFresh
    OBVIOUS
  <2>0. TypeOK /\ EventsInv /\ \A j \in Jobs : JobInv(j)
    BY DEF IInv
  <2>1. ASSUME NEW j \in Jobs
        PROVE  /\ job[j].eligs \cap eligs = {} /\ job[j].ranks \cap ranks = {}
               /\ ToSet(job[j].delta) \cap ToSet(deltas) = {}
    BY <2>0 DEF JobInv, Fresh
  <2>2. ASSUME NEW j \in Jobs, NEW k \in Jobs, j # k PROVE job[j].eligs \cap job[k].eligs = {}
    BY <2>0, <2>2 DEF JobInv, Locking
  <2>3. ASSUME NEW e \in events, NEW f \in events, e.owner = f.owner, e # f,
               None \notin {e.change, f.change}, e.change.to = f.change.to,
               Meaning[e.change.before] = Meaning[f.change.before],
               Meaning[e.change.after] = Meaning[f.change.after]
        PROVE  FALSE
    <3>1. e.change.from = f.change.from
      BY <2>0, <2>3 DEF EventsInv
    <3>2. e.key = f.key
      BY <2>0, <2>3, <3>1 DEF EventsInv, ChangeKey
    <3> QED BY <2>0, <2>3, <3>2 DEF EventsInv
  <2> QED BY <2>0, <2>1, <2>2, <2>3 DEF InsertsAreFresh
<1> QED BY <1>1, Invariant, PTL

(* What a commit announces holds at that moment: the recommendation is one *)
(* for the profile as it is and the current version, the change is that of *)
(* the current transition with the facts that both versions have.          *)
THEOREM NothingStaleIsTold == Spec => AnnouncementsAreCurrent
<1>1. IInv /\ [Next]_vars => [\A e \in events' \ events : IsCurrent(e)]_vars
  <2> SUFFICES ASSUME IInv, Next, NEW e \in events', e \notin events PROVE IsCurrent(e)
    OBVIOUS
  <2>1. MailInv
    BY DEF IInv
  <2>2. CASE Commit
    <3>1. e \in job[Notifier].mail
      BY <2>2 DEF Commit, Save
    <3> QED BY <2>1, <3>1 DEF MailInv, Tellable
  <2>3. CASE Rank(Reader)
    <3>1. events' = events
      BY <2>3, DerivedAssumption DEF Rank, Save, rows
    <3> QED BY <3>1
  <2>4. CASE PrepareAfter(DeltaWorker)
    <3>1. events' = events
      BY <2>4, DerivedAssumption DEF PrepareAfter, Save, rows
    <3> QED BY <3>1
  <2>5. CASE Changes
    <3>1. events' = events
      BY <2>5 DEF Changes, Normalize, Repair, Process, SetProfile, Watch, Unwatch, SetPreferences,
                  DeadlinePasses, Edit, rows
    <3> QED BY <3>1
  <2>6. CASE NotifierSteps /\ ~ Commit
    <3>1. events' = events
      BY <2>6, DerivedAssumption
      DEF NotifierSteps, EvaluateOwner, Rank, ReadWatches, PrepareBefore, PrepareAfter, rows
    <3> QED BY <3>1
  <2>7. CASE \/ LockItems \/ LockProfiles \/ LockProfile \/ PrepareBefore(DeltaWorker)
             \/ \E v \in 2..Len(versions) : StartDelta(v)
             \/ \E o \in Owners : ListOpportunity(o)
             \/ \E j \in Jobs : Crash(j)
    <3>1. events' = events
      BY <2>7 DEF LockItems, LockProfiles, LockProfile, PrepareBefore, StartDelta, ListOpportunity,
         Crash, rows
    <3> QED BY <3>1
  <2> QED BY <2>2, <2>3, <2>4, <2>5, <2>6, <2>7 DEF Next, DeltaSteps, ReaderSteps
<1> QED BY <1>1, Invariant, PTL DEF Spec, AnnouncementsAreCurrent

-----------------------------------------------------------------------------
(***************************************************************************)
(* The feed: InboxPages.                                                   *)
(***************************************************************************)

(* A set of natural numbers has a least one.                               *)
LEMMA LeastExists ==
  ASSUME NEW S \in SUBSET Nat, S # {}
  PROVE  \E x \in S : \A y \in S : x <= y
<1>1. PICK x \in S : \A y \in S : <<y, x>> \notin OpToRel(<, Nat)
  BY NatLessThanWellFounded, WFMin
<1>2. ASSUME NEW y \in S
      PROVE  ~ (y < x)
  <2>1. <<y, x>> \in Nat \X Nat /\ <<y, x>>[1] = y /\ <<y, x>>[2] = x
    OBVIOUS
  <2> QED
    BY <1>1, <2>1, Zenon DEF OpToRel
<1> QED
  BY <1>2

(* Rows have a last one among them.                                        *)
LEMMA LastRow ==
  ASSUME NEW S \in SUBSET (1..Rows), S # {}
  PROVE  Max(S) \in S /\ \A y \in S : y <= Max(S)
<1> DEFINE T == {Rows - y : y \in S}
<1>1. Rows \in Nat
  BY InboxAssumption
<1>2. T \in SUBSET Nat /\ T # {}
  <2>1. \A y \in S : Rows - y \in Nat
    BY <1>1
  <2> QED
    BY <2>1
<1>3. PICK t \in T : \A y \in T : t <= y
  BY <1>2, LeastExists
<1>4. PICK x \in S : t = Rows - x
  OBVIOUS
<1>5. ASSUME NEW y \in S
      PROVE  y <= x
  <2>1. Rows - y \in T
    OBVIOUS
  <2>2. Rows - x <= Rows - y
    BY <1>3, <1>4, <2>1
  <2> QED
    BY <1>1, <2>2
<1> QED
  BY <1>4, <1>5 DEF Max

(* What a request looks at, and how far: the last row that it scans.       *)
Size(filter) == IF filter = "all" THEN Limit + 1 ELSE BatchRows * Batches
Horizon(start, filter) == IF Rows <= start + Size(filter) THEN Rows ELSE start + Size(filter)

(* The numbers and the sets of a request.                                  *)
LEMMA RequestBounds ==
  ASSUME NEW start \in 0..Rows, NEW filter \in Filters
  PROVE  /\ Rows \in Nat \ {0} /\ Limit \in Nat \ {0} /\ BatchRows * Batches \in Nat \ {0}
         /\ Size(filter) \in Nat \ {0} /\ start \in Nat
         /\ Horizon(start, filter) \in start..Rows
         /\ Scanned(start, filter) = (start + 1)..Horizon(start, filter)
         /\ Candidates(start, filter) \subseteq Scanned(start, filter)
         /\ Scanned(start, filter) \subseteq 1..Rows
<1>1. Rows \in Nat \ {0} /\ Limit \in Nat \ {0} /\ BatchRows \in Nat \ {0} /\ Batches \in Nat \ {0}
  BY InboxAssumption
<1>2. BatchRows * Batches \in Nat \ {0}
  BY <1>1
<1>3. Size(filter) \in Nat \ {0} /\ start \in Nat
  BY <1>1, <1>2 DEF Size
<1>4. Horizon(start, filter) \in start..Rows
  BY <1>1, <1>3 DEF Horizon
<1>5. Min({Rows, start + Size(filter)}) = Horizon(start, filter)
  <2>1. start + Size(filter) \in Int /\ Rows \in Int
    BY <1>1, <1>3
  <2> DEFINE b == start + Size(filter)
  <2>2. Horizon(start, filter) = IF Rows <= b THEN Rows ELSE b
    BY DEF Horizon
  <2> HIDE DEF b
  <2>3. \E x \in {Rows, b} : \A y \in {Rows, b} : x <= y
    BY <2>1 DEF b
  <2>4. Min({Rows, b}) \in {Rows, b} /\ \A y \in {Rows, b} : Min({Rows, b}) <= y
    BY <2>3 DEF Min
  <2>5. b \in Int
    BY <2>1 DEF b
  <2>6. Min({Rows, b}) = IF Rows <= b THEN Rows ELSE b
    BY <2>1, <2>4, <2>5
  <2> QED
    BY <2>2, <2>6 DEF b
<1>6. Scanned(start, filter) = (start + 1)..Horizon(start, filter)
  BY <1>5 DEF Scanned, Size
<1>7. Scanned(start, filter) \subseteq 1..Rows
  BY <1>1, <1>3, <1>4, <1>6
<1> QED
  BY <1>1, <1>2, <1>3, <1>4, <1>6, <1>7 DEF Candidates

(* A page has the first candidates: none is left out before one of them,   *)
(* and it has one if there is any.                                         *)
LEMMA PageIsFirst ==
  ASSUME NEW start \in 0..Rows, NEW filter \in Filters
  PROVE  /\ Page(start, filter) \subseteq Candidates(start, filter)
         /\ \A r \in Page(start, filter), q \in Candidates(start, filter) :
              q < r => q \in Page(start, filter)
         /\ Candidates(start, filter) # {} => Page(start, filter) # {}
<1> DEFINE C         == Candidates(start, filter)
           Above(r) == {q \in C : q < r}
<1>1. C \in SUBSET (1..Rows) /\ Rows \in Nat /\ Limit \in Nat \ {0} /\ \A r \in C : r \in Nat
  <2>1. /\ C \subseteq Scanned(start, filter) /\ Scanned(start, filter) \subseteq 1..Rows
        /\ Rows \in Nat /\ Limit \in Nat \ {0}
    BY RequestBounds
  <2> HIDE DEF C
  <2> QED
    BY <2>1
<1>2. IsFiniteSet(C)
  <2>1. IsFiniteSet(1..Rows)
    BY <1>1, FS_Interval
  <2> QED
    BY <1>1, <2>1, FS_Subset
<1>3. Page(start, filter) = {r \in C : Cardinality(Above(r)) < Limit}
  BY DEF Page
<1> HIDE DEF C
<1>4. ASSUME NEW r
      PROVE  IsFiniteSet(Above(r)) /\ Cardinality(Above(r)) \in Nat
  <2>1. Above(r) \in SUBSET C
    OBVIOUS
  <2> QED
    BY <1>2, <2>1, FS_Subset, FS_CardinalityType
<1>5. ASSUME NEW r \in C, Cardinality(Above(r)) < Limit, NEW q \in C, q < r
      PROVE  Cardinality(Above(q)) < Limit
  <2>1. Above(q) \in SUBSET Above(r)
    <3>1. ASSUME NEW x \in C, x < q
          PROVE  x < r
      <4>1. x \in Nat /\ q \in Nat /\ r \in Nat
        BY <1>1
      <4> QED
        BY <1>5, <3>1, <4>1
    <3> QED
      BY <3>1
  <2>2. Cardinality(Above(q)) <= Cardinality(Above(r))
    BY <1>4, <2>1, FS_Subset
  <2>3. Cardinality(Above(q)) \in Nat /\ Cardinality(Above(r)) \in Nat
    BY <1>4
  <2> HIDE DEF Above
  <2> QED
    BY <1>1, <1>5, <2>2, <2>3
<1>6. ASSUME C # {}
      PROVE  \E r \in C : Cardinality(Above(r)) < Limit
  <2>1. PICK r \in C : \A q \in C : r <= q
    BY <1>1, <1>6, LeastExists
  <2>2. Above(r) = {}
    <3>1. ASSUME NEW q \in C
          PROVE  ~ (q < r)
      <4>1. q \in Nat /\ r \in Nat /\ r <= q
        BY <1>1, <2>1
      <4> QED
        BY <4>1
    <3> QED
      BY <3>1
  <2> QED
    BY <1>1, <2>2, FS_EmptySet
<1> QED
  BY <1>3, <1>5, <1>6 DEF C

(* How far a page goes: to the row of the cursor that follows it, or to    *)
(* the end of the feed if none does.                                       *)
Reached(start, filter) ==
  IF Continue(start, filter) = 0 THEN Rows ELSE Continue(start, filter)

(* Of the rows that a page passes, those that qualify are on it.           *)
LEMMA PageCovers ==
  ASSUME NEW start \in 0..Rows, NEW filter \in Filters
  PROVE  /\ Continue(start, filter) = 0 \/ Continue(start, filter) \in (start + 1)..Rows
         /\ Page(start, filter) \subseteq (start + 1)..Reached(start, filter)
         /\ \A r \in (start + 1)..Reached(start, filter) :
              Shown(r, filter) <=> r \in Page(start, filter)
<1> DEFINE C    == Candidates(start, filter)
           page == Page(start, filter)
           H    == Horizon(start, filter)
<1>1. /\ Rows \in Nat \ {0} /\ Limit \in Nat \ {0} /\ BatchRows * Batches \in Nat \ {0}
      /\ start \in Nat /\ H \in start..Rows /\ Scanned(start, filter) = (start + 1)..H
      /\ C = {r \in (start + 1)..H : Shown(r, filter)}
  BY RequestBounds DEF Candidates
<1>2. /\ page \subseteq C /\ \A r \in page, q \in C : q < r => q \in page
      /\ C # {} => page # {}
  BY PageIsFirst
<1>3. CASE C # page
  <2>1. page \in SUBSET (1..Rows) /\ page # {}
    BY <1>1, <1>2, <1>3
  <2>2. Continue(start, filter) = Max(page)
    BY <1>3 DEF Continue
  <2>3. Max(page) \in page /\ \A y \in page : y <= Max(page)
    BY <2>1, LastRow
  <2> DEFINE last == Max(page)
  <2>4. last \in (start + 1)..H /\ last \in (start + 1)..Rows /\ last # 0
    BY <1>1, <1>2, <2>3
  <2>5. Reached(start, filter) = last
    BY <2>2, <2>4 DEF Reached
  <2> HIDE DEF last, page, C, H
  <2>6. ASSUME NEW r \in (start + 1)..last, Shown(r, filter)
        PROVE  r \in page
    <3>1. r \in C
      BY <1>1, <2>4, <2>6
    <3>2. r = last \/ r < last
      BY <1>1, <2>4
    <3> QED
      BY <1>2, <2>3, <3>1, <3>2 DEF last
  <2>7. page \subseteq (start + 1)..last /\ \A r \in page : Shown(r, filter)
    BY <1>1, <1>2, <2>3, <2>4 DEF last
  <2> QED
    BY <2>2, <2>4, <2>5, <2>6, <2>7 DEF page, last
<1>4. CASE C = page
  <2> DEFINE goesOn == /\ filter = "eligible"
                       /\ Cardinality(Scanned(start, filter)) = BatchRows * Batches
  <2>1. Continue(start, filter) = IF goesOn THEN start + BatchRows * Batches ELSE 0
    BY <1>4 DEF Continue
  <2>2. Cardinality((start + 1)..H) = H - start
    <3> DEFINE a == start + 1
    <3>1. a \in Int /\ H \in Int /\ (a > H => H - start = 0) /\ H - a + 1 = H - start
      BY <1>1
    <3> HIDE DEF a, H
    <3>2. Cardinality(a..H) = IF a > H THEN 0 ELSE H - a + 1
      BY <3>1, FS_Interval
    <3> QED
      BY <3>1, <3>2 DEF a
  <2>3. CASE goesOn
    <3>1. H = start + BatchRows * Batches
      BY <1>1, <2>2, <2>3
    <3>2. Continue(start, filter) = H /\ H \in (start + 1)..Rows /\ H # 0
      BY <1>1, <2>1, <2>3, <3>1
    <3>3. Reached(start, filter) = H
      BY <3>2 DEF Reached
    <3> QED
      BY <1>1, <1>4, <3>2, <3>3
  <2>4. CASE ~ goesOn
    <3>1. H = Rows
      <4>1. CASE filter = "eligible"
        <5>1. H - start # BatchRows * Batches
          BY <1>1, <2>2, <2>4, <4>1
        <5> QED
          BY <1>1, <4>1, <5>1 DEF Horizon, Size
      <4>2. CASE filter = "all"
        <5> SUFFICES ASSUME H # Rows
                     PROVE  FALSE
          OBVIOUS
        <5>1. H = start + Limit + 1
          BY <1>1, <4>2 DEF Horizon, Size
        <5>2. C = (start + 1)..H /\ H \in C
          BY <1>1, <4>2, <5>1 DEF Shown
        <5>3. {q \in C : q < H} = (start + 1)..(start + Limit)
          BY <1>1, <5>1, <5>2
        <5>4. Cardinality({q \in C : q < H}) = Limit
          <6> DEFINE a == start + 1
                     b == start + Limit
          <6>1. a \in Int /\ b \in Int /\ ~ (a > b) /\ b - a + 1 = Limit
            BY <1>1
          <6> HIDE DEF a, b
          <6>2. Cardinality(a..b) = b - a + 1
            BY <6>1, FS_Interval
          <6>3. Cardinality(a..b) = Limit
            BY <6>1, <6>2
          <6> QED
            BY <5>3, <6>3 DEF a, b
        <5>5. Cardinality({q \in C : q < H}) < Limit
          BY <1>4, <5>2 DEF Page
        <5> QED
          BY <1>1, <5>4, <5>5
      <4> QED
        BY <4>1, <4>2 DEF Filters
    <3>2. Continue(start, filter) = 0 /\ Reached(start, filter) = H
      BY <2>1, <2>4, <3>1 DEF Reached
    <3> QED
      BY <1>1, <1>4, <3>2
  <2> QED
    BY <2>3, <2>4
<1> QED
  BY <1>3, <1>4

-----------------------------------------------------------------------------
(***************************************************************************)
(* Reading on.                                                             *)
(***************************************************************************)

FeedTypes ==
  /\ qualifies \subseteq 1..Rows /\ steady \subseteq 1..Rows
  /\ feed \in [filter : Filters \cup {"none"}, at : {"start", "reading"},
               cursor : {NoCursor} \cup [row : 1..Rows, filter : Filters]]

(* A cursor belongs to the filters of the page before; no page has a row   *)
(* that is not behind the reader.                                          *)
ReaderInv ==
  /\ feed.at = "start" => feed.cursor = NoCursor /\ pages = {}
  /\ feed.cursor # NoCursor => feed.cursor.filter = feed.filter
  /\ \A p \in pages : p \subseteq Behind

FeedInv == FeedTypes /\ ReaderInv /\ PagesCoverTheFeed

(* What is behind the reader ends at the row of the cursor.                *)
LEMMA BehindForm ==
  ASSUME FeedTypes, ReaderInv
  PROVE  /\ NoCursor.row = 0 /\ feed.cursor.row \in 0..Rows
         /\ feed.cursor = NoCursor <=> feed.cursor.row = 0
         /\ feed.at = "start" \/ feed.cursor # NoCursor => Behind = 1..feed.cursor.row
         /\ Behind \subseteq 1..Rows
<1>1. Rows \in Nat \ {0}
  BY InboxAssumption
<1>2. /\ NoCursor.row = 0 /\ feed.cursor.row \in 0..Rows
      /\ feed.cursor = NoCursor <=> feed.cursor.row = 0
  BY <1>1 DEF FeedTypes, NoCursor
<1>3. feed.at = "start" \/ feed.cursor # NoCursor => Behind = 1..feed.cursor.row
  BY <1>1, <1>2 DEF Behind, ReaderInv
<1>4. Behind \subseteq 1..Rows
  BY <1>1, <1>2 DEF Behind
<1> QED
  BY <1>2, <1>3, <1>4

(* A page is read: what it passes is behind the reader now.                *)
LEMMA ReadFeedKeeps ==
  ASSUME FeedInv, NEW filter \in Filters, ReadFeed(filter)
  PROVE  FeedInv'
<1> DEFINE start   == feed.cursor.row
           page    == Page(start, filter)
           next    == Continue(start, filter)
           reached == Reached(start, filter)
<1>1. /\ feed.at = "start" \/ feed.cursor # NoCursor
      /\ Belongs(feed.cursor, filter)
      /\ feed' = [filter |-> filter, cursor |-> Cursor(next, filter), at |-> "reading"]
      /\ pages' = pages \cup {page}
      /\ steady' = IF feed.at = "start" THEN 1..Rows ELSE steady
      /\ qualifies' = qualifies
  BY DEF ReadFeed
<1>2. /\ FeedTypes /\ ReaderInv /\ PagesCoverTheFeed /\ Rows \in Nat \ {0}
  BY InboxAssumption DEF FeedInv
<1>3. /\ start \in 0..Rows /\ Behind = 1..start /\ Behind \subseteq 1..Rows
      /\ NoCursor.row = 0
  BY <1>1, <1>2, BehindForm
<1>4. /\ next = 0 \/ next \in (start + 1)..Rows
      /\ page \subseteq (start + 1)..reached
      /\ \A r \in (start + 1)..reached : Shown(r, filter) <=> r \in page
      /\ reached = IF next = 0 THEN Rows ELSE next
  BY <1>3, PageCovers DEF Reached
<1>5. start <= reached /\ reached \in 1..Rows
  BY <1>2, <1>3, <1>4
<1> HIDE DEF start, page, next, reached
<1>6. /\ Cursor(next, filter) \in {NoCursor} \cup [row : 1..Rows, filter : Filters]
      /\ Cursor(next, filter) # NoCursor <=> next # 0
      /\ next # 0 => Cursor(next, filter).row = next /\ Cursor(next, filter).filter = filter
  BY <1>2, <1>3, <1>4 DEF Cursor, NoCursor
<1>7. FeedTypes'
  BY <1>1, <1>2, <1>6 DEF FeedTypes
<1>8. /\ feed'.at = "reading" /\ feed'.filter = filter /\ feed'.cursor = Cursor(next, filter)
  BY <1>1
<1>9. Behind' = 1..reached
  BY <1>4, <1>6, <1>8 DEF Behind
<1>10. ReaderInv'
  <2>1. \A p \in pages : p \subseteq 1..reached
    BY <1>2, <1>3, <1>5 DEF ReaderInv
  <2>2. page \subseteq 1..reached
    BY <1>3, <1>4
  <2> QED
    BY <1>1, <1>6, <1>8, <1>9, <2>1, <2>2 DEF ReaderInv
<1>11. ASSUME NEW p \in pages
       PROVE  p \cap page = {}
  BY <1>2, <1>3, <1>4 DEF ReaderInv
<1>12. \A p, q \in pages' : p = q \/ p \cap q = {}
  BY <1>1, <1>2, <1>11 DEF PagesCoverTheFeed
<1>13. ASSUME NEW row \in Behind' \cap steady'
       PROVE  Shown(row, filter)' <=> row \in UNION pages'
  <2>1. Shown(row, filter)' <=> Shown(row, filter)
    BY <1>1 DEF Shown
  <2>2. row \in UNION pages' <=> row \in page \/ row \in UNION pages
    BY <1>1
  <2>3. CASE row \in 1..start
    <3>1. feed.at # "start"
      BY <1>2, <1>3, <2>3 DEF Behind
    <3>2. feed.filter = filter
      BY <1>1, <1>2, <3>1 DEF ReaderInv, Belongs
    <3>3. row \in Behind \cap steady /\ row \notin page
      BY <1>1, <1>3, <1>4, <1>13, <2>3, <3>1
    <3> QED
      BY <1>2, <2>1, <2>2, <3>2, <3>3 DEF PagesCoverTheFeed
  <2>4. CASE row \in (start + 1)..reached
    <3>1. row \notin UNION pages
      BY <1>2, <1>3, <2>4 DEF ReaderInv
    <3> QED
      BY <1>4, <2>1, <2>2, <2>4, <3>1
  <2> QED
    BY <1>3, <1>5, <1>9, <1>13, <2>3, <2>4
<1>14. PagesCoverTheFeed'
  BY <1>8, <1>12, <1>13 DEF PagesCoverTheFeed
<1> QED
  BY <1>7, <1>10, <1>14 DEF FeedInv

(* Every step keeps the invariant; a decision takes its row out of steady. *)
LEMMA FeedStepKeeps == FeedInv /\ [InboxNext]_inboxVars => FeedInv'
<1> SUFFICES ASSUME FeedInv, [InboxNext]_inboxVars
             PROVE  FeedInv'
  OBVIOUS
<1>1. ASSUME NEW filter \in Filters, ReadFeed(filter)
      PROVE  FeedInv'
  BY <1>1, ReadFeedKeeps
<1>2. CASE Restart
  <2>1. /\ feed' = [filter |-> "none", cursor |-> NoCursor, at |-> "start"] /\ pages' = {}
        /\ UNCHANGED <<qualifies, steady>>
    BY <1>2 DEF Restart
  <2>2. Behind' = {} /\ feed'.at = "start" /\ feed'.cursor = NoCursor
    BY <2>1 DEF Behind
  <2>3. FeedTypes'
    BY <2>1 DEF FeedInv, FeedTypes
  <2> QED
    BY <2>1, <2>2, <2>3 DEF FeedInv, ReaderInv, PagesCoverTheFeed
<1>3. ASSUME NEW row \in 1..Rows, Decide(row)
      PROVE  FeedInv'
  <2>1. /\ qualifies' = (qualifies \ {row}) \cup ({row} \ qualifies)
        /\ steady' = steady \ {row} /\ UNCHANGED <<feed, pages>>
    BY <1>3 DEF Decide
  <2>2. Behind' = Behind
    BY <2>1 DEF Behind
  <2>3. FeedTypes' /\ ReaderInv'
    BY <2>1, <2>2 DEF FeedInv, FeedTypes, ReaderInv
  <2>4. \A r \in steady' : Shown(r, feed.filter)' <=> Shown(r, feed.filter)
    BY <2>1 DEF Shown
  <2>5. PagesCoverTheFeed'
    BY <2>1, <2>2, <2>4 DEF FeedInv, PagesCoverTheFeed
  <2> QED
    BY <2>3, <2>5 DEF FeedInv
<1>4. CASE UNCHANGED inboxVars
  BY <1>4 DEF inboxVars, FeedInv, FeedTypes, ReaderInv, PagesCoverTheFeed, Behind, Shown
<1> QED
  BY <1>1, <1>2, <1>3, <1>4 DEF InboxNext

(* list_opportunities: whatever short or empty pages there are, every row  *)
(* behind the reader that has qualified all along was on one page.         *)
THEOREM PagesAlwaysCoverTheFeed == InboxSpec => []PagesCoverTheFeed
<1>1. InboxInit => FeedInv
  BY DEF InboxInit, FeedInv, FeedTypes, ReaderInv, PagesCoverTheFeed, Behind
<1>2. FeedInv => PagesCoverTheFeed
  BY DEF FeedInv
<1> QED
  BY <1>1, <1>2, FeedStepKeeps, PTL DEF InboxSpec

-----------------------------------------------------------------------------
(***************************************************************************)
(* What decisions say (DecisionRules), for every profile, claim and        *)
(* history.                                                                *)
(***************************************************************************)

(* What turns out to be true of an opportunity whose claims are known: the *)
(* claims and, of what is unknown, anything.  Texts are known as far as    *)
(* they exist.                                                             *)
Completes(truth, claims) ==
  /\ \A f \in DOMAIN claims : f \in DOMAIN truth /\ truth[f] = claims[f]
  /\ DOMAIN truth \cap TextFields \subseteq DOMAIN claims

(* Without a warning, what a decision depends on is known.                 *)
LEMMA NoWarningMeansKnown ==
  ASSUME NEW profile, NEW claims, Warnings(profile, claims) = {}
  PROVE  /\ {"regions", "certifications"} \subseteq DOMAIN claims
         /\ DOMAIN profile.bounds # {} =>
              Money \subseteq DOMAIN claims /\ claims["currency"] = profile.currency
<1>1. "region_unknown" \notin Warnings(profile, claims)
      /\ "certifications_unknown" \notin Warnings(profile, claims)
      /\ MoneyWarnings(profile, claims) = {}
  BY DEF Warnings
<1>2. Known(claims, "regions") /\ Known(claims, "certifications")
  BY <1>1 DEF Warnings
<1>3. DOMAIN profile.bounds # {} =>
        Known(claims, "amount") /\ Known(claims, "currency") /\ claims["currency"] = profile.currency
  BY <1>1 DEF MoneyWarnings
<1> QED
  BY <1>2, <1>3 DEF Known, Money

(* evaluate_eligibility and rank_opportunity: a tender is recommended only *)
(* if nothing that is unknown about it, no other region, amount, currency  *)
(* or certificate, could bar the company, whatever turns out to be true.   *)
THEOREM RecommendationsNeverGuess ==
  ASSUME NEW profile, NEW claims, NEW day, Recommended(profile, claims, day),
         NEW truth, Completes(truth, claims)
  PROVE  HardFailures(profile, truth) = {}
<1>1. HardFailures(profile, claims) = {} /\ Warnings(profile, claims) = {}
  BY DEF Recommended, AllowsRecommendation
<1>2. /\ {"regions", "certifications"} \subseteq DOMAIN claims
      /\ DOMAIN profile.bounds # {} =>
           Money \subseteq DOMAIN claims /\ claims["currency"] = profile.currency
  BY <1>1, NoWarningMeansKnown
<1>3. Comparable(profile, truth) =>
        Comparable(profile, claims) /\ truth["amount"] = claims["amount"]
  BY <1>2 DEF Completes, Comparable, Money
<1>4. UNION {truth[f] : f \in DOMAIN truth \cap TextFields}
        = UNION {claims[f] : f \in DOMAIN claims \cap TextFields}
  BY DEF Completes
<1>5. ASSUME NEW code \in HardFailures(profile, truth)
      PROVE  code \in HardFailures(profile, claims)
  <2>1. CASE code = "region_not_served"
    BY <2>1, <1>2, <1>5 DEF HardFailures, Known, Completes
  <2>2. CASE code = "amount_below_minimum"
    BY <2>2, <1>3, <1>5 DEF HardFailures
  <2>3. CASE code = "amount_above_maximum"
    BY <2>3, <1>3, <1>5 DEF HardFailures
  <2>4. CASE code = "missing_certification"
    BY <2>4, <1>2, <1>5 DEF HardFailures, Known, Completes
  <2>5. CASE code = "explicit_exclusion"
    BY <2>5, <1>4, <1>5 DEF HardFailures
  <2> QED
    BY <2>1, <2>2, <2>3, <2>4, <2>5, <1>5 DEF HardFailures
<1> QED
  BY <1>1, <1>5

(* Upstream comes first, and money as a whole.                             *)
LEMMA DomainOfClaims ==
  ASSUME NEW upstream, NEW view
  PROVE  LET claims == Claims(upstream, view)
         IN  /\ DOMAIN claims \ Money = (DOMAIN upstream \cup DOMAIN view) \ Money
             /\ \A f \in DOMAIN upstream \ Money : claims[f] = upstream[f]
             /\ \A f \in DOMAIN view \ (Money \cup DOMAIN upstream) : claims[f] = view[f]
             /\ Money \subseteq DOMAIN upstream =>
                  \A f \in Money : f \in DOMAIN claims /\ claims[f] = upstream[f]
             /\ Money \subseteq DOMAIN claims <=>
                  \/ Money \subseteq DOMAIN upstream
                  \/ Money \cap DOMAIN upstream = {} /\ Money \subseteq DOMAIN view
<1> DEFINE up     == [x \in DOMAIN upstream \ Money |-> upstream[x]]
           down   == [x \in DOMAIN view \ Money |-> view[x]]
           others == Over(up, down)
           money  == CASE Money \subseteq DOMAIN upstream -> Only(upstream, Money)
                       [] Money \cap DOMAIN upstream = {} /\ Money \subseteq DOMAIN view ->
                            Only(view, Money)
                       [] OTHER -> Only(upstream, {})
<1>1. Claims(upstream, view) = Over(others, money)
  BY DEF Claims
<1>2. /\ DOMAIN others = (DOMAIN upstream \cup DOMAIN view) \ Money
      /\ \A f \in DOMAIN upstream \ Money : others[f] = upstream[f]
      /\ \A f \in DOMAIN view \ (Money \cup DOMAIN upstream) : others[f] = view[f]
  BY DEF Over
<1>3. /\ Money \subseteq DOMAIN upstream =>
           DOMAIN money = Money /\ \A f \in Money : money[f] = upstream[f]
      /\ Money \cap DOMAIN upstream = {} /\ Money \subseteq DOMAIN view => DOMAIN money = Money
      /\ ~ Money \subseteq DOMAIN upstream
           /\ ~ (Money \cap DOMAIN upstream = {} /\ Money \subseteq DOMAIN view) => DOMAIN money = {}
      /\ DOMAIN money \subseteq Money
  BY DEF Only, Money
<1>4. Money # {}
  BY DEF Money
<1> HIDE DEF others, money
<1> QED
  BY <1>1, <1>2, <1>3, <1>4 DEF Over

(* _prepared_opportunity: what documents add takes nothing back: not a     *)
(* claim of upstream, and not a failure that upstream alone causes.        *)
THEOREM DocumentsTakeNothingBack ==
  ASSUME NEW profile, NEW upstream, NEW view, NEW nothing, DOMAIN nothing = {}
  PROVE  /\ \A f \in DOMAIN upstream \ Money : Claims(upstream, view)[f] = upstream[f]
         /\ HardFailures(profile, Claims(upstream, nothing))
              \subseteq HardFailures(profile, Claims(upstream, view))
<1> DEFINE alone  == Claims(upstream, nothing)
           claims == Claims(upstream, view)
<1>1. /\ DOMAIN alone \ Money = DOMAIN upstream \ Money
      /\ \A f \in DOMAIN upstream \ Money :
           f \in DOMAIN claims /\ claims[f] = upstream[f] /\ alone[f] = upstream[f]
  BY DomainOfClaims
<1>2. Money \subseteq DOMAIN alone =>
        Money \subseteq DOMAIN claims /\ \A f \in Money : claims[f] = alone[f]
  <2>1. Money # {}
    BY DEF Money
  <2> QED
    BY <2>1, DomainOfClaims
<1> HIDE DEF alone, claims
<1>3. /\ {"regions", "certifications"} \cap Money = {} /\ TextFields \cap Money = {}
      /\ "amount" \in Money /\ "currency" \in Money
  BY DEF Money, TextFields
<1>4. Comparable(profile, alone) =>
        Comparable(profile, claims) /\ claims["amount"] = alone["amount"]
  BY <1>2, <1>3 DEF Comparable
<1>5. UNION {alone[f] : f \in DOMAIN alone \cap TextFields}
        \subseteq UNION {claims[f] : f \in DOMAIN claims \cap TextFields}
  BY <1>1, <1>3
<1>6. ASSUME NEW code \in HardFailures(profile, alone)
      PROVE  code \in HardFailures(profile, claims)
  <2>1. CASE code = "region_not_served"
    BY <2>1, <1>1, <1>3, <1>6 DEF HardFailures, Known
  <2>2. CASE code = "amount_below_minimum"
    BY <2>2, <1>4, <1>6 DEF HardFailures
  <2>3. CASE code = "amount_above_maximum"
    BY <2>3, <1>4, <1>6 DEF HardFailures
  <2>4. CASE code = "missing_certification"
    BY <2>4, <1>1, <1>3, <1>6 DEF HardFailures, Known
  <2>5. CASE code = "explicit_exclusion"
    BY <2>5, <1>5, <1>6 DEF HardFailures
  <2> QED
    BY <2>1, <2>2, <2>3, <2>4, <2>5, <1>6 DEF HardFailures
<1>7. \A f \in DOMAIN upstream \ Money : claims[f] = upstream[f]
  BY <1>1
<1> QED
  BY <1>6, <1>7 DEF alone, claims

(* The latest of three times.                                              *)
LEMMA MaxOfThree ==
  ASSUME NEW a \in Int, NEW b \in Int, NEW c \in Int, NEW d \in Int
  PROVE  Max({a, b, c}) <= d <=> a <= d /\ b <= d /\ c <= d
<1>1. \E x \in {a, b, c} : \A y \in {a, b, c} : x >= y
  OBVIOUS
<1>2. /\ Max({a, b, c}) \in {a, b, c}
      /\ \A y \in {a, b, c} : Max({a, b, c}) >= y
  BY <1>1 DEF Max
<1> QED
  BY <1>2

(* Versions of whatever names, records, claims and enrichments.            *)
Versions(Ids, Records, Claimed, Enrichments) ==
  [id : Ids, record : Records, effective : Int, observed : Int, created : Int,
   claims : Claimed, enrichment : SUBSET Enrichments]

(* evaluation/replay.py: nothing that came later is put into a past        *)
(* decision.  A replay of a day equals the replay of what there was on     *)
(* that day: without the history, enrichments and companies of later days. *)
THEOREM ReplaysHaveNoHindsight ==
  ASSUME NEW Ids, NEW Records, NEW Claimed, NEW Enrichments, NEW companies, NEW day \in Int,
         NEW history \in SUBSET Versions(Ids, Records, Claimed, Enrichments),
         \A v, w \in history : v.id = w.id => v = w
  PROVE  ReplayAt(history, companies, day) =
         ReplayAt(Past(history, day), Then(companies, day), day)
<1> DEFINE past == {AsOf(v, day) : v \in {w \in history : ThereOn(w, day)}}
           there == {p \in companies : p.available <= day}
<1>1. ProfilesAt(there, day) = ProfilesAt(companies, day)
  BY DEF ProfilesAt
<1>2. ASSUME NEW v \in history
      PROVE  /\ AsOf(v, day).id = v.id /\ AsOf(v, day).record = v.record
             /\ AsOf(v, day).effective = v.effective /\ AsOf(v, day).observed = v.observed
             /\ AsOf(v, day).created = v.created /\ AsOf(v, day).claims = v.claims
             /\ AsOf(v, day).enrichment = {e \in v.enrichment : e.available <= day}
  BY DEF AsOf, Versions
<1>3. ASSUME NEW v \in history
      PROVE  /\ Available(v, day) <=> ThereOn(v, day)
             /\ Available(AsOf(v, day), day) <=> ThereOn(v, day)
             /\ Enriched(AsOf(v, day), day) = Enriched(v, day)
  <2>1. {e \in AsOf(v, day).enrichment : e.available <= day}
          = {e \in v.enrichment : e.available <= day}
    BY <1>2
  <2>2. /\ v.effective \in Int /\ v.observed \in Int /\ v.created \in Int
    BY DEF Versions
  <2>3. Available(v, day) <=> ThereOn(v, day)
    BY <2>2, MaxOfThree DEF Available, ThereOn
  <2>4. Available(AsOf(v, day), day) <=> Available(v, day)
    BY <1>2 DEF Available
  <2>5. Enriched(AsOf(v, day), day) = Enriched(v, day)
    <3> DEFINE With(claims, added) ==
                 IF added = {} THEN claims ELSE Over((CHOOSE e \in added : TRUE).claims, claims)
               InTime(x) == {e \in x.enrichment : e.available <= day}
    <3>1. \A x : Enriched(x, day) = With(x.claims, InTime(x))
      BY DEF Enriched
    <3>2. InTime(AsOf(v, day)) = InTime(v) /\ AsOf(v, day).claims = v.claims
      BY <1>2, <2>1
    <3> HIDE DEF With, InTime
    <3> QED
      BY <3>1, <3>2
  <2> QED
    BY <2>3, <2>4, <2>5
<1>4. ASSUME NEW v \in history, NEW w \in history
      PROVE  Before(AsOf(v, day), AsOf(w, day)) <=> Before(v, w)
  BY <1>2 DEF Before
<1>5. ASSUME NEW v \in history, NEW w \in history, AsOf(v, day) = AsOf(w, day)
      PROVE  v = w
  BY <1>2, <1>5
<1>6. VisibleVersions(past, day) = {AsOf(v, day) : v \in VisibleVersions(history, day)}
  <2>1. {u \in past : Available(u, day)} = past
    BY <1>3
  <2>2. {v \in history : Available(v, day)} = {v \in history : ThereOn(v, day)}
    BY <1>3
  <2>3. ASSUME NEW v \in history, ThereOn(v, day)
        PROVE  AsOf(v, day) \in VisibleVersions(past, day) <=> v \in VisibleVersions(history, day)
    <3>1. (\A u \in past \ {AsOf(v, day)} :
              u.record = AsOf(v, day).record => Before(u, AsOf(v, day)))
            <=> \A w \in {x \in history : ThereOn(x, day)} \ {v} :
                  w.record = v.record => Before(w, v)
      BY <1>2, <1>4, <1>5, <2>3
    <3> QED
      BY <3>1, <2>1, <2>2, <2>3 DEF VisibleVersions
  <2>4. VisibleVersions(past, day) \subseteq past
        /\ VisibleVersions(history, day) \subseteq {v \in history : ThereOn(v, day)}
    BY <2>1, <2>2 DEF VisibleVersions
  <2> QED
    BY <2>3, <2>4
<1>7. VisibleVersions(history, day) \subseteq history
  BY DEF VisibleVersions
<1> DEFINE Row(p, v) == [profile  |-> p.id, version |-> v.id,
                         decision |-> DecisionFor(p.profile, Enriched(v, day), day)]
<1>8. (\E u \in VisibleVersions(past, day) : ~ Rankable(Enriched(u, day), day))
        <=> \E v \in VisibleVersions(history, day) : ~ Rankable(Enriched(v, day), day)
  BY <1>3, <1>6, <1>7
<1>9. \A p, v : v \in history => Row(p, AsOf(v, day)) = Row(p, v)
  BY <1>2, <1>3, Zenon
<1>10. ASSUME NEW vs, NEW ps
       PROVE  ReplayAt(vs, ps, day) =
              IF \E v \in VisibleVersions(vs, day) : ~ Rankable(Enriched(v, day), day) THEN {}
              ELSE {Row(p, v) : p \in ProfilesAt(ps, day), v \in VisibleVersions(vs, day)}
  BY DEF ReplayAt
<1> HIDE DEF past, there, Row
<1>11. {Row(p, v) : p \in ProfilesAt(there, day), v \in VisibleVersions(past, day)}
         = {Row(p, v) : p \in ProfilesAt(companies, day), v \in VisibleVersions(history, day)}
  BY <1>1, <1>6, <1>7, <1>9, SMT
<1>12. ReplayAt(history, companies, day) = ReplayAt(past, there, day)
  <2> DEFINE Fails(vs) == \E v \in VisibleVersions(vs, day) : ~ Rankable(Enriched(v, day), day)
             Outcomes(vs, ps) ==
               {Row(p, v) : p \in ProfilesAt(ps, day), v \in VisibleVersions(vs, day)}
  <2>1. \A vs, ps : ReplayAt(vs, ps, day) = IF Fails(vs) THEN {} ELSE Outcomes(vs, ps)
    BY <1>10
  <2>2. (Fails(past) <=> Fails(history)) /\ Outcomes(past, there) = Outcomes(history, companies)
    BY <1>8, <1>11
  <2> HIDE DEF Fails, Outcomes
  <2> QED
    BY <2>1, <2>2
<1> QED
  BY <1>12 DEF past, there, Past, Then

(* docs/RANKING.md, the property of the rules as the runs check it, for    *)
(* every set of upstream records, extractions, companies and days and      *)
(* every outcome of what is unknown: no recommendation rests on a guess,   *)
(* and no extraction takes back what upstream says.                        *)
THEOREM RecommendationsAreCertain == tenders \subseteq Tenders => RecommendationIsCertain
<1> SUFFICES ASSUME NEW upstream \in Tenders, NEW profile \in Bidders, NEW day \in Days,
                    NEW view \in ViewsOf(upstream)
             PROVE  LET claims == Claims(upstream, view)
                        alone  == Claims(upstream, Only(view, {}))
                    IN  /\ Recommended(profile, claims, day) =>
                             \A outcome \in Completions :
                               HardFailures(profile, Over(claims, outcome)) = {}
                        /\ HardFailures(profile, alone) \subseteq HardFailures(profile, claims)
                        /\ \A f \in DOMAIN upstream \ Money : claims[f] = upstream[f]
  BY DEF RecommendationIsCertain
<1> DEFINE claims == Claims(upstream, view)
<1>1. ASSUME NEW outcome \in Completions
      PROVE  Completes(Over(claims, outcome), claims)
  <2> HIDE DEF claims
  <2> QED
    BY <1>1, TendersAssumption DEF Completes, Over
<1>2. Recommended(profile, claims, day) =>
        \A outcome \in Completions : HardFailures(profile, Over(claims, outcome)) = {}
  BY <1>1, RecommendationsNeverGuess
<1>3. DOMAIN Only(view, {}) = {}
  BY DEF Only
<1>4. /\ HardFailures(profile, Claims(upstream, Only(view, {}))) \subseteq HardFailures(profile, claims)
      /\ \A f \in DOMAIN upstream \ Money : claims[f] = upstream[f]
  BY <1>3, DocumentsTakeNothingBack
<1> QED
  BY <1>2, <1>4

(* The same for replays: for every set of histories, companies and days,   *)
(* where a name names one version, no replay knows what came later.        *)
THEOREM NoReplayHasHindsight ==
  ASSUME NEW Ids, NEW Records, NEW Claimed, NEW Enrichments,
         histories \subseteq Histories \cap SUBSET Versions(Ids, Records, Claimed, Enrichments)
  PROVE  NoHindsight
<1> SUFFICES ASSUME NEW history \in histories, NEW present \in BidderHistories, NEW day \in ReplayDays
             PROVE  ReplayAt(history, present, day) =
                    ReplayAt(Past(history, day), Then(present, day), day)
  BY DEF NoHindsight
<1>1. /\ history \in SUBSET Versions(Ids, Records, Claimed, Enrichments)
      /\ \A v, w \in history : v.id = w.id => v = w
      /\ day \in Int
  BY TendersAssumption
<1> QED
  BY <1>1, ReplaysHaveNoHindsight

=============================================================================
