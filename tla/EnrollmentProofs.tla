--------------------------- MODULE EnrollmentProofs ---------------------------
(***************************************************************************)
(* Proofs about enrollment, for any operators, envelopes, trust stores and *)
(* file names, any limit of entries and any longest lease.                 *)
(***************************************************************************)
EXTENDS Enrollment, TLAPS

-----------------------------------------------------------------------------
(* The replay of an episode *)

\* Unfolding of the recursive definition: an episode has at most five steps.
LEMMA WalkSteps ==
    ASSUME NEW steps, NEW case, Len(steps) \in 1..MaxSteps
    PROVE  \E w : /\ w[0] = Start
                  /\ \A n \in 1..Len(steps) : w[n] = Advance(w[n-1], steps[n], case)
                  /\ Walk(steps, case) = w[Len(steps)]
<1> DEFINE L == Len(steps)
           A1 == Advance(Start, steps[1], case)
           A2 == Advance(A1, steps[2], case)
           A3 == Advance(A2, steps[3], case)
           A4 == Advance(A3, steps[4], case)
           A5 == Advance(A4, steps[5], case)
           F == [n \in 0..L |-> IF n = 0 THEN Start ELSE IF n = 1 THEN A1
                   ELSE IF n = 2 THEN A2 ELSE IF n = 3 THEN A3 ELSE IF n = 4 THEN A4 ELSE A5]
           IsWalk(g) == g = [n \in 0..L |-> IF n = 0 THEN Start
                                            ELSE Advance(g[n-1], steps[n], case)]
           W == CHOOSE g : IsWalk(g)
<1>1. Walk(steps, case) = W[L]
  BY DEF Walk
<1>2. L \in 1..5
  BY DEF MaxSteps
<1> HIDE DEF L
<1>3. IsWalk(F)
  BY <1>2
<1> HIDE DEF F, IsWalk
<1>4. IsWalk(W)
  BY <1>3
<1> HIDE DEF W
<1>5. \A n \in 0..L : W[n] = IF n = 0 THEN Start ELSE Advance(W[n-1], steps[n], case)
  BY <1>4 DEF IsWalk
<1>6. 0 \in 0..L /\ \A n \in 1..L : n \in 0..L /\ n # 0
  BY <1>2
<1>7. /\ W[0] = Start
      /\ \A n \in 1..L : W[n] = Advance(W[n-1], steps[n], case)
  BY <1>5, <1>6
<1> QED  BY <1>1, <1>7 DEF L

\* One turn that was recorded as it happened, nothing refused so far: the
\* answer was a target to look at, or the decision with all of them seen.
LEMMA AdvanceFacts ==
    ASSUME NEW w, NEW step, NEW case, IsAction(step.raw), w.violations \in Nat,
           NEW x, x = Advance(w, step, case)
    PROVE  /\ x.violations \in Nat
           /\ x.violations = 0 => w.violations = 0
           /\ x.consistent => w.consistent /\ ~w.finished
           /\ x.violations = 0 /\ x.finished =>
                /\ step.raw = Decide(x.decision)
                /\ case.targets \subseteq w.observed
           /\ x.violations = 0 /\ ~x.finished =>
                /\ step.raw.arg \in case.targets /\ step.raw = Inspect(step.raw.arg)
                /\ x.observed = w.observed \cup {step.raw.arg}
<1> DEFINE reply == Reply(w, step.raw, case)
<1>1. /\ x.observed = w.observed \cup (IF reply = "reading" THEN {step.raw.arg} ELSE {})
      /\ x.violations = w.violations + (IF Accepted(reply) THEN 0 ELSE 1)
      /\ x.finished = (reply = "recorded")
      /\ x.decision = (IF reply = "recorded" THEN step.raw.arg ELSE w.decision)
      /\ x.consistent => w.consistent /\ ~w.finished
  BY DEF Advance
<1>2. /\ reply = "recorded" => /\ step.raw = Decide(step.raw.arg)
                               /\ case.targets \subseteq w.observed
      /\ reply = "reading" => /\ step.raw = Inspect(step.raw.arg)
                              /\ step.raw.arg \in case.targets
  BY DEF IsAction, Garbled, Inspect, Decide, Reply
<1> HIDE DEF reply
<1>3. Accepted(reply) <=> reply = "recorded" \/ reply = "reading"
  BY DEF Accepted
<1>4. /\ x.violations \in Nat /\ (x.violations = 0 => w.violations = 0)
      /\ x.violations = 0 => Accepted(reply)
  BY <1>1
<1>5. ASSUME x.violations = 0, x.finished
      PROVE  step.raw = Decide(x.decision) /\ case.targets \subseteq w.observed
  BY <1>1, <1>2, <1>5
<1>6. ASSUME x.violations = 0, ~x.finished
      PROVE  /\ step.raw.arg \in case.targets /\ step.raw = Inspect(step.raw.arg)
             /\ x.observed = w.observed \cup {step.raw.arg}
  BY <1>1, <1>2, <1>3, <1>4, <1>6
<1> QED  BY <1>1, <1>4, <1>5, <1>6

\* An episode the replay accepts passed its scenario: it looked at every
\* target and at nothing else, then said what was expected.
LEMMA ReplaySound ==
    ASSUME NEW ep, NEW case, replay(ep, case),
           IsList(ep.steps),
           \A n \in DOMAIN ep.steps : IsAction(ep.steps[n].raw)
    PROVE  Passed(Raws(ep), case)
<1> DEFINE s == ep.steps
           L == Len(s)
<1>1. /\ L \in 1..5 /\ L \in 1..MaxSteps
      /\ DOMAIN s = 1..L
      /\ \A n \in 1..L : IsAction(s[n].raw)
  BY DEF replay, MaxSteps, IsList
<1>2. PICK w : /\ w[0] = Start
               /\ \A n \in 1..L : w[n] = Advance(w[n-1], s[n], case)
               /\ Walk(s, case) = w[L]
  BY <1>1, WalkSteps
<1> DEFINE Clean(n) == w[n].consistent /\ w[n].violations = 0 /\ ~w[n].finished
           Seen(n) == {s[m].raw : m \in 1..n}
           Looked(n) == w[n].violations \in Nat /\
             (Clean(n) => /\ w[n].observed \subseteq case.targets
                          /\ Seen(n) = {Inspect(t) : t \in w[n].observed})
<1>3. Looked(0)
  BY <1>2 DEF Start
<1>4. ASSUME NEW n \in 1..L, Looked(n-1)
      PROVE  Looked(n)
  <2>1. w[n] = Advance(w[n-1], s[n], case) /\ IsAction(s[n].raw) /\ w[n-1].violations \in Nat
    BY <1>1, <1>2, <1>4
  <2>2. w[n].violations \in Nat
    BY <2>1, AdvanceFacts
  <2>3. ASSUME Clean(n)
        PROVE  /\ w[n].observed \subseteq case.targets
               /\ Seen(n) = {Inspect(t) : t \in w[n].observed}
    <3>1. /\ Clean(n-1)
          /\ s[n].raw.arg \in case.targets /\ s[n].raw = Inspect(s[n].raw.arg)
          /\ w[n].observed = w[n-1].observed \cup {s[n].raw.arg}
      BY <2>1, <2>3, AdvanceFacts
    <3>2. 1..n = (1..(n-1)) \cup {n}
      OBVIOUS
    <3>3. Seen(n) = Seen(n-1) \cup {s[n].raw}
      BY <3>2
    <3>4. /\ w[n-1].observed \subseteq case.targets
          /\ Seen(n-1) = {Inspect(t) : t \in w[n-1].observed}
      BY <1>4, <3>1
    <3> HIDE DEF Seen
    <3> QED  BY <3>1, <3>3, <3>4
  <2> QED  BY <2>2, <2>3
<1> HIDE DEF Looked
<1>5. Looked(L-1) /\ Looked(L)
  <2>1. L >= 1 => Looked(1)  BY <1>3, <1>4
  <2>2. L >= 2 => Looked(2)  BY <2>1, <1>4, <1>1
  <2>3. L >= 3 => Looked(3)  BY <2>2, <1>4, <1>1
  <2>4. L >= 4 => Looked(4)  BY <2>3, <1>4, <1>1
  <2>5. L >= 5 => Looked(5)  BY <2>4, <1>4, <1>1
  <2>6. L = 1 \/ L = 2 \/ L = 3 \/ L = 4 \/ L = 5
    BY <1>1
  <2> HIDE DEF L
  <2> QED  BY <1>3, <2>1, <2>2, <2>3, <2>4, <2>5, <2>6
<1>6. /\ L \in 1..L /\ w[L] = Advance(w[L-1], s[L], case)
      /\ IsAction(s[L].raw) /\ w[L-1].violations \in Nat
  <2>1. L \in 1..L
    BY <1>1
  <2>2. w[L-1].violations \in Nat
    BY <1>5 DEF Looked
  <2> QED  BY <1>1, <1>2, <2>1, <2>2
<1>7. /\ w[L].consistent
      /\ w[L].violations = 0 /\ w[L].finished
      /\ w[L].decision = case.expected
  <2>1. w[L].consistent /\ Outcome(w[L], case) = "PASS"
    BY <1>2 DEF replay
  <2>2. w[L].violations \in Nat
    BY <1>5 DEF Looked
  <2> HIDE DEF L
  <2> QED  BY <2>1, <2>2 DEF Outcome
<1>8. /\ Clean(L-1)
      /\ s[L].raw = Decide(case.expected)
      /\ case.targets \subseteq w[L-1].observed
  BY <1>7, <1>6, AdvanceFacts
<1>9. Seen(L-1) = {Inspect(t) : t \in case.targets}
  <2>1. /\ w[L-1].observed \subseteq case.targets
        /\ Seen(L-1) = {Inspect(t) : t \in w[L-1].observed}
    BY <1>5, <1>8 DEF Looked
  <2>2. w[L-1].observed = case.targets
    BY <1>8, <2>1
  <2> QED  BY <2>1, <2>2
<1>10. /\ Raws(ep) = [n \in 1..L |-> s[n].raw]
       /\ Len(Raws(ep)) = L
  BY <1>1 DEF Raws
<1>11. Raws(ep)[L] = s[L].raw /\ \A m \in 1..(L-1) : Raws(ep)[m] = s[m].raw
  BY <1>1, <1>10
<1>12. {Raws(ep)[m] : m \in 1..(L-1)} = Seen(L-1)
  BY <1>11
<1> QED  BY <1>1, <1>8, <1>9, <1>10, <1>11, <1>12 DEF Passed

\* A passport that verifies is worth what it says.
LEMMA PassportsAreSound ==
    ASSUME NEW e \in Envelopes, ReplayConsistent[e]
    PROVE  Sound(Signed[e].passport)
<1> DEFINE p == Signed[e].passport
<1>1. verify_object(p)
  BY DEF ReplayConsistent
<1>2. \A i \in DOMAIN Cases : Passed(Raws(p.episodes[i]), Cases[i])
  BY <1>1, ReplaySound, SignedAssumption DEF verify_object, SignedAssumption
<1>3. DOMAIN Cases = DOMAIN p.certificate.evidenceIds
  <2>1. Len(p.certificate.evidenceIds) = Len(Cases)
    BY <1>1 DEF verify_object
  <2>2. IsList(p.certificate.evidenceIds) /\ IsList(Cases)
    BY <1>1, SignedAssumption DEF SignedAssumption, verify_object
  <2>3. /\ DOMAIN Cases = 1..Len(Cases)
        /\ DOMAIN p.certificate.evidenceIds = 1..Len(p.certificate.evidenceIds)
    BY <2>2 DEF IsList
  <2> QED  BY <2>1, <2>3
<1>4. ASSUME NEW i \in DOMAIN Cases, NEW j \in DOMAIN Cases, p.episodes[i].id = p.episodes[j].id
      PROVE  i = j
  BY <1>1, <1>4, <1>3 DEF verify_object, DistinctEvidence
<1> QED  BY <1>2, <1>4 DEF Sound

-----------------------------------------------------------------------------
(* The inductive invariant *)

Labels == {Signed[e].passport.model : e \in Envelopes} \cup {"edited"}

Entry == [env : Envelopes, model : Labels, reviewedAt : 0..MaxTime, expiresAt : Int,
          state : {"APPROVED_INSPECTION", "REVOKED"}]

RegistryFile == [kind : {"none", "broken", "registry"}, entries : Seq(Entry)]

CommandRecord == [out : NewNames \cup {"none"}, file : RegistryFile,
                  env : SUBSET Envelopes, revoked : SUBSET Envelopes]

Types ==
    /\ file \in [Names -> RegistryFile]
    /\ trust \in Trusts
    /\ cmd \in [Operators -> CommandRecord]
    /\ now \in 0..MaxTime
    /\ edits \in 0..MaxEdits
    /\ reviews \subseteq [env : Envelopes, at : 0..MaxTime]
    /\ lineage \in [Names -> SUBSET Envelopes]

Review(en) == [env |-> en.env, at |-> en.reviewedAt]

(* What is about to be written is valid, and a new approval is its last.   *)
CommandOK(c) ==
    c = NoCommand \/ /\ c.out \in NewNames
                     /\ validate_registry(c.file)
                     /\ \A e \in c.env : /\ Len(c.file.entries) # 0
                                         /\ c.file.entries[Len(c.file.entries)].env = e

(* What the commands have written to its end is valid. *)
WrittenValid ==
    /\ \A f \in NewNames : file[f].kind = "registry" => validate_registry(file[f])
    /\ \A o \in Operators : CommandOK(cmd[o])

(* The review of every approval given is still where it was written. *)
Written(a) ==
    \E f \in NewNames : \E i \in DOMAIN file[f].entries : Review(file[f].entries[i]) = a

ReviewsRemain == \A a \in reviews : Written(a)

(* A revoked envelope has a revoked entry. *)
Holds(r, gone) ==
    \A e \in gone : \E i \in DOMAIN r.entries :
        r.entries[i].env = e /\ r.entries[i].state = "REVOKED"

(* Every entry has been reviewed, but those of the envelopes in new, which *)
(* can only be the last.                                                   *)
Reviewed(r, new, R) ==
    \A i \in DOMAIN r.entries :
        \/ Review(r.entries[i]) \in R
        \/ i = Len(r.entries) /\ r.entries[i].env \in new

FileUnedited(r, gone, R) == Holds(r, gone) /\ Reviewed(r, {}, R)
CommandUnedited(c, R) == Holds(c.file, c.revoked) /\ Reviewed(c.file, c.env, R)

(* Nothing in any registry, or about to be written, was made up by hand. *)
Unedited ==
    edits = 0 => /\ \A f \in Names : FileUnedited(file[f], lineage[f], reviews)
                 /\ \A o \in Operators : CommandUnedited(cmd[o], reviews)

IInv == Types /\ WrittenValid /\ ReviewsRemain /\ Unedited

-----------------------------------------------------------------------------

LEMMA LiveIsAName == "live" \in Names /\ "live" \notin NewNames /\ NewNames \subseteq Names
BY EnrollmentAssumption DEF EnrollmentAssumption, Names

\* The records that stand for nothing, and an empty registry.
LEMMA EmptyRecords ==
    /\ NoFile \in RegistryFile /\ NoFile.entries = <<>> /\ NoFile.kind # "registry"
    /\ CutOff \in RegistryFile /\ CutOff.entries = <<>> /\ CutOff.kind # "registry"
    /\ Registry(<<>>) \in RegistryFile /\ Registry(<<>>).entries = <<>>
    /\ validate_registry(Registry(<<>>))
    /\ NoCommand \in CommandRecord /\ CommandOK(NoCommand)
    /\ NoCommand.file = NoFile /\ NoCommand.env = {} /\ NoCommand.revoked = {}
<1>1. <<>> \in Seq(Entry)
  OBVIOUS
<1>2. /\ NoFile \in RegistryFile /\ NoFile.entries = <<>> /\ NoFile.kind # "registry"
      /\ CutOff \in RegistryFile /\ CutOff.entries = <<>> /\ CutOff.kind # "registry"
      /\ Registry(<<>>) \in RegistryFile /\ Registry(<<>>).entries = <<>>
      /\ Registry(<<>>).kind = "registry"
  BY <1>1 DEF NoFile, CutOff, Registry, RegistryFile
<1>3. validate_registry(Registry(<<>>))
  BY <1>2, EnrollmentAssumption DEF validate_registry, EnrollmentAssumption
<1>4. NoCommand \in CommandRecord
  BY <1>2 DEF NoCommand, CommandRecord
<1> QED  BY <1>2, <1>3, <1>4 DEF NoCommand, CommandOK

\* An empty registry has no entry to account for.
LEMMA EmptyUnedited ==
    ASSUME NEW r, r.entries = <<>>, NEW new, NEW R
    PROVE  Holds(r, {}) /\ Reviewed(r, new, R)
BY DEF Holds, Reviewed

\* More reviews cover what fewer do.
LEMMA ReviewsGrow ==
    ASSUME NEW R, NEW S, R \subseteq S, NEW r, NEW new, Reviewed(r, new, R)
    PROVE  Reviewed(r, new, S)
BY DEF Reviewed

\* Revoking changes the state of one entry and nothing else.
LEMMA RevokedRegistry ==
    ASSUME NEW r \in RegistryFile, NEW i \in DOMAIN r.entries
    PROVE  LET s == Revoked(r, i) IN
           /\ s \in RegistryFile
           /\ DOMAIN s.entries = DOMAIN r.entries /\ Len(s.entries) = Len(r.entries)
           /\ s.entries[i].state = "REVOKED"
           /\ \A j \in DOMAIN r.entries :
                /\ s.entries[j].env = r.entries[j].env
                /\ s.entries[j].reviewedAt = r.entries[j].reviewedAt
                /\ r.entries[j].state = "REVOKED" => s.entries[j].state = "REVOKED"
<1> DEFINE es == r.entries
           s == Revoked(r, i)
           fs == [es EXCEPT ![i].state = "REVOKED"]
<1>1. es \in Seq(Entry) /\ i \in 1..Len(es) /\ DOMAIN es = 1..Len(es)
  BY DEF RegistryFile
<1>2. s.entries = fs /\ s.kind = "registry" /\ s = [kind |-> "registry", entries |-> fs]
  BY DEF Revoked, Registry
<1> HIDE DEF s
<1>3. ASSUME NEW j \in 1..Len(es)
      PROVE  /\ fs[j] \in Entry
             /\ fs[j].env = es[j].env /\ fs[j].reviewedAt = es[j].reviewedAt
             /\ fs[j].expiresAt = es[j].expiresAt
             /\ fs[j].state = (IF i = j THEN "REVOKED" ELSE es[j].state)
  <2>1. es[j] \in Entry /\ fs[j] = IF i = j THEN [es[j] EXCEPT !.state = "REVOKED"] ELSE es[j]
    BY <1>1
  <2> QED  BY <2>1 DEF Entry
<1>4. fs \in Seq(Entry) /\ Len(fs) = Len(es) /\ DOMAIN fs = 1..Len(es)
  BY <1>1, <1>3
<1> HIDE DEF fs
<1>5. s \in RegistryFile
  BY <1>2, <1>4 DEF RegistryFile
<1> QED  BY <1>1, <1>2, <1>3, <1>4, <1>5 DEF s

-----------------------------------------------------------------------------
(* The steps *)

\* At the start there is at most an empty live registry.
LEMMA InitIInv == Init => IInv
<1> SUFFICES ASSUME Init PROVE IInv
  OBVIOUS
<1>1. \A f \in Names : file[f] \in RegistryFile /\ file[f].entries = <<>>
  BY EmptyRecords DEF Init
<1>2. /\ lineage \in [Names -> SUBSET Envelopes] /\ \A f \in Names : lineage[f] = {}
      /\ cmd \in [Operators -> CommandRecord] /\ \A o \in Operators : cmd[o] = NoCommand
      /\ reviews = {}
  BY EmptyRecords DEF Init
<1>3. Types
  <2>1. trust \in Trusts /\ now \in 0..MaxTime /\ edits \in 0..MaxEdits
    BY EnrollmentAssumption DEF Init, EnrollmentAssumption
  <2>2. file \in [Names -> RegistryFile]
    BY <1>1 DEF Init
  <2> QED  BY <1>2, <2>1, <2>2 DEF Types
<1>4. WrittenValid
  BY <1>2, EmptyRecords DEF Init, WrittenValid
<1>5. ReviewsRemain
  BY <1>2 DEF ReviewsRemain
<1>6. Unedited
  BY <1>1, <1>2, EmptyRecords, EmptyUnedited DEF Unedited, FileUnedited, CommandUnedited
<1> QED  BY <1>3, <1>4, <1>5, <1>6 DEF IInv

\* A command that has computed what it will write; no file has changed.
LEMMA ComputePreserves ==
    ASSUME IInv, NEW o \in Operators, NEW out \in NewNames, NEW r \in RegistryFile,
           NEW env \in SUBSET Envelopes, NEW revoked \in SUBSET Envelopes,
           validate_registry(r),
           \A e \in env : Len(r.entries) # 0 /\ r.entries[Len(r.entries)].env = e,
           edits = 0 => Holds(r, revoked) /\ Reviewed(r, env, reviews),
           Compute(o, out, r, env, revoked)
    PROVE  IInv'
<1> DEFINE c == [out |-> out, file |-> r, env |-> env, revoked |-> revoked]
<1>1. c \in CommandRecord /\ c.file = r /\ c.env = env /\ c.revoked = revoked
  BY DEF CommandRecord
<1>2. CommandOK(c) /\ (edits = 0 => CommandUnedited(c, reviews))
  BY DEF CommandOK, CommandUnedited
<1> HIDE DEF c
<1>3. /\ cmd \in [Operators -> CommandRecord]
      /\ cmd' = [cmd EXCEPT ![o] = c]
      /\ UNCHANGED <<file, trust, now, edits, reviews, lineage>>
  BY DEF Compute, IInv, Types, c
<1>4. /\ cmd' \in [Operators -> CommandRecord]
      /\ cmd'[o] = c /\ \A p \in Operators : p # o => cmd'[p] = cmd[p]
  BY <1>1, <1>3
<1>5. Types'
  BY <1>3, <1>4 DEF IInv, Types
<1>6. WrittenValid'
  BY <1>2, <1>3, <1>4 DEF IInv, WrittenValid
<1>7. ReviewsRemain'
  BY <1>3 DEF IInv, ReviewsRemain, Written
<1>8. Unedited'
  BY <1>2, <1>3, <1>4 DEF IInv, Unedited
<1> QED  BY <1>5, <1>6, <1>7, <1>8 DEF IInv

LEMMA InitCommand ==
    ASSUME IInv, NEW o \in Operators, NEW out \in NewNames, init(o, out)
    PROVE  IInv'
BY ComputePreserves, EmptyRecords, EmptyUnedited DEF init

LEMMA ApprovePreserves ==
    ASSUME IInv, NEW o \in Operators, NEW e \in Envelopes, NEW in \in Names,
           NEW lease \in 1..MaxLease, NEW out \in NewNames,
           approve_for_inspection(o, e, in, lease, out)
    PROVE  IInv'
<1> DEFINE r == file[in]
           en == [env |-> e, model |-> Signed[e].passport.model, reviewedAt |-> now,
                  expiresAt |-> now + lease, state |-> "APPROVED_INSPECTION"]
           u == Registry(Append(r.entries, en))
<1>1. validate_registry(u) /\ Compute(o, out, u, {e}, lineage[in])
  BY DEF approve_for_inspection
<1>2. r \in RegistryFile /\ lineage[in] \in SUBSET Envelopes
  BY DEF IInv, Types
<1>3. en \in Entry /\ en.env = e
  BY EnrollmentAssumption DEF IInv, Types, Entry, Labels, EnrollmentAssumption
<1>4. u.entries = Append(r.entries, en) /\ u.kind = "registry"
      /\ u = [kind |-> "registry", entries |-> Append(r.entries, en)]
  BY DEF Registry
<1> HIDE DEF u, en
<1>5. /\ r.entries \in Seq(Entry) /\ u.entries \in Seq(Entry)
      /\ Len(r.entries) \in Nat /\ Len(u.entries) = Len(r.entries) + 1
      /\ DOMAIN r.entries = 1..Len(r.entries) /\ DOMAIN u.entries = 1..(Len(r.entries) + 1)
      /\ u.entries[Len(u.entries)] = en
      /\ \A i \in DOMAIN r.entries : i \in DOMAIN u.entries /\ u.entries[i] = r.entries[i]
  BY <1>2, <1>3, <1>4 DEF RegistryFile
<1>6. u \in RegistryFile
  BY <1>4, <1>5 DEF RegistryFile
<1>7. ASSUME edits = 0
      PROVE  Holds(u, lineage[in]) /\ Reviewed(u, {e}, reviews)
  <2>1. Holds(r, lineage[in]) /\ Reviewed(r, {}, reviews)
    BY <1>7 DEF IInv, Unedited, FileUnedited
  <2>2. Holds(u, lineage[in])
    BY <1>5, <2>1 DEF Holds
  <2>3. Reviewed(u, {e}, reviews)
    <3> SUFFICES ASSUME NEW i \in DOMAIN u.entries
                 PROVE  \/ Review(u.entries[i]) \in reviews
                        \/ i = Len(u.entries) /\ u.entries[i].env \in {e}
      BY DEF Reviewed
    <3>1. CASE i = Len(u.entries)
      BY <1>3, <1>5, <3>1
    <3>2. CASE i # Len(u.entries)
      <4>1. i \in DOMAIN r.entries
        BY <1>5, <3>2
      <4> QED  BY <1>5, <2>1, <4>1 DEF Reviewed
    <3> QED  BY <3>1, <3>2
  <2> QED  BY <2>2, <2>3
<1>8. Len(u.entries) # 0 /\ u.entries[Len(u.entries)].env = e
  BY <1>3, <1>5
<1>9. {e} \in SUBSET Envelopes /\ \A d \in {e} : d = e
  OBVIOUS
<1> HIDE DEF r
<1> QED  BY <1>1, <1>2, <1>6, <1>7, <1>8, <1>9, ComputePreserves

LEMMA RevokePreserves ==
    ASSUME IInv, NEW o \in Operators, NEW e \in Envelopes, NEW in \in Names,
           NEW out \in NewNames, revoke(o, e, in, out)
    PROVE  IInv'
<1> DEFINE r == file[in]
<1>1. PICK i \in EntriesOf(r, e) :
        /\ validate_registry(Revoked(r, i))
        /\ Compute(o, out, Revoked(r, i), {}, lineage[in] \cup {e})
  BY DEF revoke
<1> DEFINE s == Revoked(r, i)
<1>2. /\ r \in RegistryFile /\ lineage[in] \in SUBSET Envelopes
      /\ i \in DOMAIN r.entries /\ r.entries[i].env = e
  BY DEF IInv, Types, revoke, EntriesOf
<1>3. /\ s \in RegistryFile /\ validate_registry(s)
      /\ DOMAIN s.entries = DOMAIN r.entries /\ Len(s.entries) = Len(r.entries)
      /\ s.entries[i].state = "REVOKED"
      /\ \A j \in DOMAIN r.entries :
           /\ s.entries[j].env = r.entries[j].env
           /\ s.entries[j].reviewedAt = r.entries[j].reviewedAt
           /\ r.entries[j].state = "REVOKED" => s.entries[j].state = "REVOKED"
  BY <1>1, <1>2, RevokedRegistry
<1> HIDE DEF s
<1>4. ASSUME edits = 0
      PROVE  Holds(s, lineage[in] \cup {e}) /\ Reviewed(s, {}, reviews)
  <2>1. Holds(r, lineage[in]) /\ Reviewed(r, {}, reviews)
    BY <1>4 DEF IInv, Unedited, FileUnedited
  <2>2. Holds(s, lineage[in] \cup {e})
    BY <1>2, <1>3, <2>1 DEF Holds
  <2>3. Reviewed(s, {}, reviews)
    BY <1>3, <2>1 DEF Reviewed, Review
  <2> QED  BY <2>2, <2>3
<1>5. Compute(o, out, s, {}, lineage[in] \cup {e})
  BY <1>1 DEF s
<1>6. {} \in SUBSET Envelopes /\ lineage[in] \cup {e} \in SUBSET Envelopes
  BY <1>2
<1> HIDE DEF r
<1> QED  BY <1>3, <1>4, <1>5, <1>6, ComputePreserves

\* A command is over: nothing is pending of it, the rest has not changed.
LEMMA OverPreserves ==
    ASSUME IInv, NEW o \in Operators, cmd' = [cmd EXCEPT ![o] = NoCommand]
    PROVE  /\ cmd' \in [Operators -> CommandRecord]
           /\ \A p \in Operators : CommandOK(cmd'[p])
           /\ \A R : reviews \subseteq R /\ edits = 0 =>
                \A p \in Operators : CommandUnedited(cmd'[p], R)
<1>1. cmd \in [Operators -> CommandRecord] /\ \A p \in Operators : CommandOK(cmd[p])
  BY DEF IInv, Types, WrittenValid
<1>2. /\ cmd' \in [Operators -> CommandRecord]
      /\ \A p \in Operators : cmd'[p] = NoCommand \/ cmd'[p] = cmd[p]
  BY <1>1, EmptyRecords
<1>3. \A R : CommandUnedited(NoCommand, R)
  BY EmptyRecords, EmptyUnedited DEF CommandUnedited
<1>4. ASSUME NEW R, reviews \subseteq R, edits = 0, NEW p \in Operators
      PROVE  CommandUnedited(cmd'[p], R)
  <2>1. CommandUnedited(cmd[p], R)
    BY <1>4, ReviewsGrow DEF IInv, Unedited, CommandUnedited
  <2> QED  BY <1>2, <1>3, <2>1
<1> QED  BY <1>1, <1>2, <1>4, EmptyRecords

LEMMA RefusedPreserves ==
    ASSUME IInv, NEW o \in Operators, Refused(o)
    PROVE  IInv'
<1>1. /\ cmd' = [cmd EXCEPT ![o] = NoCommand]
      /\ UNCHANGED <<file, trust, now, edits, reviews, lineage>>
  BY DEF Refused
<1>2. Types'
  BY <1>1, OverPreserves DEF IInv, Types
<1>3. WrittenValid'
  BY <1>1, OverPreserves DEF IInv, WrittenValid
<1>4. ReviewsRemain'
  BY <1>1 DEF IInv, ReviewsRemain, Written
<1>5. Unedited'
  BY <1>1, OverPreserves DEF IInv, Unedited
<1> QED  BY <1>2, <1>3, <1>4, <1>5 DEF IInv

\* A file that did not exist has been made, whole or cut off, of what an
\* operator's command had computed.
LEMMA SavePreserves ==
    ASSUME IInv, NEW o \in Operators, save_new(o)
    PROVE  IInv'
<1> DEFINE c == cmd[o]
           n == c.out
<1>1. /\ c # NoCommand /\ c \in CommandRecord /\ CommandOK(c)
      /\ file[n] = NoFile
      /\ cmd' = [cmd EXCEPT ![o] = NoCommand]
      /\ UNCHANGED <<trust, now, edits>>
  BY DEF save_new, MayCreate, IInv, Types, WrittenValid
<1>2. /\ n \in NewNames /\ validate_registry(c.file)
      /\ \A e \in c.env : Len(c.file.entries) # 0 /\ c.file.entries[Len(c.file.entries)].env = e
      /\ c.file \in RegistryFile /\ c.revoked \in SUBSET Envelopes /\ c.env \in SUBSET Envelopes
  BY <1>1 DEF CommandOK, CommandRecord
<1>3. PICK r, gone, new :
        /\ file' = [file EXCEPT ![n] = r]
        /\ lineage' = [lineage EXCEPT ![n] = gone]
        /\ reviews' = reviews \cup new
        /\ \/ /\ r = c.file /\ gone = c.revoked
              /\ new = {[env |-> e, at |-> c.file.entries[Len(c.file.entries)].reviewedAt] :
                          e \in c.env}
           \/ r = CutOff /\ gone = {} /\ new = {}
  <2>1. CASE /\ file' = [file EXCEPT ![c.out] = c.file]
             /\ lineage' = [lineage EXCEPT ![c.out] = c.revoked]
             /\ reviews' = reviews \cup
                  {[env |-> e, at |-> c.file.entries[Len(c.file.entries)].reviewedAt] :
                     e \in c.env}
    <3> WITNESS c.file, c.revoked,
                {[env |-> e, at |-> c.file.entries[Len(c.file.entries)].reviewedAt] : e \in c.env}
    <3> QED  BY <2>1
  <2>2. CASE /\ file' = [file EXCEPT ![c.out] = CutOff]
             /\ lineage' = [lineage EXCEPT ![c.out] = {}]
             /\ UNCHANGED reviews
    <3> WITNESS CutOff, {}, {}
    <3> QED  BY <2>2
  <2> QED  BY <2>1, <2>2 DEF save_new
<1>4. /\ r \in RegistryFile /\ gone \in SUBSET Envelopes
      /\ r.kind = "registry" => validate_registry(r)
  BY <1>2, <1>3, EmptyRecords
<1>5. \A a \in new : \E i \in DOMAIN r.entries : Review(r.entries[i]) = a
  <2>1. CASE new = {}
    BY <2>1
  <2>2. CASE r = c.file
    <3> SUFFICES ASSUME NEW a \in new PROVE \E i \in DOMAIN r.entries : Review(r.entries[i]) = a
      OBVIOUS
    <3>1. CASE new = {}
      BY <3>1
    <3>2. ASSUME NEW e \in c.env,
                 a = [env |-> e, at |-> c.file.entries[Len(c.file.entries)].reviewedAt]
          PROVE  \E i \in DOMAIN r.entries : Review(r.entries[i]) = a
      <4>1. Len(r.entries) # 0 /\ r.entries[Len(r.entries)].env = e /\ r.entries \in Seq(Entry)
        BY <1>2, <2>2, <3>2 DEF RegistryFile
      <4>2. Len(r.entries) \in DOMAIN r.entries
        BY <4>1
      <4>3. Review(r.entries[Len(r.entries)]) = a
        BY <2>2, <3>2, <4>1 DEF Review
      <4> QED  BY <4>2, <4>3
    <3> QED  BY <1>3, <3>1, <3>2
  <2> QED  BY <1>3, <2>1, <2>2
<1>6. new \subseteq [env : Envelopes, at : 0..MaxTime]
  <2> SUFFICES ASSUME NEW a \in new PROVE a \in [env : Envelopes, at : 0..MaxTime]
    OBVIOUS
  <2>1. PICK i \in DOMAIN r.entries : Review(r.entries[i]) = a
    BY <1>5
  <2>2. r.entries[i] \in Entry
    BY <1>4, <2>1 DEF RegistryFile
  <2> QED  BY <2>1, <2>2 DEF Review, Entry
<1>7. ASSUME edits = 0
      PROVE  Holds(r, gone) /\ Reviewed(r, {}, reviews \cup new)
  <2>1. CASE r = CutOff /\ gone = {}
    BY <2>1, EmptyRecords, EmptyUnedited
  <2>2. CASE /\ r = c.file /\ gone = c.revoked
             /\ new = {[env |-> e, at |-> c.file.entries[Len(c.file.entries)].reviewedAt] :
                         e \in c.env}
    <3>1. Holds(c.file, c.revoked) /\ Reviewed(c.file, c.env, reviews)
      BY <1>7 DEF IInv, Unedited, CommandUnedited
    <3>2. ASSUME NEW i \in DOMAIN r.entries
          PROVE  Review(r.entries[i]) \in reviews \cup new
      <4>1. CASE Review(r.entries[i]) \in reviews
        BY <4>1
      <4>2. CASE i = Len(r.entries) /\ r.entries[i].env \in c.env
        BY <2>2, <4>2 DEF Review
      <4> QED  BY <2>2, <3>1, <4>1, <4>2 DEF Reviewed
    <3> QED  BY <2>2, <3>1, <3>2 DEF Reviewed
  <2> QED  BY <1>3, <2>1, <2>2
<1> HIDE DEF n
<1>8. /\ file \in [Names -> RegistryFile] /\ lineage \in [Names -> SUBSET Envelopes]
      /\ n \in Names
  BY <1>2, LiveIsAName DEF IInv, Types, n
<1>9. /\ file' \in [Names -> RegistryFile] /\ lineage' \in [Names -> SUBSET Envelopes]
      /\ file'[n] = r /\ lineage'[n] = gone
      /\ \A f \in Names : f # n => file'[f] = file[f] /\ lineage'[f] = lineage[f]
  BY <1>3, <1>4, <1>8
<1>10. Types'
  BY <1>1, <1>3, <1>6, <1>9, OverPreserves DEF IInv, Types
<1>11. WrittenValid'
  BY <1>1, <1>4, <1>9, OverPreserves, LiveIsAName DEF IInv, WrittenValid
<1>12. ReviewsRemain'
  <2> SUFFICES ASSUME NEW a \in reviews' PROVE Written(a)'
    BY DEF ReviewsRemain
  <2>1. CASE a \in new
    <3>1. n \in NewNames /\ \E i \in DOMAIN file'[n].entries : Review(file'[n].entries[i]) = a
      BY <1>2, <1>5, <1>9, <2>1 DEF n
    <3> QED  BY <3>1 DEF Written, Review
  <2>2. CASE a \in reviews
    <3>1. PICK f \in NewNames : \E i \in DOMAIN file[f].entries : Review(file[f].entries[i]) = a
      BY <2>2 DEF IInv, ReviewsRemain, Written
    <3>2. f # n /\ f \in Names
      BY <1>1, <3>1, EmptyRecords, LiveIsAName DEF n
    <3>3. file'[f] = file[f]
      BY <1>9, <3>2
    <3> QED  BY <3>1, <3>3 DEF Written, Review
  <2> QED  BY <1>3, <2>1, <2>2
<1>13. Unedited'
  <2> SUFFICES ASSUME edits = 0
               PROVE  /\ \A f \in Names : FileUnedited(file'[f], lineage'[f], reviews')
                      /\ \A p \in Operators : CommandUnedited(cmd'[p], reviews')
    BY <1>1 DEF Unedited
  <2>1. reviews \subseteq reviews'
    BY <1>3
  <2>2. \A p \in Operators : CommandUnedited(cmd'[p], reviews')
    BY <1>1, <2>1, OverPreserves
  <2>3. ASSUME NEW f \in Names PROVE FileUnedited(file'[f], lineage'[f], reviews')
    <3>1. CASE f = n
      BY <1>3, <1>7, <1>9, <3>1 DEF FileUnedited
    <3>2. CASE f # n
      BY <1>9, <2>1, <3>2, ReviewsGrow DEF IInv, Unedited, FileUnedited
    <3> QED  BY <3>1, <3>2
  <2> QED  BY <2>2, <2>3
<1> QED  BY <1>10, <1>11, <1>12, <1>13 DEF IInv

\* Putting a written registry in place of the live one carries its line along.
LEMMA ReplacePreserves ==
    ASSUME IInv, NEW f \in NewNames, ReplaceLive(f)
    PROVE  IInv'
<1>1. /\ file' = [file EXCEPT !["live"] = file[f]]
      /\ lineage' = [lineage EXCEPT !["live"] = lineage[f]]
      /\ UNCHANGED <<trust, cmd, now, edits, reviews>>
      /\ file \in [Names -> RegistryFile] /\ lineage \in [Names -> SUBSET Envelopes]
  BY DEF ReplaceLive, IInv, Types
<1>2. /\ file' \in [Names -> RegistryFile] /\ lineage' \in [Names -> SUBSET Envelopes]
      /\ \A g \in NewNames : file'[g] = file[g]
      /\ \A g \in Names : \E h \in Names : file'[g] = file[h] /\ lineage'[g] = lineage[h]
  BY <1>1, LiveIsAName
<1>3. Types'
  BY <1>1, <1>2 DEF IInv, Types
<1>4. WrittenValid'
  BY <1>1, <1>2 DEF IInv, WrittenValid
<1>5. ReviewsRemain'
  BY <1>1, <1>2 DEF IInv, ReviewsRemain, Written
<1>6. Unedited'
  BY <1>1, <1>2 DEF IInv, Unedited
<1> QED  BY <1>3, <1>4, <1>5, <1>6 DEF IInv

\* An edit by hand makes an entry of an entry.
LEMMA EditPreserves ==
    ASSUME IInv, EditLive
    PROVE  IInv'
<1> DEFINE r == file["live"]
<1>1. PICK i \in DOMAIN r.entries, d \in {-1, 1} :
         file' = [file EXCEPT
           !["live"].entries[i] =
              CASE d = -1 /\ @.state = "REVOKED"   -> [@ EXCEPT !.state = "APPROVED_INSPECTION"]
                [] d = -1 /\ @.state # "REVOKED"   -> [@ EXCEPT !.model = "edited"]
                [] d = 1 -> [@ EXCEPT !.expiresAt = @ + 1]]
  BY DEF EditLive
<1>2. /\ edits' = edits + 1 /\ edits < MaxEdits
      /\ UNCHANGED <<trust, cmd, now, reviews, lineage>>
      /\ edits \in 0..MaxEdits /\ MaxEdits \in Nat
      /\ file \in [Names -> RegistryFile]
  BY EnrollmentAssumption DEF EditLive, IInv, Types, EnrollmentAssumption
<1>3. /\ r \in RegistryFile /\ r.entries \in Seq(Entry) /\ i \in 1..Len(r.entries)
      /\ r.entries[i] \in Entry
  BY <1>1, <1>2, LiveIsAName DEF RegistryFile
<1> DEFINE old == r.entries[i]
           en == CASE d = -1 /\ old.state = "REVOKED" -> [old EXCEPT !.state = "APPROVED_INSPECTION"]
                   [] d = -1 /\ old.state # "REVOKED" -> [old EXCEPT !.model = "edited"]
                   [] d = 1 -> [old EXCEPT !.expiresAt = old.expiresAt + 1]
           es == [r.entries EXCEPT ![i] = en]
           s == [r EXCEPT !.entries = es]
<1>4. file' = [file EXCEPT !["live"] = s]
  BY <1>1
<1>5. en \in Entry
  <2>1. old \in Entry /\ "edited" \in Labels
    BY <1>3 DEF Labels
  <2> HIDE DEF old
  <2>2. CASE d = -1 /\ old.state = "REVOKED"
    BY <2>1, <2>2 DEF Entry
  <2>3. CASE d = -1 /\ old.state # "REVOKED"
    BY <2>1, <2>3 DEF Entry
  <2>4. CASE d = 1
    BY <2>1, <2>4 DEF Entry
  <2> QED  BY <2>2, <2>3, <2>4
<1> HIDE DEF en
<1>6. es \in Seq(Entry)
  BY <1>3, <1>5
<1> HIDE DEF es
<1>7. s \in RegistryFile
  BY <1>3, <1>6 DEF RegistryFile
<1> HIDE DEF s, r
<1>8. /\ file' \in [Names -> RegistryFile]
      /\ \A g \in NewNames : file'[g] = file[g]
  BY <1>2, <1>4, <1>7, LiveIsAName
<1>9. edits' \in 0..MaxEdits /\ edits' # 0
  BY <1>2
<1>10. Types'
  BY <1>2, <1>8, <1>9 DEF IInv, Types
<1>11. WrittenValid'
  BY <1>2, <1>8 DEF IInv, WrittenValid
<1>12. ReviewsRemain'
  BY <1>2, <1>8 DEF IInv, ReviewsRemain, Written
<1>13. Unedited'
  BY <1>9 DEF Unedited
<1> QED  BY <1>10, <1>11, <1>12, <1>13 DEF IInv

\* The clock, the trust store and nothing at all: no file or command changes.
LEMMA OutsidePreserves ==
    ASSUME IInv, UNCHANGED <<file, cmd, edits, reviews, lineage>>,
           trust' \in Trusts, now' \in 0..MaxTime
    PROVE  IInv'
<1>1. Types'
  BY DEF IInv, Types
<1>2. WrittenValid'
  BY DEF IInv, WrittenValid
<1>3. ReviewsRemain'
  BY DEF IInv, ReviewsRemain, Written
<1>4. Unedited'
  BY DEF IInv, Unedited
<1> QED  BY <1>1, <1>2, <1>3, <1>4 DEF IInv

\* Every step preserves the invariant.
LEMMA NextIInv == IInv /\ [Next]_vars => IInv'
<1> SUFFICES ASSUME IInv, [Next]_vars PROVE IInv'
  OBVIOUS
<1>0. trust \in Trusts /\ now \in 0..MaxTime
  BY DEF IInv, Types
<1>1. ASSUME NEW o \in Operators, Command(o)
      PROVE  IInv'
  <2>1. ASSUME NEW out \in NewNames, init(o, out) PROVE IInv'
    BY <2>1, InitCommand
  <2>2. ASSUME NEW out \in NewNames, NEW e \in Envelopes, NEW in \in Names,
               NEW lease \in 1..MaxLease, approve_for_inspection(o, e, in, lease, out)
        PROVE  IInv'
    BY <2>2, ApprovePreserves
  <2>3. ASSUME NEW out \in NewNames, NEW e \in Envelopes, NEW in \in Names,
               revoke(o, e, in, out)
        PROVE  IInv'
    BY <2>3, RevokePreserves
  <2> QED  BY <1>1, <2>1, <2>2, <2>3, SavePreserves, RefusedPreserves DEF Command
<1>2. ASSUME NEW f \in NewNames, ReplaceLive(f)
      PROVE  IInv'
  BY <1>2, ReplacePreserves
<1>3. CASE EditLive
  BY <1>3, EditPreserves
<1>4. ASSUME NEW t \in Trusts, EditTrust(t)
      PROVE  IInv'
  BY <1>0, <1>4, OutsidePreserves DEF EditTrust
<1>5. ASSUME NEW t \in 0..MaxTime, SetClock(t)
      PROVE  IInv'
  BY <1>0, <1>5, OutsidePreserves DEF SetClock
<1>6. CASE UNCHANGED vars
  BY <1>0, <1>6, OutsidePreserves DEF vars
<1> QED  BY <1>1, <1>2, <1>3, <1>4, <1>5, <1>6 DEF Next

\* The invariant holds of every behaviour.
THEOREM EnrollmentInvariant == Spec => []IInv
BY InitIInv, NextIInv, PTL DEF Spec

-----------------------------------------------------------------------------
(* The properties the run checks, for every value of the constants *)

\* What the commands write is valid, whatever the live registry was edited
\* to, and no review is ever lost.
THEOREM EnrollmentTypeCorrect == Spec => []TypeOK
<1>1. IInv => TypeOK
  <2> SUFFICES ASSUME IInv PROVE TypeOK
    OBVIOUS
  <2>1. \A f \in Names : file[f].kind \in {"none", "broken", "registry"}
    BY DEF IInv, Types, RegistryFile
  <2>2. \A o \in Operators : cmd[o] = NoCommand \/ cmd[o].out \in NewNames
    BY DEF IInv, WrittenValid, CommandOK
  <2>3. ASSUME NEW a \in reviews
        PROVE  \E f \in NewNames : \E i \in DOMAIN file[f].entries :
                 file[f].entries[i].env = a.env /\ file[f].entries[i].reviewedAt = a.at
    BY DEF IInv, ReviewsRemain, Written, Review
  <2> QED  BY <2>1, <2>2, <2>3 DEF IInv, Types, WrittenValid, TypeOK
<1> QED  BY <1>1, EnrollmentInvariant, PTL

\* A check that approves has found the one entry of the envelope, not
\* revoked and with a lease that runs now.
LEMMA ApprovedEntry ==
    ASSUME NEW e, NEW r, Approved(e, r)
    PROVE  /\ Verified(e, trust) /\ validate_registry(r)
           /\ \E i \in DOMAIN r.entries :
                /\ r.entries[i].env = e
                /\ r.entries[i].state # "REVOKED"
                /\ ~(now < r.entries[i].reviewedAt) /\ ~(now >= r.entries[i].expiresAt)
                /\ \A j \in DOMAIN r.entries : r.entries[j].env = e => i = j
<1> DEFINE i == CHOOSE n \in EntriesOf(r, e) : TRUE
<1>1. /\ Verified(e, trust) /\ validate_registry(r)
      /\ EntriesOf(r, e) # {}
      /\ Verdict(r.entries[i], e) = "APPROVED_FOR_INSPECTION_ONLY"
  BY DEF Approved, evaluate
<1>2. i \in DOMAIN r.entries /\ r.entries[i].env = e
  BY <1>1 DEF EntriesOf
<1> HIDE DEF i
<1>3. /\ r.entries[i].state # "REVOKED"
      /\ ~(now < r.entries[i].reviewedAt) /\ ~(now >= r.entries[i].expiresAt)
  BY <1>1 DEF Verdict
<1>4. \A j \in DOMAIN r.entries : r.entries[j].env = e => i = j
  BY <1>1, <1>2 DEF validate_registry
<1> QED  BY <1>1, <1>2, <1>3, <1>4

\* However many commands, operators, clock settings and copies over the live
\* registry lie between, what has been revoked is not approved.
THEOREM RevocationIsForGood == Spec => []RevokedStaysRevoked
<1>1. IInv => RevokedStaysRevoked
  <2> SUFFICES ASSUME IInv, edits = 0, NEW f \in Names, NEW e \in lineage[f],
                      Approved(e, file[f])
               PROVE  FALSE
    BY DEF RevokedStaysRevoked
  <2>1. \E j \in DOMAIN file[f].entries :
           file[f].entries[j].env = e /\ file[f].entries[j].state = "REVOKED"
    BY DEF IInv, Unedited, FileUnedited, Holds
  <2> QED  BY <2>1, ApprovedEntry
<1> QED  BY <1>1, EnrollmentInvariant, PTL

\* The gates are independent: the key, the traces, and the operator's review.
THEOREM ApprovalsAreEarned == Spec => []ApprovalIsEarned
<1>1. IInv => ApprovalIsEarned
  <2> SUFFICES ASSUME IInv, NEW e \in Envelopes, NEW f \in Names, Approved(e, file[f])
               PROVE  /\ trust.valid
                      /\ [issuerId |-> Signed[e].issuerId, keyId |-> Signed[e].signer]
                           \in trust.active
                      /\ Sound(Signed[e].passport)
                      /\ edits = 0 =>
                           \E a \in reviews : a.env = e /\ a.at <= now /\ now < a.at + MaxLease
    BY DEF ApprovalIsEarned
  <2>1. /\ ReplayConsistent[e] /\ trust.valid /\ Pinned(e, trust)
        /\ Signed[e].signer = Signed[e].keyId
    BY ApprovedEntry DEF Verified, verify_signed_object
  <2>2. Sound(Signed[e].passport)
    BY <2>1, PassportsAreSound
  <2>3. ASSUME edits = 0
        PROVE  \E a \in reviews : a.env = e /\ a.at <= now /\ now < a.at + MaxLease
    <3>1. PICK i \in DOMAIN file[f].entries :
             /\ file[f].entries[i].env = e
             /\ ~(now < file[f].entries[i].reviewedAt)
             /\ ~(now >= file[f].entries[i].expiresAt)
      BY ApprovedEntry
    <3> DEFINE en == file[f].entries[i]
    <3>2. en.expiresAt - en.reviewedAt <= MaxLease
      BY ApprovedEntry DEF validate_registry
    <3>3. en \in Entry
      BY DEF IInv, Types, RegistryFile
    <3>4. Review(en) \in reviews
      BY <2>3 DEF IInv, Unedited, FileUnedited, Reviewed
    <3>5. en.env = e /\ en.reviewedAt <= now /\ now < en.reviewedAt + MaxLease
      <4>1. /\ en.reviewedAt \in Int /\ en.expiresAt \in Int /\ now \in Int /\ MaxLease \in Int
            /\ en.env = e /\ ~(now < en.reviewedAt) /\ ~(now >= en.expiresAt)
        BY <3>1, <3>3, EnrollmentAssumption DEF Entry, IInv, Types, EnrollmentAssumption
      <4> HIDE DEF en
      <4> QED  BY <3>2, <4>1
    <3> QED  BY <3>4, <3>5 DEF Review
  <2> QED  BY <2>1, <2>2, <2>3 DEF Pinned
<1> QED  BY <1>1, EnrollmentInvariant, PTL
=============================================================================
