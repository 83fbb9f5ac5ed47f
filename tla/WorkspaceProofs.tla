--------------------------- MODULE WorkspaceProofs ---------------------------
(***************************************************************************)
(* Proofs about the calendar and the backups, for any number of runs,      *)
(* events, archives kept, seconds and kills.                               *)
(***************************************************************************)
EXTENDS Workspace, FiniteSetTheorems, TLAPS

-----------------------------------------------------------------------------
(* The inductive invariant *)

Calendars == (SUBSET Events) \cup {Nothing}

Archive == [whole : BOOLEAN, shared : BOOLEAN, db : Int, calendar : Calendars]

RunRecord == [pc : {"idle", "copy", "prune", "unlink"}, name : Nat, db : Int,
              old : Seq(Seconds)]

OldOf(b) == {run[b].old[i] : i \in DOMAIN run[b].old}

Copying == {b \in Runs : run[b].pc = "copy"}
Deleting == {b \in Runs : run[b].pc = "unlink"}

CalendarTypes ==
    /\ up \in BOOLEAN /\ underneath \in SUBSET Processes /\ disturbed \in BOOLEAN
    /\ calendar \in SUBSET Events /\ kept \in SUBSET Events
    /\ pen \in [Processes -> Calendars]
    /\ db \in 0..MaxCommits /\ kills \in 0..MaxKills

(* Whatever has a name was begun by now. *)
BackupTypes ==
    /\ names \in Seq(Seconds)
    /\ \A i, j \in DOMAIN names : names[i] = names[j] => i = j
    /\ archive \in [Seconds -> Archive]
    /\ run \in [Runs -> RunRecord]
    /\ \A b \in Runs : run[b].pc # "unlink" => run[b].old = <<>>
    /\ second \in Seconds /\ newest \in 0..second
    /\ \A n \in Named \cup Doomed : n <= newest
    /\ \A b \in Copying : run[b].name \in 1..newest
    /\ cutShort \in BOOLEAN /\ secured \in BOOLEAN /\ reused \in BOOLEAN
    /\ failedBeside \in BOOLEAN

(* Until two writes overlap or one is cut off, what the only writer is     *)
(* about to write is what should be in the file.                           *)
CalendarKept ==
    ~disturbed =>
      /\ (\A w \in Processes : pen[w] = Nothing) => calendar = kept
      /\ \A w \in Processes : pen[w] # Nothing =>
           pen[w] = kept /\ w \notin underneath /\ Others(w) = {}

(* What no run is about to delete is kept, or a run's that will prune. *)
FewRemain ==
    ~cutShort => Cardinality(Named \ Doomed) <=
      MaxBackups + Cardinality({b \in Runs : run[b].pc \in {"copy", "prune"}})

(* While no two runs have begun in one second: *)

\* every run that copies has an archive to itself, which is not whole yet.
OwnArchives ==
    /\ \A b, c \in Copying : run[b].name = run[c].name => b = c
    /\ \A b \in Copying : ~archive[run[b].name].whole
    /\ \A n \in Seconds : ~archive[n].shared

Sequenced(s, m, n) == \E i, j \in DOMAIN s : i < j /\ s[i] = m /\ s[j] = n
Before(m, n) == Sequenced(names, m, n)

Good == {n \in Named \ Doomed : archive[n].whole}

\* a whole archive that will remain is newer
Outdone(n) == \E g \in Good : Before(n, g)

\* nothing has been listed since the server started
Calm == \A b \in Runs : run[b].pc = "idle" \/ (run[b].pc = "copy" /\ run[b].name \in Named)

Pieces == {n \in Named : ~archive[n].whole /\ \A b \in Copying : run[b].name # n}

\* whole, but listed as old before it was closed, and nothing better is newer
Useless == {n \in Named \cap Doomed : archive[n].whole /\ ~Outdone(n)}

\* Each of them is the last that some run has closed, and of any runs that are
\* deleting the one that listed first has closed none that they all leave.
Charge(f) ==
    /\ \A x, y \in Useless : f[x] = f[y] => x = y
    /\ \A x \in Useless, n \in Named :
         f[x] \in Copying /\ run[f[x]].name = n => Before(x, n)
    /\ \A U \in SUBSET Deleting : U # {} =>
         \E u \in U : \A x \in Useless : f[x] = u => \A c \in U : x \notin OldOf(c)

GoodRemains ==
    /\ secured => Good # {}
    /\ ~secured => Calm
    /\ Calm \/ \A n \in Pieces : Outdone(n)
    /\ \A b \in Copying, n \in Named \cap Doomed : run[b].name = n => Outdone(n)
    /\ \E f \in [Useless -> Runs] : Charge(f)

IInv ==
    /\ CalendarTypes /\ BackupTypes
    /\ CalendarKept
    /\ FewRemain
    /\ ~reused => OwnArchives
    /\ EnoughKept /\ ~reused /\ ~failedBeside => GoodRemains

-----------------------------------------------------------------------------
(* Sequences without repetition *)

Elements(s) == {s[i] : i \in DOMAIN s}
Distinct(s) == \A i, j \in DOMAIN s : s[i] = s[j] => i = j

LEMMA OrderIsStrict ==
    ASSUME NEW s \in Seq(Seconds), Distinct(s), NEW x, NEW y, Sequenced(s, x, y)
    PROVE  /\ x \in Elements(s) /\ y \in Elements(s) /\ x # y
           /\ ~Sequenced(s, y, x)
           /\ \A z : Sequenced(s, y, z) => Sequenced(s, x, z)
BY DEF Distinct, Sequenced, Elements

\* Two places of a sequence without repetition are in order one way or other.
LEMMA OrderIsTotal ==
    ASSUME NEW s \in Seq(Seconds), NEW x \in Elements(s), NEW y \in Elements(s), x # y
    PROVE  Sequenced(s, x, y) \/ Sequenced(s, y, x)
BY DEF Sequenced, Elements

\* A new element comes after the others.
LEMMA AppendOrder ==
    ASSUME NEW s \in Seq(Seconds), Distinct(s), NEW n \in Seconds, n \notin Elements(s),
           NEW v, v = Append(s, n)
    PROVE  /\ v \in Seq(Seconds) /\ Distinct(v)
           /\ Elements(v) = Elements(s) \cup {n}
           /\ \A x, y : x # n /\ y # n => (Sequenced(v, x, y) <=> Sequenced(s, x, y))
           /\ \A x \in Elements(s) : Sequenced(v, x, n)
<1>1. /\ v \in Seq(Seconds) /\ Len(v) = Len(s) + 1 /\ Len(s) \in Nat
      /\ DOMAIN s = 1..Len(s) /\ DOMAIN v = 1..(Len(s) + 1)
      /\ \A i \in 1..Len(s) : v[i] = s[i]
      /\ v[Len(s) + 1] = n
  OBVIOUS
<1>2. Elements(v) = Elements(s) \cup {n}
  <2>1. \A i \in 1..(Len(s) + 1) : i \in 1..Len(s) \/ i = Len(s) + 1
    BY <1>1
  <2>2. ASSUME NEW x \in Elements(v) PROVE x \in Elements(s) \cup {n}
    BY <1>1, <2>1 DEF Elements
  <2>3. ASSUME NEW x \in Elements(s) \cup {n} PROVE x \in Elements(v)
    <3>1. \A i \in 1..Len(s) : i \in 1..(Len(s) + 1)
      BY <1>1
    <3> QED  BY <1>1, <3>1 DEF Elements
  <2> QED  BY <2>2, <2>3
<1>3. Distinct(v)
  BY <1>1 DEF Distinct, Elements
<1>4. ASSUME NEW x, NEW y, x # n, y # n
      PROVE  Sequenced(v, x, y) <=> Sequenced(s, x, y)
  BY <1>1, <1>4 DEF Sequenced
<1>5. ASSUME NEW x \in Elements(s)
      PROVE  Sequenced(v, x, n)
  BY <1>1 DEF Sequenced, Elements
<1> QED  BY <1>1, <1>2, <1>3, <1>4, <1>5

\* Taking an element out leaves the order of the others.
LEMMA WithoutOrder ==
    ASSUME BackupTypes, NEW n, NEW w, w = Without(n)
    PROVE  /\ w \in Seq(Seconds) /\ Distinct(w)
           /\ Elements(w) = Named \ {n}
           /\ \A x, y : x # n /\ y # n => (Sequenced(w, x, y) <=> Before(x, y))
<1>1. names \in Seq(Seconds) /\ Distinct(names) /\ Named = Elements(names)
  BY DEF BackupTypes, Distinct, Named, Elements
<1>2. CASE n \notin Named
  BY <1>1, <1>2 DEF Without, Before
<1>3. CASE n \in Named
  <2> DEFINE L == Len(names)
             at == CHOOSE i \in DOMAIN names : names[i] = n
  <2>1. at \in 1..L /\ names[at] = n /\ L \in Nat /\ DOMAIN names = 1..L
    BY <1>1, <1>3 DEF Named
  <2>2. w = [i \in 1..(L - 1) |-> IF i < at THEN names[i] ELSE names[i+1]]
    BY <1>3 DEF Without
  <2> HIDE DEF at, L
  <2>3. /\ \A i \in 1..(L-1) : w[i] = (IF i < at THEN names[i] ELSE names[i+1])
        /\ DOMAIN w = 1..(L-1)
    BY <2>2
  <2>4. \A i \in 1..(L-1) : i \in 1..L /\ i + 1 \in 1..L
    BY <2>1
  <2>5. w \in Seq(Seconds)
    <3>1. \A i \in 1..L : names[i] \in Seconds
      BY <1>1, <2>1
    <3>2. L - 1 \in Nat
      BY <2>1
    <3>3. \A i \in 1..(L-1) : w[i] \in Seconds
      BY <2>3, <2>4, <3>1
    <3>4. w \in [1..(L-1) -> Seconds]
      BY <2>2, <2>3, <3>3
    <3> QED  BY <3>2, <3>4
  (* where an element of names is in w *)
  <2> DEFINE to(i) == IF i < at THEN i ELSE i - 1
  <2>6. ASSUME NEW i \in 1..L, i # at
        PROVE  to(i) \in 1..(L-1) /\ w[to(i)] = names[i]
    <3>1. CASE i < at
      BY <2>1, <2>3, <3>1
    <3>2. CASE i > at
      <4>1. i - 1 \in 1..(L-1) /\ ~(i - 1 < at) /\ (i - 1) + 1 = i
        BY <2>1, <3>2
      <4> QED  BY <2>1, <2>3, <3>2, <4>1
    <3> QED  BY <2>1, <2>6, <3>1, <3>2
  <2> DEFINE from(k) == IF k < at THEN k ELSE k + 1
  <2>7. ASSUME NEW k \in 1..(L-1)
        PROVE  from(k) \in 1..L /\ from(k) # at /\ w[k] = names[from(k)]
    BY <2>1, <2>3
  <2>8. \A j, k \in 1..(L-1) : (from(j) = from(k) => j = k) /\ (j < k => from(j) < from(k))
    BY <2>1
  <2>9. \A i, j \in 1..L : i # at /\ j # at /\ i < j => to(i) < to(j)
    BY <2>1
  <2> HIDE DEF to, from
  <2>10. \A i \in 1..L : names[i] = n <=> i = at
    BY <1>1, <2>1 DEF Distinct
  <2>11. Distinct(w)
    BY <1>1, <2>1, <2>3, <2>7, <2>8 DEF Distinct
  <2>12. Elements(w) = Named \ {n}
    <3>1. ASSUME NEW x \in Elements(w) PROVE x \in Named \ {n}
      BY <2>1, <2>3, <2>7, <2>10 DEF Elements, Named
    <3>2. ASSUME NEW x \in Named \ {n} PROVE x \in Elements(w)
      BY <2>1, <2>3, <2>6, <2>10 DEF Elements, Named
    <3> QED  BY <3>1, <3>2
  <2>13. ASSUME NEW x, NEW y, x # n, y # n
         PROVE  Sequenced(w, x, y) <=> Before(x, y)
    <3>1. ASSUME Sequenced(w, x, y) PROVE Before(x, y)
      <4>1. PICK j \in 1..(L-1), k \in 1..(L-1) : j < k /\ w[j] = x /\ w[k] = y
        BY <2>3, <3>1 DEF Sequenced
      <4>2. from(j) \in 1..L /\ from(k) \in 1..L /\ from(j) < from(k)
            /\ names[from(j)] = x /\ names[from(k)] = y
        BY <2>7, <2>8, <4>1
      <4> QED  BY <2>1, <4>2 DEF Sequenced, Before
    <3>2. ASSUME Before(x, y) PROVE Sequenced(w, x, y)
      <4>1. PICK i \in 1..L, j \in 1..L : i < j /\ names[i] = x /\ names[j] = y
        BY <2>1, <3>2 DEF Sequenced, Before
      <4>2. i # at /\ j # at
        BY <2>10, <2>13, <4>1
      <4>3. to(i) \in 1..(L-1) /\ to(j) \in 1..(L-1) /\ to(i) < to(j)
            /\ w[to(i)] = x /\ w[to(j)] = y
        BY <2>6, <2>9, <4>1, <4>2
      <4> QED  BY <2>3, <4>3 DEF Sequenced
    <3> QED  BY <3>1, <3>2
  <2> QED  BY <2>5, <2>11, <2>12, <2>13
<1> QED  BY <1>2, <1>3

\* A name that is touched is the newest.
LEMMA TouchOrder ==
    ASSUME BackupTypes, NEW n \in Seconds, Touch(n)
    PROVE  /\ names' \in Seq(Seconds) /\ Distinct(names')
           /\ Named' = Named \cup {n}
           /\ \A x, y : x # n /\ y # n => (Before(x, y)' <=> Before(x, y))
           /\ \A x \in Named \ {n} : Before(x, n)'
<1> DEFINE w == Without(n)
           v == names'
<1>1. v = Append(w, n)
  BY DEF Touch
<1>2. /\ w \in Seq(Seconds) /\ Distinct(w) /\ Elements(w) = Named \ {n}
      /\ \A x, y : x # n /\ y # n => (Sequenced(w, x, y) <=> Before(x, y))
  BY WithoutOrder
<1>3. Named' = Elements(v) /\ \A x, y : Before(x, y)' <=> Sequenced(v, x, y)
  BY DEF Named, Elements, Before
<1> HIDE DEF w, v
<1>4. n \notin Elements(w)
  BY <1>2
<1>5. /\ v \in Seq(Seconds) /\ Distinct(v)
      /\ Elements(v) = Elements(w) \cup {n}
      /\ \A x, y : x # n /\ y # n => (Sequenced(v, x, y) <=> Sequenced(w, x, y))
      /\ \A x \in Elements(w) : Sequenced(v, x, n)
  BY <1>1, <1>2, <1>4, AppendOrder
<1> QED  BY <1>2, <1>3, <1>5 DEF v

-----------------------------------------------------------------------------
(* What each step does *)

\* One run has changed.
LEMMA RunUpdate ==
    ASSUME BackupTypes, NEW b \in Runs, NEW r \in RunRecord, run' = [run EXCEPT ![b] = r]
    PROVE  /\ run' \in [Runs -> RunRecord]
           /\ run'[b] = r /\ \A c \in Runs \ {b} : run'[c] = run[c]
           /\ OldOf(b)' = Elements(r.old)
           /\ \A c \in Runs \ {b} : OldOf(c)' = OldOf(c)
           /\ Copying' = (Copying \ {b}) \cup (IF r.pc = "copy" THEN {b} ELSE {})
           /\ Deleting' = (Deleting \ {b}) \cup (IF r.pc = "unlink" THEN {b} ELSE {})
<1>1. run \in [Runs -> RunRecord]
  BY DEF BackupTypes
<1>2. /\ run' \in [Runs -> RunRecord]
      /\ run'[b] = r /\ \A c \in Runs \ {b} : run'[c] = run[c]
  BY <1>1
<1>3. OldOf(b)' = Elements(r.old) /\ \A c \in Runs \ {b} : OldOf(c)' = OldOf(c)
  BY <1>2 DEF OldOf, Elements
<1>4. Copying' = (Copying \ {b}) \cup (IF r.pc = "copy" THEN {b} ELSE {})
  BY <1>2 DEF Copying
<1>5. Deleting' = (Deleting \ {b}) \cup (IF r.pc = "unlink" THEN {b} ELSE {})
  BY <1>2 DEF Deleting
<1> QED  BY <1>2, <1>3, <1>4, <1>5

LEMMA Bounds ==
    /\ IsFiniteSet(Runs)
    /\ MaxBackups \in Nat \ {0} /\ MaxSeconds \in Nat \ {0}
    /\ MaxCommits \in Nat /\ MaxKills \in Nat
    /\ Nothing \notin SUBSET Events
<1>1. "nothing" \in Nothing /\ "nothing" \notin Events
  BY WorkspaceAssumption DEF Nothing, WorkspaceAssumption
<1> QED  BY <1>1, WorkspaceAssumption DEF WorkspaceAssumption

LEMMA DoomedBySome ==
    /\ \A x : x \in Doomed <=> \E b \in Runs : x \in OldOf(b)
    /\ \A x : x \in Doomed' <=> \E b \in Runs : x \in OldOf(b)'
BY DEF Doomed, OldOf

\* What is idle, or not there, has listed nothing.
LEMMA NothingThere ==
    /\ NoRun \in RunRecord /\ NoRun.pc = "idle" /\ NoRun.old = <<>>
    /\ Elements(<<>>) = {}
    /\ Begun \in Archive /\ ~Begun.whole /\ ~Begun.shared
BY DEF NoRun, Begun, Absent, RunRecord, Archive, Calendars, Elements

LEMMA BeginFacts ==
    ASSUME CalendarTypes, BackupTypes, NEW b \in Runs, BeginBackup(b)
    PROVE  LET r == [NoRun EXCEPT !.pc = "copy", !.name = second, !.db = db] IN
           /\ r \in RunRecord /\ r.pc = "copy" /\ r.name = second /\ r.old = <<>>
           /\ run' = [run EXCEPT ![b] = r]
           /\ run[b].pc = "idle"
           /\ archive' \in [Seconds -> Archive]
           /\ \A n \in Seconds \ {second} : archive'[n] = archive[n]
           /\ ~archive'[second].whole
           /\ archive'[second].shared = \E c \in Copying : run[c].name = second
           /\ Touch(second) /\ second \in Seconds /\ second' = second
           /\ newest' = second /\ reused' = (reused \/ second = newest)
           /\ cutShort' = cutShort /\ secured' = secured /\ failedBeside' = failedBeside
<1> DEFINE r == [NoRun EXCEPT !.pc = "copy", !.name = second, !.db = db]
           s == \E c \in ActiveRuns : run[c].name = second /\ run[c].pc = "copy"
           a == [Begun EXCEPT !.shared = s]
<1>1. second \in Seconds /\ second \in Nat /\ db \in Int /\ archive \in [Seconds -> Archive]
  BY DEF BackupTypes, CalendarTypes, Seconds
<1>2. r \in RunRecord /\ r.pc = "copy" /\ r.name = second /\ r.old = <<>>
  BY <1>1, NothingThere DEF RunRecord, NoRun
<1>3. s = \E c \in Copying : run[c].name = second
  BY DEF ActiveRuns, Copying
<1> HIDE DEF s, r
<1>4. a \in Archive /\ ~a.whole /\ a.shared = s
  <2>1. s \in BOOLEAN
    BY DEF s
  <2> QED  BY <2>1, NothingThere DEF Archive
<1>5. archive' = [archive EXCEPT ![second] = a]
  BY DEF BeginBackup, s
<1> HIDE DEF a
<1>6. /\ archive' \in [Seconds -> Archive] /\ archive'[second] = a
      /\ \A n \in Seconds \ {second} : archive'[n] = archive[n]
  BY <1>1, <1>4, <1>5
<1>7. /\ run' = [run EXCEPT ![b] = r] /\ run[b].pc = "idle"
      /\ Touch(second) /\ second' = second
      /\ newest' = second /\ reused' = (reused \/ second = newest)
      /\ cutShort' = cutShort /\ secured' = secured /\ failedBeside' = failedBeside
  BY DEF BeginBackup, r
<1> QED  BY <1>1, <1>2, <1>3, <1>4, <1>6, <1>7 DEF r

LEMMA CloseFacts ==
    ASSUME CalendarTypes, BackupTypes, NEW b \in Runs, CloseBackup(b),
           NEW n, n = run[b].name
    PROVE  LET r == [NoRun EXCEPT !.pc = "prune"] IN
           /\ r \in RunRecord /\ r.pc = "prune" /\ r.old = <<>>
           /\ run' = [run EXCEPT ![b] = r]
           /\ b \in Copying /\ n \in Seconds
           /\ archive' \in [Seconds -> Archive]
           /\ \A m \in Seconds \ {n} : archive'[m] = archive[m]
           /\ archive'[n].whole = ~archive[n].shared
           /\ archive'[n].shared = archive[n].shared
           /\ \/ n \in Named /\ Touch(n)
              \/ n \notin Named /\ names' = names
           /\ second' = second /\ newest' = newest /\ reused' = reused
           /\ cutShort' = cutShort /\ secured' /\ failedBeside' = failedBeside
<1> DEFINE r == [NoRun EXCEPT !.pc = "prune"]
           new == [archive[n] EXCEPT !.whole = ~archive[n].shared]
<1>1. b \in Copying /\ n \in Seconds /\ archive \in [Seconds -> Archive]
  <2>1. b \in Copying
    BY DEF CloseBackup, Copying
  <2>2. n \in 1..newest /\ newest \in 0..second /\ second \in 1..MaxSeconds
    BY <2>1 DEF BackupTypes, Seconds
  <2>3. n \in Seconds
    BY <2>2, Bounds DEF Seconds
  <2> QED  BY <2>1, <2>3 DEF BackupTypes
<1>2. r \in RunRecord /\ r.pc = "prune" /\ r.old = <<>>
  BY NothingThere DEF RunRecord
<1>3. archive[n] \in Archive
  BY <1>1
<1>4. new \in Archive /\ new.whole = ~archive[n].shared /\ new.shared = archive[n].shared
  <2> DEFINE x == archive[n]
             w == ~archive[n].shared
  <2>1. x \in Archive /\ w \in BOOLEAN
    BY <1>1, <1>3
  <2>2. new = [x EXCEPT !.whole = w]
    OBVIOUS
  <2> HIDE DEF x, w, new
  <2>3. new \in Archive /\ new.whole = w /\ new.shared = x.shared
    BY <2>1, <2>2 DEF Archive
  <2> QED  BY <2>3 DEF x, w
<1>5. archive' = [archive EXCEPT ![n] = new]
  BY <1>1 DEF CloseBackup
<1> HIDE DEF new, r
<1>6. /\ archive' \in [Seconds -> Archive] /\ archive'[n] = new
      /\ \A m \in Seconds \ {n} : archive'[m] = archive[m]
  BY <1>1, <1>4, <1>5
<1>7. /\ run' = [run EXCEPT ![b] = r]
      /\ \/ n \in Named /\ Touch(n)
         \/ n \notin Named /\ names' = names
      /\ second' = second /\ newest' = newest /\ reused' = reused
      /\ cutShort' = cutShort /\ secured' /\ failedBeside' = failedBeside
  BY DEF CloseBackup, Closing, r
<1> QED  BY <1>1, <1>2, <1>4, <1>6, <1>7 DEF r

\* The copies are complete: what is whole, and who shares it, stays.
LEMMA CopyFacts ==
    ASSUME CalendarTypes, BackupTypes, NEW b \in Runs, CopyCalendar(b)
    PROVE  /\ archive' \in [Seconds -> Archive]
           /\ \A m \in Seconds : archive'[m].whole = archive[m].whole
                                /\ archive'[m].shared = archive[m].shared
           /\ UNCHANGED <<names, run, second, cutShort, secured, newest, reused, failedBeside>>
<1> DEFINE n == run[b].name
           d == IF run[b].db = db THEN db ELSE Mixed
           new == [archive[n] EXCEPT !.db = d, !.calendar = calendar]
<1>1. n \in Seconds /\ archive \in [Seconds -> Archive] /\ archive[n] \in Archive
  <2>1. b \in Copying
    BY DEF CopyCalendar, Copying
  <2>2. n \in 1..newest /\ newest \in 0..second /\ second \in 1..MaxSeconds
    BY <2>1 DEF BackupTypes, Seconds
  <2>3. n \in Seconds
    BY <2>2, Bounds DEF Seconds
  <2> QED  BY <2>3 DEF BackupTypes
<1>2. d \in Int /\ calendar \in Calendars
  BY DEF CalendarTypes, Mixed, Calendars
<1>3. archive' = [archive EXCEPT ![n] = new]
  BY <1>1 DEF CopyCalendar
<1>4. new \in Archive /\ new.whole = archive[n].whole /\ new.shared = archive[n].shared
  <2> DEFINE x == archive[n]
  <2>1. x \in Archive /\ new = [x EXCEPT !.db = d, !.calendar = calendar]
    BY <1>1
  <2> HIDE DEF x, d, new
  <2>2. new \in Archive /\ new.whole = x.whole /\ new.shared = x.shared
    BY <1>2, <2>1 DEF Archive
  <2> QED  BY <2>2 DEF x
<1> HIDE DEF new, n
<1>5. archive' \in [Seconds -> Archive] /\ archive'[n] = new
      /\ \A m \in Seconds \ {n} : archive'[m] = archive[m]
  BY <1>1, <1>3, <1>4
<1> QED  BY <1>4, <1>5 DEF CopyCalendar

LEMMA FailFacts ==
    ASSUME BackupTypes, NEW b \in Runs, FailBackup(b), NEW n, n = run[b].name
    PROVE  /\ b \in Copying /\ n \in Seconds
           /\ run' = [run EXCEPT ![b] = NoRun]
           /\ \/ n \in Named /\ Touch(n)
              \/ n \notin Named /\ names' = names
           /\ cutShort' = TRUE
           /\ UNCHANGED <<archive, second, secured, newest, reused>>
           /\ failedBeside' = (failedBeside \/ (n \in Named /\ \E c \in Runs \ {b} :
                run[c].pc \in {"prune", "unlink"}
                \/ (run[c].pc = "copy" /\ run[c].name \notin Named)))
<1>1. b \in Copying
  BY DEF FailBackup, Copying
<1>2. n \in 1..newest /\ newest \in 0..second /\ second \in 1..MaxSeconds
  BY <1>1 DEF BackupTypes, Seconds
<1>3. n \in Seconds
  BY <1>2, Bounds DEF Seconds
<1> QED  BY <1>1, <1>3 DEF FailBackup, Closing

\* Old are all but the last MAX_BACKUPS.
LEMMA OldestFacts ==
    ASSUME BackupTypes
    PROVE  /\ Oldest \in Seq(Seconds) /\ Elements(Oldest) \subseteq Named
           /\ \A i \in DOMAIN names : names[i] \in Elements(Oldest)
                <=> i <= Len(names) - MaxBackups
<1> DEFINE m == Len(names) - MaxBackups
<1>1. /\ names \in Seq(Seconds) /\ Len(names) \in Nat /\ DOMAIN names = 1..Len(names)
      /\ \A i, j \in DOMAIN names : names[i] = names[j] => i = j
      /\ MaxBackups \in Nat
  BY Bounds DEF BackupTypes
<1>2. /\ Oldest \in Seq(Seconds)
      /\ DOMAIN Oldest = 1..(IF m > 0 THEN m ELSE 0)
      /\ \A i \in DOMAIN Oldest : i \in DOMAIN names /\ Oldest[i] = names[i]
  <2>1. CASE m > 0
    <3>1. m \in Nat /\ m <= Len(names) /\ Oldest = SubSeq(names, 1, m)
      BY <1>1, <2>1 DEF Oldest
    <3> HIDE DEF m
    <3>2. \A i \in 1..m : i \in 1..Len(names)
      BY <1>1, <3>1
    <3>3. /\ Oldest \in Seq(Seconds) /\ Len(Oldest) = m
          /\ \A i \in 1..m : Oldest[i] = names[i]
      BY <1>1, <3>1, <3>2
    <3>4. /\ Oldest \in Seq(Seconds) /\ Len(Oldest) = m
          /\ \A i \in 1..m : Oldest[i] = names[i] /\ i \in 1..Len(names)
      BY <3>2, <3>3
    <3>5. DOMAIN Oldest = 1..m /\ (IF m > 0 THEN m ELSE 0) = m
      BY <2>1, <3>1, <3>4
    <3> QED  BY <1>1, <3>4, <3>5
  <2>2. CASE ~(m > 0)
    <3>1. Oldest = <<>>
      BY <1>1, <2>2 DEF Oldest
    <3> QED  BY <1>1, <2>2, <3>1
  <2> QED  BY <2>1, <2>2
<1>3. Elements(Oldest) \subseteq Named
  BY <1>2 DEF Elements, Named
<1>4. ASSUME NEW i \in DOMAIN names
      PROVE  names[i] \in Elements(Oldest) <=> i <= m
  <2>1. i \in Nat /\ i >= 1 /\ m \in Int
    BY <1>1
  <2>2. ASSUME i <= m PROVE names[i] \in Elements(Oldest)
    <3>1. i \in DOMAIN Oldest
      BY <1>2, <2>1, <2>2
    <3> QED  BY <1>2, <3>1 DEF Elements
  <2>3. ASSUME names[i] \in Elements(Oldest) PROVE i <= m
    <3>1. PICK j \in DOMAIN Oldest : Oldest[j] = names[i]
      BY <2>3 DEF Elements
    <3>2. j = i
      BY <1>1, <1>2, <3>1
    <3> QED  BY <1>2, <2>1, <3>1, <3>2
  <2> QED  BY <2>2, <2>3
<1> QED  BY <1>2, <1>3, <1>4

\* The run has what it will delete: all but the last MAX_BACKUPS.
LEMMA ListFacts ==
    ASSUME BackupTypes, NEW b \in Runs, run[b].pc = "prune",
           run' = [run EXCEPT ![b].pc = "unlink", ![b].old = Oldest]
    PROVE  LET r == [run[b] EXCEPT !.pc = "unlink", !.old = Oldest] IN
           /\ r \in RunRecord /\ r.pc = "unlink" /\ r.old = Oldest
           /\ run' = [run EXCEPT ![b] = r]
           /\ Oldest \in Seq(Seconds) /\ Elements(Oldest) \subseteq Named
           /\ \A i \in DOMAIN names : names[i] \in Elements(Oldest)
                <=> i <= Len(names) - MaxBackups
<1> DEFINE r == [run[b] EXCEPT !.pc = "unlink", !.old = Oldest]
<1>1. run \in [Runs -> RunRecord] /\ run[b] \in RunRecord
  BY DEF BackupTypes
<1>2. /\ Oldest \in Seq(Seconds) /\ Elements(Oldest) \subseteq Named
      /\ \A i \in DOMAIN names : names[i] \in Elements(Oldest)
           <=> i <= Len(names) - MaxBackups
  BY OldestFacts
<1>3. r \in RunRecord /\ r.pc = "unlink" /\ r.old = Oldest
  BY <1>1, <1>2 DEF RunRecord
<1>4. run' = [run EXCEPT ![b] = r]
  BY <1>1
<1> QED  BY <1>2, <1>3, <1>4

LEMMA UnlinkFacts ==
    ASSUME BackupTypes, NEW b \in Runs, run[b].pc = "unlink", run[b].old # <<>>,
           run' = [run EXCEPT ![b].old = Tail(@)]
    PROVE  LET r == [run[b] EXCEPT !.old = Tail(run[b].old)] IN
           /\ r \in RunRecord /\ r.pc = "unlink" /\ r.old = Tail(run[b].old)
           /\ run' = [run EXCEPT ![b] = r]
           /\ Head(run[b].old) \in OldOf(b) /\ Head(run[b].old) \in Seconds
           /\ OldOf(b) = Elements(r.old) \cup {Head(run[b].old)}
<1> DEFINE o == run[b].old
           r == [run[b] EXCEPT !.old = Tail(o)]
<1>1. /\ run \in [Runs -> RunRecord] /\ run[b] \in RunRecord
      /\ o \in Seq(Seconds) /\ o # <<>>
  BY DEF BackupTypes, RunRecord
<1>2. run' = [run EXCEPT ![b] = r]
  BY <1>1
<1>3. OldOf(b) = Elements(o)
  BY DEF OldOf, Elements
<1>4. r \in RunRecord /\ r.pc = "unlink" /\ r.old = Tail(o)
  <2> DEFINE x == run[b]
             s == Tail(o)
  <2>1. x \in RunRecord /\ x.pc = "unlink" /\ s \in Seq(Seconds)
    BY <1>1
  <2> HIDE DEF x, s, o
  <2>2. [x EXCEPT !.old = s] \in RunRecord
    BY <2>1 DEF RunRecord
  <2>3. [x EXCEPT !.old = s].pc = "unlink" /\ [x EXCEPT !.old = s].old = s
    BY <2>1 DEF RunRecord
  <2> QED  BY <2>2, <2>3 DEF x, s
<1> HIDE DEF o, r
<1>5. /\ Len(o) \in Nat /\ Len(o) >= 1 /\ DOMAIN o = 1..Len(o)
      /\ Head(o) = o[1] /\ Tail(o) \in Seq(Seconds) /\ Len(Tail(o)) = Len(o) - 1
      /\ DOMAIN Tail(o) = 1..(Len(o) - 1)
      /\ \A i \in 1..(Len(o) - 1) : Tail(o)[i] = o[i+1]
  BY <1>1
<1>6. Head(o) \in Elements(o) /\ Head(o) \in Seconds
  BY <1>1, <1>5 DEF Elements
<1>7. Elements(o) = Elements(Tail(o)) \cup {Head(o)}
  <2>1. ASSUME NEW i \in 1..Len(o), i # 1
        PROVE  o[i] \in Elements(Tail(o))
    <3>1. i - 1 \in 1..(Len(o) - 1) /\ (i - 1) + 1 = i
      BY <1>5, <2>1
    <3>2. Tail(o)[i-1] = o[i]
      BY <1>5, <3>1
    <3> QED  BY <1>5, <3>1, <3>2 DEF Elements
  <2>2. ASSUME NEW i \in 1..(Len(o) - 1)
        PROVE  Tail(o)[i] \in Elements(o)
    <3>1. i + 1 \in 1..Len(o)
      BY <1>5
    <3> QED  BY <1>5, <3>1 DEF Elements
  <2>3. ASSUME NEW x \in Elements(o) PROVE x \in Elements(Tail(o)) \cup {Head(o)}
    <3>1. PICK i \in 1..Len(o) : x = o[i]
      BY <1>5, <2>3 DEF Elements
    <3> QED  BY <1>5, <2>1, <3>1
  <2>4. ASSUME NEW x \in Elements(Tail(o)) PROVE x \in Elements(o)
    <3>1. PICK i \in 1..(Len(o) - 1) : x = Tail(o)[i]
      BY <1>5, <2>4 DEF Elements
    <3> QED  BY <2>2, <3>1
  <2> QED  BY <1>6, <2>3, <2>4
<1> QED  BY <1>2, <1>3, <1>4, <1>6, <1>7 DEF r, o

-----------------------------------------------------------------------------
(* Types *)

LEMMA DistinctNames == BackupTypes => Distinct(names) /\ Named = Elements(names)
BY DEF BackupTypes, Distinct, Named, Elements

\* What a step does to the names in use: they stay below the newest.
LEMMA TypesFrame ==
    ASSUME BackupTypes, names' \in Seq(Seconds), Distinct(names'),
           archive' \in [Seconds -> Archive], run' \in [Runs -> RunRecord],
           \A b \in Runs : run'[b].pc # "unlink" => run'[b].old = <<>>,
           second' \in Seconds, newest' \in newest..second',
           Named' \subseteq Named \cup 1..newest', Doomed' \subseteq Doomed \cup Named,
           \A b \in Copying' : run'[b].name \in 1..newest',
           cutShort' \in BOOLEAN, secured' \in BOOLEAN, reused' \in BOOLEAN,
           failedBeside' \in BOOLEAN
    PROVE  BackupTypes'
<1>1. newest' \in 0..second' /\ newest \in Nat /\ newest <= newest' /\ newest' \in Nat
  BY Bounds DEF BackupTypes, Seconds
<1>2. ASSUME NEW n \in Named' \cup Doomed' PROVE n <= newest'
  <2>1. n \in Named \cup Doomed \/ n \in 1..newest'
    OBVIOUS
  <2>2. CASE n \in Named \cup Doomed
    <3>1. n <= newest /\ n \in Nat
      <4>1. \A b \in Runs : run[b].old \in Seq(Seconds)
        BY DEF BackupTypes, RunRecord
      <4>2. \A b \in Runs : OldOf(b) \subseteq Seconds
        BY <4>1 DEF OldOf
      <4>3. n \in Seconds
        BY <2>2, <4>2, DoomedBySome DEF BackupTypes, Named
      <4> QED  BY <2>2, <4>3, Bounds DEF BackupTypes, Seconds
    <3> QED  BY <1>1, <3>1
  <2>3. CASE n \in 1..newest'
    BY <1>1, <2>3
  <2> QED  BY <2>1, <2>2, <2>3
<1> QED  BY <1>1, <1>2 DEF BackupTypes, Distinct

LEMMA BeginTypes ==
    ASSUME CalendarTypes, BackupTypes, NEW b \in Runs, BeginBackup(b)
    PROVE  BackupTypes'
<1> DEFINE r == [NoRun EXCEPT !.pc = "copy", !.name = second, !.db = db]
<1>1. /\ r \in RunRecord /\ r.pc = "copy" /\ r.name = second /\ r.old = <<>>
      /\ run' = [run EXCEPT ![b] = r] /\ run[b].pc = "idle"
      /\ archive' \in [Seconds -> Archive]
      /\ Touch(second) /\ second \in Seconds /\ second' = second
      /\ newest' = second /\ reused' = (reused \/ second = newest)
      /\ cutShort' = cutShort /\ secured' = secured /\ failedBeside' = failedBeside
  BY BeginFacts
<1> HIDE DEF r
<1>2. /\ names' \in Seq(Seconds) /\ Distinct(names') /\ Named' = Named \cup {second}
  BY <1>1, TouchOrder
<1>3. /\ run' \in [Runs -> RunRecord] /\ run'[b] = r /\ \A c \in Runs \ {b} : run'[c] = run[c]
      /\ OldOf(b)' = {} /\ \A c \in Runs \ {b} : OldOf(c)' = OldOf(c)
      /\ Copying' = Copying \cup {b}
  <2>1. /\ run' \in [Runs -> RunRecord] /\ run'[b] = r /\ \A c \in Runs \ {b} : run'[c] = run[c]
        /\ OldOf(b)' = Elements(r.old) /\ \A c \in Runs \ {b} : OldOf(c)' = OldOf(c)
        /\ Copying' = (Copying \ {b}) \cup (IF r.pc = "copy" THEN {b} ELSE {})
    BY <1>1, RunUpdate
  <2> QED  BY <1>1, <2>1, NothingThere
<1>4. Doomed' \subseteq Doomed
  BY <1>3, DoomedBySome
<1>5. second \in 1..second /\ newest \in 0..second /\ second \in Nat
  BY Bounds DEF BackupTypes, Seconds
<1>6. \A c \in Copying' : run'[c].name \in 1..newest'
  <2> SUFFICES ASSUME NEW c \in Copying' PROVE run'[c].name \in 1..second
    BY <1>1
  <2>1. CASE c = b
    BY <1>1, <1>3, <1>5, <2>1
  <2>2. CASE c # b
    <3>1. c \in Copying /\ run'[c] = run[c] /\ run[c].name \in 1..newest
      BY <1>3, <2>2 DEF Copying, BackupTypes
    <3> QED  BY <1>5, <3>1
  <2> QED  BY <2>1, <2>2
<1>7. \A c \in Runs : run'[c].pc # "unlink" => run'[c].old = <<>>
  BY <1>1, <1>3 DEF BackupTypes
<1>8. newest' \in newest..second'
  BY <1>1, <1>5
<1>9. {cutShort', secured', reused', failedBeside'} \subseteq BOOLEAN
  BY <1>1 DEF BackupTypes
<1>10. Named' \subseteq Named \cup 1..newest'
  BY <1>1, <1>2, <1>5
<1> QED  BY <1>1, <1>2, <1>3, <1>4, <1>6, <1>7, <1>8, <1>9, <1>10, TypesFrame

\* A run that does not begin has no new name.
LEMMA StepTypes ==
    ASSUME BackupTypes, NEW b \in Runs, NEW r \in RunRecord, run' = [run EXCEPT ![b] = r],
           r.pc # "copy", r.pc # "unlink" => r.old = <<>>,
           Elements(r.old) \subseteq Named \cup OldOf(b),
           names' \in Seq(Seconds), Distinct(names'), Named' \subseteq Named,
           archive' \in [Seconds -> Archive],
           second' = second, newest' = newest, reused' = reused,
           cutShort' \in BOOLEAN, secured' \in BOOLEAN, failedBeside' \in BOOLEAN
    PROVE  BackupTypes'
<1>1. /\ run' \in [Runs -> RunRecord] /\ run'[b] = r /\ \A c \in Runs \ {b} : run'[c] = run[c]
      /\ OldOf(b)' = Elements(r.old) /\ \A c \in Runs \ {b} : OldOf(c)' = OldOf(c)
      /\ Copying' = Copying \ {b}
  BY RunUpdate
<1>2. Doomed' \subseteq Doomed \cup Named
  BY <1>1, DoomedBySome
<1>3. \A c \in Copying' : run'[c].name \in 1..newest'
  BY <1>1 DEF Copying, BackupTypes
<1>4. \A c \in Runs : run'[c].pc # "unlink" => run'[c].old = <<>>
  BY <1>1 DEF BackupTypes
<1>5. newest' \in newest..second' /\ second' \in Seconds /\ reused' \in BOOLEAN
  BY Bounds DEF BackupTypes, Seconds
<1> QED  BY <1>1, <1>2, <1>3, <1>4, <1>5, TypesFrame

LEMMA CloseTypes ==
    ASSUME CalendarTypes, BackupTypes, NEW b \in Runs, CloseBackup(b)
    PROVE  BackupTypes'
<1> DEFINE r == [NoRun EXCEPT !.pc = "prune"]
           n == run[b].name
<1>1. /\ r \in RunRecord /\ r.pc = "prune" /\ r.old = <<>>
      /\ run' = [run EXCEPT ![b] = r] /\ n \in Seconds
      /\ archive' \in [Seconds -> Archive]
      /\ \/ n \in Named /\ Touch(n)
         \/ n \notin Named /\ names' = names
      /\ second' = second /\ newest' = newest /\ reused' = reused
      /\ cutShort' = cutShort /\ secured' /\ failedBeside' = failedBeside
  BY CloseFacts
<1> HIDE DEF r, n
<1>2. names' \in Seq(Seconds) /\ Distinct(names') /\ Named' \subseteq Named
  <2>1. CASE n \in Named /\ Touch(n)
    BY <1>1, <2>1, TouchOrder
  <2>2. CASE names' = names
    BY <2>2, DistinctNames DEF BackupTypes, Named
  <2> QED  BY <1>1, <2>1, <2>2
<1>3. cutShort' \in BOOLEAN /\ secured' \in BOOLEAN /\ failedBeside' \in BOOLEAN
  <2>1. secured' \in BOOLEAN
    BY DEF CloseBackup
  <2> QED  BY <1>1, <2>1 DEF BackupTypes
<1>4. Elements(r.old) \subseteq Named \cup OldOf(b)
  BY <1>1, NothingThere
<1> QED  BY <1>1, <1>2, <1>3, <1>4, StepTypes

\* A run that ends, however it does.
LEMMA EndTypes ==
    ASSUME BackupTypes, NEW b \in Runs, run' = [run EXCEPT ![b] = NoRun],
           \/ names' = names
           \/ run[b].name \in Named \cap Seconds /\ Touch(run[b].name),
           UNCHANGED <<archive, second, newest, reused, secured>>,
           cutShort' \in BOOLEAN, failedBeside' \in BOOLEAN
    PROVE  BackupTypes'
<1>1. /\ names' \in Seq(Seconds) /\ Distinct(names') /\ Named' \subseteq Named
      /\ archive' \in [Seconds -> Archive] /\ secured' \in BOOLEAN
  <2>1. CASE names' = names
    BY <2>1, DistinctNames DEF BackupTypes, Named
  <2>2. CASE run[b].name \in Named \cap Seconds /\ Touch(run[b].name)
    BY <2>2, TouchOrder DEF BackupTypes
  <2> QED  BY <2>1, <2>2
<1>2. Elements(NoRun.old) \subseteq Named \cup OldOf(b)
  BY NothingThere
<1>3. NoRun.pc # "copy" /\ NoRun.pc # "unlink"
  BY NothingThere
<1> QED  BY <1>1, <1>2, <1>3, StepTypes, NothingThere

LEMMA ListTypes ==
    ASSUME BackupTypes, NEW b \in Runs, ListOld(b)
    PROVE  BackupTypes'
<1>1. /\ UNCHANGED <<names, archive, second, newest, reused, secured>> /\ run[b].pc = "prune"
      /\ failedBeside' \in BOOLEAN
  BY DEF ListOld, BackupTypes
<1>2. CASE run' = [run EXCEPT ![b] = NoRun] /\ cutShort' = TRUE
  BY <1>1, <1>2, EndTypes
<1>3. CASE run' = [run EXCEPT ![b].pc = "unlink", ![b].old = Oldest] /\ cutShort' = FALSE
  <2> DEFINE r == [run[b] EXCEPT !.pc = "unlink", !.old = Oldest]
  <2>1. /\ r \in RunRecord /\ r.pc = "unlink" /\ r.old = Oldest
        /\ run' = [run EXCEPT ![b] = r]
        /\ Elements(r.old) \subseteq Named
    BY <1>1, <1>3, ListFacts
  <2> HIDE DEF r
  <2>2. /\ names' \in Seq(Seconds) /\ Distinct(names') /\ Named' \subseteq Named
        /\ archive' \in [Seconds -> Archive] /\ secured' \in BOOLEAN
    BY <1>1, DistinctNames DEF BackupTypes, Named
  <2> QED  BY <1>1, <1>3, <2>1, <2>2, StepTypes
<1> QED  BY <1>2, <1>3 DEF ListOld

LEMMA UnlinkTypes ==
    ASSUME BackupTypes, NEW b \in Runs, Unlink(b)
    PROVE  BackupTypes'
<1> DEFINE n == Head(run[b].old)
<1>1. /\ UNCHANGED <<second, newest, reused, secured>> /\ failedBeside' \in BOOLEAN
      /\ run[b].pc = "unlink" /\ run[b].old # <<>>
  BY DEF Unlink, BackupTypes
<1>2. CASE run' = [run EXCEPT ![b] = NoRun] /\ cutShort' = TRUE /\ UNCHANGED <<names, archive>>
  BY <1>1, <1>2, EndTypes
<1>3. CASE /\ names' = Without(n) /\ archive' = [archive EXCEPT ![n] = Begun]
           /\ run' = [run EXCEPT ![b].old = Tail(@)] /\ cutShort' = cutShort
  <2> DEFINE r == [run[b] EXCEPT !.old = Tail(run[b].old)]
  <2>1. /\ r \in RunRecord /\ r.pc = "unlink"
        /\ run' = [run EXCEPT ![b] = r] /\ n \in Seconds
        /\ Elements(r.old) \subseteq OldOf(b)
    BY <1>1, <1>3, UnlinkFacts
  <2> HIDE DEF r, n
  <2>2. names' \in Seq(Seconds) /\ Distinct(names') /\ Elements(names') = Named \ {n}
    BY <1>3, WithoutOrder
  <2>3. Named' \subseteq Named
    BY <2>2 DEF Named, Elements
  <2>4. archive' \in [Seconds -> Archive]
    BY <1>3, NothingThere DEF BackupTypes
  <2>5. cutShort' \in BOOLEAN /\ secured' \in BOOLEAN
    BY <1>1, <1>3 DEF BackupTypes
  <2> QED  BY <1>1, <2>1, <2>2, <2>3, <2>4, <2>5, StepTypes
<1> QED  BY <1>2, <1>3 DEF Unlink

LEMMA FinishTypes ==
    ASSUME BackupTypes, NEW b \in Runs, FinishBackup(b)
    PROVE  BackupTypes'
<1>1. cutShort' \in BOOLEAN /\ failedBeside' \in BOOLEAN
  BY DEF FinishBackup, BackupTypes
<1> QED  BY <1>1, EndTypes DEF FinishBackup

LEMMA FailTypes ==
    ASSUME BackupTypes, NEW b \in Runs, FailBackup(b)
    PROVE  BackupTypes'
<1> DEFINE n == run[b].name
<1>1. /\ n \in Seconds /\ run' = [run EXCEPT ![b] = NoRun]
      /\ \/ n \in Named /\ Touch(n)
         \/ n \notin Named /\ names' = names
      /\ cutShort' = TRUE
      /\ UNCHANGED <<archive, second, secured, newest, reused>>
  BY FailFacts
<1>2. failedBeside' \in BOOLEAN
  BY DEF FailBackup, BackupTypes
<1> QED  BY <1>1, <1>2, EndTypes

LEMMA CopyTypes ==
    ASSUME CalendarTypes, BackupTypes, NEW b \in Runs, CopyCalendar(b)
    PROVE  BackupTypes'
<1>1. /\ archive' \in [Seconds -> Archive]
      /\ UNCHANGED <<names, run, second, cutShort, secured, newest, reused, failedBeside>>
  BY CopyFacts
<1> QED  BY <1>1 DEF BackupTypes, Named, Doomed, Copying

\* The server is killed, or the clock moves: nothing is named.
LEMMA KillTypes ==
    ASSUME BackupTypes, KillServer
    PROVE  /\ BackupTypes'
           /\ Copying' = {} /\ Deleting' = {} /\ Doomed' = {} /\ Calm'
<1>1. /\ \A b \in Runs : run'[b] = NoRun
      /\ run' \in [Runs -> RunRecord]
  BY NothingThere DEF KillServer
<1>2. Copying' = {} /\ Deleting' = {} /\ Calm' /\ \A b \in Runs : OldOf(b)' = {}
  BY <1>1, NothingThere DEF Copying, Deleting, Calm, OldOf
<1>3. Doomed' = {}
  BY <1>2, DoomedBySome
<1>4. /\ UNCHANGED <<names, archive, second, newest, reused, secured, failedBeside>>
      /\ cutShort' = TRUE
  BY DEF KillServer
<1>5. /\ names' \in Seq(Seconds) /\ Distinct(names') /\ Named' \subseteq Named
      /\ archive' \in [Seconds -> Archive]
      /\ {secured', reused', cutShort', failedBeside'} \subseteq BOOLEAN
      /\ second' \in Seconds
  BY <1>4, DistinctNames DEF BackupTypes, Named
<1>6. newest' \in newest..second'
  BY <1>4, Bounds DEF BackupTypes, Seconds
<1>7. \A b \in Runs : run'[b].pc # "unlink" => run'[b].old = <<>>
  BY <1>1, NothingThere
<1>8. BackupTypes'
  BY <1>1, <1>2, <1>3, <1>5, <1>6, <1>7, TypesFrame
<1> QED  BY <1>2, <1>3, <1>8

LEMMA SecondTypes ==
    ASSUME BackupTypes, NextSecond
    PROVE  BackupTypes'
<1>1. /\ second' = second + 1 /\ second < MaxSeconds
      /\ UNCHANGED <<archive, names, run, cutShort, secured, newest, reused, failedBeside>>
  BY DEF NextSecond
<1>2. second' \in Seconds /\ newest' \in 0..second'
  BY <1>1, Bounds DEF BackupTypes, Seconds
<1> QED  BY <1>1, <1>2 DEF BackupTypes, Named, Doomed, Copying

-----------------------------------------------------------------------------
(* The calendar *)

LEMMA OpenSteps ==
    ASSUME CalendarTypes, CalendarKept, NEW w \in Processes, NEW events \in SUBSET Events,
           Open(w, events), kept' = events \/ (~disturbed' => kept' = events),
           kept' \in SUBSET Events
    PROVE  CalendarTypes' /\ CalendarKept'
<1>1. /\ pen' = [pen EXCEPT ![w] = events] /\ calendar' = {} /\ underneath' = {}
      /\ disturbed' = (disturbed \/ Others(w) # {})
      /\ UNCHANGED <<up, db, kills>>
  BY DEF Open
<1>2. /\ pen' \in [Processes -> Calendars] /\ pen'[w] = events
      /\ \A v \in Processes \ {w} : pen'[v] = pen[v]
  BY <1>1 DEF CalendarTypes, Calendars
<1>3. CalendarTypes'
  BY <1>1, <1>2 DEF CalendarTypes
<1>4. ASSUME ~disturbed' PROVE \A v \in Processes \ {w} : pen'[v] = Nothing
  BY <1>1, <1>2, <1>4 DEF Others
<1>5. pen'[w] # Nothing
  BY <1>2, Bounds
<1>6. ASSUME ~disturbed', NEW v \in Processes, pen'[v] # Nothing
      PROVE  pen'[v] = kept' /\ v \notin underneath' /\ Others(v)' = {}
  BY <1>1, <1>2, <1>4, <1>6 DEF Others
<1> QED  BY <1>3, <1>5, <1>6 DEF CalendarKept

LEMMA ClosedFacts ==
    ASSUME CalendarTypes, NEW w \in Processes, Closed(w)
    PROVE  /\ pen' \in [Processes -> Calendars] /\ pen'[w] = Nothing
           /\ \A v \in Processes \ {w} : pen'[v] = pen[v]
           /\ UNCHANGED <<up, db, kills, kept>>
BY DEF Closed, CalendarTypes, Calendars

LEMMA WriteSteps ==
    ASSUME CalendarTypes, CalendarKept, NEW w \in Processes, Write(w)
    PROVE  CalendarTypes' /\ CalendarKept'
<1>1. /\ pen[w] # Nothing
      /\ calendar' = pen[w] \/ (w \in underneath /\ calendar' = {})
      /\ underneath' = Others(w) /\ disturbed' = disturbed
      /\ Closed(w)
  BY DEF Write
<1>2. /\ pen' \in [Processes -> Calendars] /\ pen'[w] = Nothing
      /\ \A v \in Processes \ {w} : pen'[v] = pen[v]
      /\ UNCHANGED <<up, db, kills, kept>>
  BY <1>1, ClosedFacts
<1>3. pen[w] \in SUBSET Events
  BY <1>1 DEF CalendarTypes, Calendars
<1>4. CalendarTypes'
  <2>1. Others(w) \in SUBSET Processes
    BY DEF Others
  <2> QED  BY <1>1, <1>2, <1>3, <2>1 DEF CalendarTypes
<1>5. ASSUME ~disturbed'
      PROVE  calendar' = kept' /\ \A v \in Processes : pen'[v] = Nothing
  <2>1. pen[w] = kept /\ w \notin underneath /\ Others(w) = {}
    BY <1>1, <1>5 DEF CalendarKept
  <2>2. \A v \in Processes \ {w} : pen[v] = Nothing
    BY <2>1 DEF Others
  <2> QED  BY <1>1, <1>2, <2>1, <2>2
<1> QED  BY <1>4, <1>5 DEF CalendarKept

LEMMA CalendarSteps ==
    ASSUME CalendarTypes, CalendarKept, BackupTypes, Next
    PROVE  CalendarTypes' /\ CalendarKept'
<1>s. "server" \in Processes /\ "client" \in Processes
  BY DEF Processes
<1>0. ASSUME ~disturbed, pen["server"] = Nothing, Others("server") = {}
      PROVE  calendar = kept
  BY <1>0 DEF CalendarKept, Others
<1>1. ASSUME NEW e \in Events, add_event(e)
      PROVE  CalendarTypes' /\ CalendarKept'
  <2>1. /\ pen["server"] = Nothing /\ Open("server", calendar \cup {e})
        /\ kept' = kept \cup {e}
        /\ disturbed' = (disturbed \/ Others("server") # {})
    BY <1>1 DEF add_event, Open, Load, LoopIsFree
  <2>2. calendar \cup {e} \in SUBSET Events /\ kept' \in SUBSET Events
    BY <2>1 DEF CalendarTypes
  <2>3. ~disturbed' => kept' = calendar \cup {e}
    BY <1>0, <2>1
  <2> QED  BY <1>s, <2>1, <2>2, <2>3, OpenSteps
<1>2. ASSUME NEW e \in Events, delete_event(e)
      PROVE  CalendarTypes' /\ CalendarKept'
  <2>1. /\ pen["server"] = Nothing /\ Open("server", calendar \ {e})
        /\ kept' = kept \ {e}
        /\ disturbed' = (disturbed \/ Others("server") # {})
    BY <1>2 DEF delete_event, Open, Load, LoopIsFree
  <2>2. calendar \ {e} \in SUBSET Events /\ kept' \in SUBSET Events
    BY <2>1 DEF CalendarTypes
  <2>3. ~disturbed' => kept' = calendar \ {e}
    BY <1>0, <2>1
  <2> QED  BY <1>s, <2>1, <2>2, <2>3, OpenSteps
<1>3. ASSUME NEW w \in Processes, FailWrite(w)
      PROVE  CalendarTypes' /\ CalendarKept'
  <2>1. /\ calendar' \in {calendar, {}} /\ underneath' \in {underneath \ {w}, Others(w)}
        /\ disturbed' = TRUE /\ Closed(w)
    BY <1>3 DEF FailWrite
  <2>2. pen' \in [Processes -> Calendars] /\ UNCHANGED <<up, db, kills, kept>>
    BY <2>1, ClosedFacts
  <2>3. CalendarTypes'
    BY <2>1, <2>2 DEF CalendarTypes, Others
  <2> QED  BY <2>1, <2>3 DEF CalendarKept
<1>4. CASE Commit
  <2>1. db' \in 0..MaxCommits /\ UNCHANGED <<up, kills>> /\ UNCHANGED eventState
    BY <1>4, Bounds DEF Commit, CalendarTypes
  <2> QED  BY <2>1 DEF CalendarTypes, CalendarKept, Others, eventState
<1>5. ASSUME NEW b \in Runs, BackupStep(b)
      PROVE  CalendarTypes' /\ CalendarKept'
  <2>1. UNCHANGED <<up, db, kills>> /\ UNCHANGED eventState
    BY <1>5 DEF BackupStep, BeginBackup, CopyCalendar, CloseBackup, FailBackup, ListOld,
                Unlink, FinishBackup
  <2> QED  BY <2>1 DEF CalendarTypes, CalendarKept, Others, eventState
<1>6. CASE NextSecond
  BY <1>6 DEF NextSecond, CalendarTypes, CalendarKept, Others, eventState
<1>7. ASSUME NEW n \in Seconds, NEW w \in Processes, Extract(w, n)
      PROVE  CalendarTypes' /\ CalendarKept'
  <2>1. /\ archive[n].calendar # Nothing /\ Open(w, archive[n].calendar)
        /\ kept' = archive[n].calendar
    BY <1>7 DEF Extract
  <2>2. archive[n].calendar \in SUBSET Events
    BY <2>1 DEF BackupTypes, Archive, Calendars
  <2> QED  BY <2>1, <2>2, OpenSteps
<1>8. ASSUME NEW n \in Seconds, restore_backup(n) \/ cmd_db_restore(n)
      PROVE  CalendarTypes' /\ CalendarKept'
  BY <1>s, <1>7, <1>8 DEF restore_backup, cmd_db_restore
<1>9. CASE KillServer
  <2>1. /\ kills' = kills + 1 /\ kills < MaxKills /\ up' = FALSE
        /\ pen' = [pen EXCEPT !["server"] = Nothing]
        /\ underneath' = underneath \ {"server"}
        /\ disturbed' = (disturbed \/ pen["server"] # Nothing)
        /\ UNCHANGED <<calendar, kept, db>>
    BY <1>9 DEF KillServer
  <2>2. kills' \in 0..MaxKills /\ pen' \in [Processes -> Calendars]
    <3>1. kills' \in 0..MaxKills
      BY <2>1, Bounds DEF CalendarTypes
    <3>2. pen' \in [Processes -> Calendars]
      BY <2>1 DEF CalendarTypes, Calendars
    <3> QED  BY <3>1, <3>2
  <2>3. CalendarTypes'
    BY <2>1, <2>2 DEF CalendarTypes
  <2>4. ASSUME ~disturbed' PROVE pen' = pen
    BY <1>s, <2>1, <2>4 DEF CalendarTypes
  <2>5. CalendarKept'
    BY <2>1, <2>4 DEF CalendarKept, Others
  <2> QED  BY <2>3, <2>5
<1>10. CASE StartServer
  BY <1>10 DEF StartServer, CalendarTypes, CalendarKept, Others, eventState
<1>11. ASSUME NEW w \in Processes, Write(w)
      PROVE  CalendarTypes' /\ CalendarKept'
  BY <1>11, WriteSteps
<1> QED  BY <1>1, <1>2, <1>3, <1>4, <1>5, <1>6, <1>8, <1>9, <1>10, <1>11 DEF Next

-----------------------------------------------------------------------------
(* How many archives there are *)

Waiting == {b \in Runs : run[b].pc \in {"copy", "prune"}}

LEMMA Sizes ==
    ASSUME BackupTypes
    PROVE  /\ Named \subseteq Seconds /\ IsFiniteSet(Named) /\ IsFiniteSet(Named \ Doomed)
           /\ IsFiniteSet(Waiting) /\ IsFiniteSet(Copying) /\ IsFiniteSet(Deleting)
           /\ Cardinality(Named \ Doomed) \in Nat /\ Cardinality(Waiting) \in Nat
<1>1. Named \subseteq Seconds
  BY DEF BackupTypes, Named
<1>2. IsFiniteSet(Seconds)
  BY Bounds, FS_Interval DEF Seconds
<1>3. IsFiniteSet(Named) /\ IsFiniteSet(Named \ Doomed)
  <2>1. Named \in SUBSET Seconds /\ Named \ Doomed \in SUBSET Seconds
    BY <1>1
  <2> QED  BY <1>2, <2>1, FS_Subset
<1>4. IsFiniteSet(Waiting) /\ IsFiniteSet(Copying) /\ IsFiniteSet(Deleting)
  <2>1. Waiting \in SUBSET Runs /\ Copying \in SUBSET Runs /\ Deleting \in SUBSET Runs
    BY DEF Waiting, Copying, Deleting
  <2> QED  BY <2>1, Bounds, FS_Subset
<1> QED  BY <1>1, <1>3, <1>4, FS_CardinalityType

\* A set that grows by one element at most, and a bound that grows by one.
LEMMA OneMore ==
    ASSUME NEW S, NEW T, NEW x, IsFiniteSet(S), T \subseteq S \cup {x}
    PROVE  IsFiniteSet(T) /\ Cardinality(T) \in Nat /\ Cardinality(S) \in Nat
           /\ Cardinality(T) <= Cardinality(S) + 1
<1>1. IsFiniteSet(S \cup {x}) /\ Cardinality(S) \in Nat
      /\ Cardinality(S \cup {x}) <= Cardinality(S) + 1
  <2>1. Cardinality(S) \in Nat
    BY FS_CardinalityType
  <2>2. /\ IsFiniteSet(S \cup {x})
        /\ Cardinality(S \cup {x}) =
             IF x \in S THEN Cardinality(S) ELSE Cardinality(S) + 1
    BY FS_AddElement
  <2> QED  BY <2>1, <2>2
<1>2. IsFiniteSet(T) /\ Cardinality(T) <= Cardinality(S \cup {x})
  <2>1. T \in SUBSET (S \cup {x})
    OBVIOUS
  <2> QED  BY <1>1, <2>1, FS_Subset
<1> QED  BY <1>1, <1>2, FS_CardinalityType

LEMMA FewFrame ==
    ASSUME BackupTypes, BackupTypes', FewRemain,
           cutShort' \/ (cutShort' = cutShort /\ Named' \ Doomed' \subseteq Named \ Doomed
                                 /\ Waiting \subseteq Waiting')
    PROVE  FewRemain'
<1>1. CASE cutShort'
  BY <1>1 DEF FewRemain
<1>2. CASE /\ cutShort' = cutShort /\ Named' \ Doomed' \subseteq Named \ Doomed
           /\ Waiting \subseteq Waiting'
  <2>1. /\ IsFiniteSet(Named \ Doomed) /\ IsFiniteSet(Waiting)
        /\ Cardinality(Named \ Doomed) \in Nat /\ Cardinality(Waiting) \in Nat
    BY Sizes
  <2>2. /\ IsFiniteSet(Waiting') /\ Cardinality(Named' \ Doomed') \in Nat
        /\ Cardinality(Waiting') \in Nat
    <3>1. /\ IsFiniteSet(Waiting)' /\ (Cardinality(Named \ Doomed) \in Nat)'
          /\ (Cardinality(Waiting) \in Nat)'
      BY Sizes, PTL
    <3> QED  BY <3>1
  <2>3. Cardinality(Waiting) <= Cardinality(Waiting')
    <3>1. Waiting \in SUBSET Waiting'
      BY <1>2
    <3> QED  BY <2>2, <3>1, FS_Subset
  <2>4. Cardinality(Named' \ Doomed') <= Cardinality(Named \ Doomed)
    <3>1. Named' \ Doomed' \in SUBSET (Named \ Doomed)
      BY <1>2
    <3> QED  BY <2>1, <3>1, FS_Subset
  <2>5. ~cutShort => Cardinality(Named \ Doomed) <= MaxBackups + Cardinality(Waiting)
    BY DEF FewRemain, Waiting
  <2>6. ~cutShort' => Cardinality(Named' \ Doomed') <= MaxBackups + Cardinality(Waiting')
    BY <1>2, <2>1, <2>2, <2>3, <2>4, <2>5, Bounds
  <2> QED  BY <2>6 DEF FewRemain, Waiting
<1> QED  BY <1>1, <1>2

\* One more archive, and one more run that will prune.
LEMMA FewBegin ==
    ASSUME CalendarTypes, BackupTypes, BackupTypes', FewRemain, NEW b \in Runs, BeginBackup(b)
    PROVE  FewRemain'
<1> DEFINE r == [NoRun EXCEPT !.pc = "copy", !.name = second, !.db = db]
<1>1. /\ r \in RunRecord /\ r.pc = "copy" /\ r.old = <<>>
      /\ run' = [run EXCEPT ![b] = r] /\ run[b].pc = "idle"
      /\ Touch(second) /\ second \in Seconds /\ cutShort' = cutShort
  BY BeginFacts
<1> HIDE DEF r
<1>2. Named' = Named \cup {second}
  BY <1>1, TouchOrder
<1>3. /\ run' \in [Runs -> RunRecord] /\ run'[b] = r /\ \A c \in Runs \ {b} : run'[c] = run[c]
      /\ \A c \in Runs \ {b} : OldOf(c)' = OldOf(c)
  BY <1>1, RunUpdate
<1>4. OldOf(b) = {}
  BY <1>1 DEF BackupTypes, OldOf
<1>5. Doomed \subseteq Doomed'
  BY <1>3, <1>4, DoomedBySome
<1>6. Waiting' = Waiting \cup {b} /\ b \notin Waiting
  BY <1>1, <1>3 DEF Waiting
<1>7. /\ IsFiniteSet(Named \ Doomed) /\ IsFiniteSet(Waiting) /\ Cardinality(Waiting) \in Nat
  BY Sizes
<1>8. Cardinality(Waiting') = Cardinality(Waiting) + 1
  BY <1>6, <1>7, FS_AddElement
<1>9. /\ Cardinality(Named' \ Doomed') \in Nat /\ Cardinality(Named \ Doomed) \in Nat
      /\ Cardinality(Named' \ Doomed') <= Cardinality(Named \ Doomed) + 1
  <2>1. Named' \ Doomed' \subseteq (Named \ Doomed) \cup {second}
    BY <1>2, <1>5
  <2> QED  BY <1>7, <2>1, OneMore
<1>10. ~cutShort => Cardinality(Named \ Doomed) <= MaxBackups + Cardinality(Waiting)
  BY DEF FewRemain, Waiting
<1>11. ~cutShort' => Cardinality(Named' \ Doomed') <= MaxBackups + Cardinality(Waiting')
  BY <1>1, <1>7, <1>8, <1>9, <1>10, Bounds
<1> QED  BY <1>11 DEF FewRemain, Waiting

\* The last MAX_BACKUPS are what a listing leaves.
LEMMA FewListed ==
    ASSUME BackupTypes, BackupTypes', NEW b \in Runs, run[b].pc = "prune",
           run' = [run EXCEPT ![b].pc = "unlink", ![b].old = Oldest], names' = names
    PROVE  FewRemain'
<1> DEFINE r == [run[b] EXCEPT !.pc = "unlink", !.old = Oldest]
           L == Len(names)
           m == IF L > MaxBackups THEN L - MaxBackups ELSE 0
           f == [i \in (m + 1)..L |-> names[i]]
           T == {names[i] : i \in (m + 1)..L}
<1>1. /\ r \in RunRecord /\ run' = [run EXCEPT ![b] = r] /\ r.old = Oldest
      /\ \A i \in DOMAIN names : names[i] \in Elements(Oldest) <=> i <= L - MaxBackups
  BY ListFacts
<1>2. names \in Seq(Seconds) /\ L \in Nat /\ DOMAIN names = 1..L /\ MaxBackups \in Nat
  BY Bounds DEF BackupTypes
<1> HIDE DEF r
<1>3. Elements(Oldest) \subseteq Doomed'
  <2>1. OldOf(b)' = Elements(r.old)
    BY <1>1, RunUpdate
  <2> QED  BY <1>1, <2>1, DoomedBySome
<1> HIDE DEF L
<1>4. Named' \ Doomed' \subseteq T
  <2> SUFFICES ASSUME NEW x \in Named' \ Doomed' PROVE x \in T
    OBVIOUS
  <2>1. PICK i \in 1..L : x = names[i]
    BY <1>2 DEF Named
  <2>2. ~(i <= L - MaxBackups)
    BY <1>1, <1>2, <1>3, <2>1
  <2>3. i \in (m + 1)..L
    BY <1>2, <2>1, <2>2
  <2> QED  BY <2>1, <2>3
<1>5. m \in Nat /\ L - m <= MaxBackups /\ m <= L
  BY <1>2
<1> HIDE DEF m
<1>6. f \in Surjection((m + 1)..L, T)
  BY DEF Surjection
<1> HIDE DEF f, T
<1>7. IsFiniteSet((m + 1)..L) /\ Cardinality((m + 1)..L) <= MaxBackups
  <2>1. m + 1 \in Int /\ L \in Int
    BY <1>2, <1>5
  <2>2. /\ IsFiniteSet((m + 1)..L)
        /\ Cardinality((m + 1)..L) = IF m + 1 > L THEN 0 ELSE L - (m + 1) + 1
    BY <2>1, FS_Interval
  <2> QED  BY <1>2, <1>5, <2>2
<1>8. IsFiniteSet(T) /\ Cardinality(T) <= Cardinality((m + 1)..L)
  BY <1>6, <1>7, FS_Surjection
<1>9. Cardinality(Named' \ Doomed') <= Cardinality(T)
  <2>1. Named' \ Doomed' \in SUBSET T
    BY <1>4
  <2> QED  BY <1>8, <2>1, FS_Subset
<1>10. Cardinality(T) \in Nat /\ Cardinality((m + 1)..L) \in Nat
       /\ Cardinality(Named' \ Doomed') \in Nat /\ Cardinality(Waiting') \in Nat
  <2>1. (Cardinality(Named \ Doomed) \in Nat)' /\ (Cardinality(Waiting) \in Nat)'
    BY Sizes, PTL
  <2> QED  BY <1>7, <1>8, <2>1, FS_CardinalityType
<1>11. Cardinality(Named' \ Doomed') <= MaxBackups + Cardinality(Waiting')
  BY <1>2, <1>7, <1>8, <1>9, <1>10
<1> QED  BY <1>11 DEF FewRemain, Waiting

LEMMA FewSteps ==
    ASSUME CalendarTypes, BackupTypes, BackupTypes', FewRemain, NEW b \in Runs, BackupStep(b),
           ~CopyCalendar(b)
    PROVE  FewRemain'
<1>1. CASE BeginBackup(b)
  BY <1>1, FewBegin
<1>2. CASE CloseBackup(b)
  <2> DEFINE r == [NoRun EXCEPT !.pc = "prune"]
             n == run[b].name
  <2>1. /\ r \in RunRecord /\ r.pc = "prune" /\ r.old = <<>>
        /\ run' = [run EXCEPT ![b] = r] /\ b \in Copying
        /\ n \in Seconds
        /\ \/ n \in Named /\ Touch(n)
           \/ n \notin Named /\ names' = names
        /\ cutShort' = cutShort
    BY <1>2, CloseFacts
  <2> HIDE DEF r, n
  <2>2. Named' = Named
    <3>1. CASE n \in Named /\ Touch(n)
      <4>1. Named' = Named \cup {n}
        BY <2>1, <3>1, TouchOrder
      <4> QED  BY <3>1, <4>1
    <3>2. CASE names' = names
      BY <3>2 DEF Named
    <3> QED  BY <2>1, <3>1, <3>2
  <2>3. /\ run'[b] = r /\ \A c \in Runs \ {b} : run'[c] = run[c]
        /\ \A c \in Runs \ {b} : OldOf(c)' = OldOf(c)
    BY <2>1, RunUpdate
  <2>4. OldOf(b) = {}
    BY <2>1 DEF BackupTypes, OldOf, Copying
  <2>5. Doomed \subseteq Doomed' /\ Waiting \subseteq Waiting'
    BY <2>1, <2>3, <2>4, DoomedBySome DEF Waiting
  <2> QED  BY <2>1, <2>2, <2>5, FewFrame
<1>3. CASE ListOld(b)
  <2>1. CASE cutShort' = TRUE
    BY <2>1, FewFrame
  <2>2. CASE run' = [run EXCEPT ![b].pc = "unlink", ![b].old = Oldest]
    BY <1>3, <2>2, FewListed DEF ListOld
  <2> QED  BY <1>3, <2>1, <2>2 DEF ListOld
<1>4. CASE Unlink(b)
  <2> DEFINE n == Head(run[b].old)
             r == [run[b] EXCEPT !.old = Tail(run[b].old)]
  <2>1. CASE cutShort' = TRUE
    BY <2>1, FewFrame
  <2>2. CASE /\ names' = Without(n) /\ cutShort' = cutShort
             /\ run' = [run EXCEPT ![b].old = Tail(@)]
    <3>1. /\ r \in RunRecord /\ r.pc = "unlink" /\ r.old = Tail(run[b].old)
          /\ run' = [run EXCEPT ![b] = r] /\ run[b].pc = "unlink"
          /\ OldOf(b) = Elements(r.old) \cup {n}
      BY <1>4, <2>2, UnlinkFacts DEF Unlink
    <3> HIDE DEF r, n
    <3>2. /\ run'[b] = r /\ \A c \in Runs \ {b} : run'[c] = run[c]
          /\ OldOf(b)' = Elements(r.old)
          /\ \A c \in Runs \ {b} : OldOf(c)' = OldOf(c)
      BY <3>1, RunUpdate
    <3>3. Named' = Named \ {n}
      <4>1. Elements(names') = Named \ {n}
        BY <2>2, WithoutOrder
      <4> QED  BY <4>1 DEF Elements, Named
    <3>4. Named' \ Doomed' \subseteq Named \ Doomed
      BY <3>1, <3>2, <3>3, DoomedBySome
    <3>5. Waiting \subseteq Waiting'
      BY <3>1, <3>2 DEF Waiting
    <3> QED  BY <2>2, <3>4, <3>5, FewFrame
  <2> QED  BY <1>4, <2>1, <2>2 DEF Unlink
<1>5. CASE FinishBackup(b)
  <2>1. /\ run[b].pc = "unlink" /\ run[b].old = <<>> /\ run' = [run EXCEPT ![b] = NoRun]
        /\ UNCHANGED <<names, cutShort>>
    BY <1>5 DEF FinishBackup
  <2>2. /\ run'[b] = NoRun /\ \A c \in Runs \ {b} : run'[c] = run[c]
        /\ \A c \in Runs \ {b} : OldOf(c)' = OldOf(c)
    BY <2>1, RunUpdate, NothingThere
  <2>3. OldOf(b) = {}
    BY <2>1 DEF OldOf
  <2>4. Doomed \subseteq Doomed' /\ Waiting \subseteq Waiting'
    BY <2>1, <2>2, <2>3, DoomedBySome DEF Waiting
  <2>5. Named' = Named
    BY <2>1 DEF Named
  <2> QED  BY <2>1, <2>4, <2>5, FewFrame
<1>6. CASE FailBackup(b)
  <2>1. cutShort' = TRUE
    BY <1>6 DEF FailBackup
  <2> QED  BY <2>1, FewFrame
<1> QED  BY <1>1, <1>2, <1>3, <1>4, <1>5, <1>6 DEF BackupStep

-----------------------------------------------------------------------------
(* Every run has an archive to itself, unless two begin in one second. *)

LEMMA OwnSteps ==
    ASSUME CalendarTypes, BackupTypes, OwnArchives, NEW b \in Runs, BackupStep(b),
           ~CopyCalendar(b), ~reused'
    PROVE  OwnArchives'
<1>1. CASE BeginBackup(b)
  <2> DEFINE r == [NoRun EXCEPT !.pc = "copy", !.name = second, !.db = db]
  <2>1. /\ r \in RunRecord /\ r.pc = "copy" /\ r.name = second
        /\ run' = [run EXCEPT ![b] = r]
        /\ \A n \in Seconds \ {second} : archive'[n] = archive[n]
        /\ ~archive'[second].whole
        /\ archive'[second].shared = \E c \in Copying : run[c].name = second
        /\ reused' = (reused \/ second = newest)
    BY <1>1, BeginFacts
  <2> HIDE DEF r
  <2>2. /\ run'[b] = r /\ \A c \in Runs \ {b} : run'[c] = run[c]
        /\ Copying' = Copying \cup {b}
    BY <2>1, RunUpdate
  <2>3. \A c \in Copying : run[c].name \in Seconds /\ run[c].name # second
    <3>1. newest \in 0..second /\ second \in 1..MaxSeconds /\ newest # second
      BY <2>1 DEF BackupTypes, Seconds
    <3>2. \A c \in Copying : run[c].name \in 1..newest
      BY DEF BackupTypes
    <3> QED  BY <3>1, <3>2, Bounds DEF Seconds
  <2>4. \A c \in Copying' : c = b \/ (c \in Copying /\ run'[c] = run[c])
    BY <2>2 DEF Copying
  <2>5. \A n \in Seconds : ~archive'[n].shared
    BY <2>1, <2>3 DEF OwnArchives
  <2>6. \A c \in Copying' : ~archive'[run'[c].name].whole
    BY <2>1, <2>2, <2>3, <2>4 DEF OwnArchives
  <2>7. \A c, d \in Copying' : run'[c].name = run'[d].name => c = d
    BY <2>1, <2>2, <2>3, <2>4 DEF OwnArchives
  <2> QED  BY <2>5, <2>6, <2>7 DEF OwnArchives
<1>2. ASSUME Copying' \subseteq Copying, \A c \in Copying' : run'[c] = run[c],
             \A n \in Seconds : ~archive'[n].shared,
             \A c \in Copying' : ~archive'[run[c].name].whole
      PROVE  OwnArchives'
  BY <1>2 DEF OwnArchives
<1>3. CASE CloseBackup(b)
  <2> DEFINE r == [NoRun EXCEPT !.pc = "prune"]
             n == run[b].name
  <2>1. /\ r \in RunRecord /\ r.pc = "prune" /\ run' = [run EXCEPT ![b] = r] /\ b \in Copying
        /\ \A m \in Seconds \ {n} : archive'[m] = archive[m]
        /\ archive'[n].shared = archive[n].shared
        /\ n \in Seconds
    BY <1>3, CloseFacts
  <2> HIDE DEF r
  <2>2. /\ \A c \in Runs \ {b} : run'[c] = run[c]
        /\ Copying' = Copying \ {b}
    BY <2>1, RunUpdate
  <2>3. \A c \in Copying \ {b} : run[c].name \in Seconds /\ run[c].name # n
    <3>1. \A c \in Copying : run[c].name \in Seconds
      BY Bounds DEF BackupTypes, Seconds
    <3> QED  BY <2>1, <3>1 DEF OwnArchives
  <2>4. \A c \in Copying' : run'[c] = run[c]
    BY <2>2 DEF Copying
  <2>5. \A c \in Copying' : ~archive'[run[c].name].whole
    BY <2>1, <2>2, <2>3 DEF OwnArchives
  <2>6. \A m \in Seconds : ~archive'[m].shared
    BY <2>1 DEF OwnArchives
  <2> QED  BY <1>2, <2>2, <2>4, <2>5, <2>6
<1>4. ASSUME NEW r \in RunRecord, r.pc # "copy", run' = [run EXCEPT ![b] = r],
             \A n \in Seconds : archive'[n] = archive[n]
                                \/ (~archive'[n].shared /\ ~archive'[n].whole)
      PROVE  OwnArchives'
  <2>1. /\ \A c \in Runs \ {b} : run'[c] = run[c]
        /\ Copying' = Copying \ {b}
    BY <1>4, RunUpdate
  <2>2. \A c \in Copying' : run'[c] = run[c]
    BY <2>1 DEF Copying
  <2>3. \A c \in Copying' : run[c].name \in Seconds
    BY <2>1, Bounds DEF BackupTypes, Seconds
  <2>4. \A c \in Copying' : ~archive'[run[c].name].whole
    BY <1>4, <2>1, <2>3 DEF OwnArchives
  <2>5. \A n \in Seconds : ~archive'[n].shared
    BY <1>4 DEF OwnArchives
  <2> QED  BY <1>2, <2>1, <2>2, <2>4, <2>5
<1>5. ASSUME run' = [run EXCEPT ![b] = NoRun], archive' = archive
      PROVE  OwnArchives'
  BY <1>4, <1>5, NothingThere
<1>6. CASE ListOld(b)
  <2>1. archive' = archive /\ run[b].pc = "prune"
    BY <1>6 DEF ListOld
  <2>2. CASE run' = [run EXCEPT ![b].pc = "unlink", ![b].old = Oldest]
    <3> DEFINE r == [run[b] EXCEPT !.pc = "unlink", !.old = Oldest]
    <3>1. r \in RunRecord /\ r.pc = "unlink" /\ run' = [run EXCEPT ![b] = r]
      BY <2>1, <2>2, ListFacts
    <3> HIDE DEF r
    <3> QED  BY <1>4, <2>1, <3>1
  <2> QED  BY <1>5, <1>6, <2>1, <2>2 DEF ListOld
<1>7. CASE Unlink(b)
  <2>1. CASE run' = [run EXCEPT ![b].old = Tail(@)]
             /\ archive' = [archive EXCEPT ![Head(run[b].old)] = Begun]
    <3> DEFINE r == [run[b] EXCEPT !.old = Tail(run[b].old)]
    <3>1. r \in RunRecord /\ r.pc = "unlink" /\ run' = [run EXCEPT ![b] = r]
      BY <1>7, <2>1, UnlinkFacts DEF Unlink
    <3>2. \A n \in Seconds : archive'[n] = archive[n]
                             \/ (~archive'[n].shared /\ ~archive'[n].whole)
      BY <2>1, NothingThere DEF BackupTypes
    <3> HIDE DEF r
    <3> QED  BY <1>4, <3>1, <3>2
  <2> QED  BY <1>5, <1>7, <2>1 DEF Unlink
<1>8. CASE FinishBackup(b)
  BY <1>5, <1>8 DEF FinishBackup
<1>9. CASE FailBackup(b)
  BY <1>5, <1>9 DEF FailBackup
<1> QED  BY <1>1, <1>3, <1>6, <1>7, <1>8, <1>9 DEF BackupStep

-----------------------------------------------------------------------------
(* A whole archive remains. *)

\* Fewer are charged, and fewer are deleting less.
LEMMA ChargeFrame ==
    ASSUME NEW f \in [Useless -> Runs], Charge(f),
           NEW W, W \subseteq Useless, NEW C, C \subseteq Copying, NEW D, D \subseteq Deleting
    PROVE  LET g == [x \in W |-> f[x]] IN
           /\ g \in [W -> Runs]
           /\ \A x, y \in W : g[x] = g[y] => x = y
           /\ \A x \in W, n \in Named : g[x] \in C /\ run[g[x]].name = n => Before(x, n)
           /\ \A U \in SUBSET D : U # {} =>
                \E u \in U : \A x \in W : g[x] = u => \A c \in U : x \notin OldOf(c)
<1> DEFINE g == [x \in W |-> f[x]]
<1>1. g \in [W -> Runs] /\ \A x \in W : g[x] = f[x] /\ x \in Useless
  OBVIOUS
<1> HIDE DEF g
<1>2. \A x, y \in W : g[x] = g[y] => x = y
  BY <1>1 DEF Charge
<1>3. \A x \in W, n \in Named : g[x] \in C /\ run[g[x]].name = n => Before(x, n)
  BY <1>1 DEF Charge
<1>4. ASSUME NEW U \in SUBSET D, U # {}
      PROVE  \E u \in U : \A x \in W : g[x] = u => \A c \in U : x \notin OldOf(c)
  <2>1. PICK u \in U : \A x \in Useless : f[x] = u => \A c \in U : x \notin OldOf(c)
    BY <1>4 DEF Charge
  <2> QED  BY <1>1, <2>1
<1> QED  BY <1>1, <1>2, <1>3, <1>4 DEF g

\* Taking doomed archives away, and ending runs that do not copy, leaves it.
LEMMA GoodFrame ==
    ASSUME GoodRemains, ~Calm, secured',
           Named' \subseteq Named, Named \ Named' \subseteq Doomed, Doomed' \subseteq Doomed,
           \A x, y \in Named' : Before(x, y)' <=> Before(x, y),
           \A x \in Named' : archive'[x].whole = archive[x].whole,
           Copying' \subseteq Copying, \A c \in Copying' : run'[c] = run[c],
           \A c \in Copying \ Copying' : run[c].name \notin Named',
           Deleting' \subseteq Deleting, \A c \in Runs : OldOf(c)' \subseteq OldOf(c)
    PROVE  GoodRemains'
<1>1. Good \subseteq Good'
  BY DEF Good
<1>2. \A x \in Named' : Outdone(x) => Outdone(x)'
  <2>1. \A g \in Good : g \in Named'
    BY <1>1 DEF Good
  <2> QED  BY <1>1, <2>1 DEF Outdone
<1>3. Good # {}
  BY DEF GoodRemains
<1>4. \A x \in Pieces' : Outdone(x)'
  <2> SUFFICES ASSUME NEW x \in Pieces' PROVE Outdone(x)'
    OBVIOUS
  <2>1. x \in Named' /\ x \in Pieces
    BY DEF Pieces
  <2> QED  BY <1>2, <2>1 DEF GoodRemains
<1>5. \A c \in Copying', n \in Named' \cap Doomed' : run'[c].name = n => Outdone(n)'
  BY <1>2 DEF GoodRemains
<1>6. Useless' \subseteq Useless
  BY <1>2 DEF Useless
<1>7. \E f \in [Useless' -> Runs] : Charge(f)'
  <2>1. PICK f \in [Useless -> Runs] : Charge(f)
    BY DEF GoodRemains
  <2> DEFINE g == [x \in Useless' |-> f[x]]
  <2>2. /\ g \in [Useless' -> Runs]
        /\ \A x, y \in Useless' : g[x] = g[y] => x = y
        /\ \A x \in Useless', n \in Named :
             g[x] \in Copying' /\ run[g[x]].name = n => Before(x, n)
        /\ \A U \in SUBSET Deleting' : U # {} =>
             \E u \in U : \A x \in Useless' : g[x] = u => \A c \in U : x \notin OldOf(c)
    BY <1>6, <2>1, ChargeFrame
  <2> HIDE DEF g
  <2>3. PICK h \in [Useless' -> Runs] :
        /\ \A x, y \in Useless' : h[x] = h[y] => x = y
        /\ \A x \in Useless', n \in Named :
             h[x] \in Copying' /\ run[h[x]].name = n => Before(x, n)
        /\ \A U \in SUBSET Deleting' : U # {} =>
             \E u \in U : \A x \in Useless' : h[x] = u => \A c \in U : x \notin OldOf(c)
    BY <2>2
  <2>4. \A x \in Useless', n \in Named' :
             h[x] \in Copying' /\ run'[h[x]].name = n => Before(x, n)'
    BY <2>3 DEF Useless
  <2>5. \A U \in SUBSET Deleting' : U # {} =>
             \E u \in U : \A x \in Useless' : h[x] = u => \A c \in U : x \notin OldOf(c)'
    <3> SUFFICES ASSUME NEW U \in SUBSET Deleting', U # {}
                 PROVE  \E u \in U : \A x \in Useless' : h[x] = u
                          => \A c \in U : x \notin OldOf(c)'
      OBVIOUS
    <3>1. PICK u \in U : \A x \in Useless' : h[x] = u => \A c \in U : x \notin OldOf(c)
      BY <2>3
    <3>2. U \subseteq Runs
      BY DEF Deleting
    <3> QED  BY <3>1, <3>2
  <2>6. Charge(h)'
    BY <2>3, <2>4, <2>5 DEF Charge
  <2> QED  BY <2>6
<1> QED  BY <1>1, <1>3, <1>4, <1>5, <1>7 DEF GoodRemains

\* The archive that is begun is the newest, and no good yet.
LEMMA GoodBegin ==
    ASSUME CalendarTypes, BackupTypes, GoodRemains, NEW b \in Runs, BeginBackup(b), ~reused',
           NEW n, n = second
    PROVE  GoodRemains'
<1> DEFINE r == [NoRun EXCEPT !.pc = "copy", !.name = second, !.db = db]
<1>1. /\ r \in RunRecord /\ r.pc = "copy" /\ r.name = n /\ r.old = <<>>
      /\ run' = [run EXCEPT ![b] = r] /\ run[b].pc = "idle"
      /\ \A m \in Seconds \ {n} : archive'[m] = archive[m]
      /\ ~archive'[n].whole
      /\ Touch(n) /\ n \in Seconds
      /\ reused' = (reused \/ n = newest) /\ secured' = secured
  BY BeginFacts
<1>2. /\ Named' = Named \cup {n}
      /\ \A x, y : x # n /\ y # n => (Before(x, y)' <=> Before(x, y))
      /\ \A x \in Named \ {n} : Before(x, n)'
  BY <1>1, TouchOrder
<1>3. newest < n /\ newest \in Nat
  <2>1. newest \in 0..n /\ newest # n
    BY <1>1 DEF BackupTypes
  <2> QED  BY <1>1, <2>1, Bounds DEF Seconds
<1>4. n \notin Named /\ n \notin Doomed /\ \A c \in Copying : run[c].name # n
  <2>1. \A x \in Named \cup Doomed : x <= newest
    BY DEF BackupTypes
  <2>2. \A c \in Copying : run[c].name \in 1..newest
    BY DEF BackupTypes
  <2>3. n \in Nat
    BY <1>1, Bounds DEF Seconds
  <2> QED  BY <1>3, <2>1, <2>2, <2>3
<1> HIDE DEF r
<1>5. /\ run'[b] = r /\ \A c \in Runs \ {b} : run'[c] = run[c]
      /\ \A c \in Runs \ {b} : OldOf(c)' = OldOf(c)
      /\ OldOf(b)' = Elements(r.old)
      /\ Copying' = Copying \cup {b}
      /\ Deleting' = Deleting \ {b}
  BY <1>1, RunUpdate
<1>6. /\ OldOf(b) = {} /\ OldOf(b)' = {} /\ Deleting' = Deleting /\ Doomed' = Doomed
      /\ \A c \in Runs : OldOf(c)' = OldOf(c)
  <2>1. OldOf(b) = {} /\ OldOf(b)' = {} /\ b \notin Deleting
    BY <1>1, <1>5, NothingThere DEF BackupTypes, OldOf, Deleting
  <2>2. Doomed' = Doomed
    BY <1>5, <2>1, DoomedBySome
  <2> QED  BY <1>5, <2>1, <2>2
<1>7. \A x \in Named : x \in Seconds /\ x # n /\ archive'[x] = archive[x]
  BY <1>1, <1>4, Sizes
<1>8. Good' = Good
  BY <1>1, <1>2, <1>4, <1>6, <1>7 DEF Good
<1>9. \A x \in Named : Outdone(x) <=> Outdone(x)'
  <2>1. \A g \in Good : g \in Named
    BY DEF Good
  <2> QED  BY <1>2, <1>7, <1>8, <2>1 DEF Outdone
<1>10. Calm => Calm'
  <2> SUFFICES ASSUME Calm, NEW c \in Runs
               PROVE  run'[c].pc = "idle" \/ (run'[c].pc = "copy" /\ run'[c].name \in Named')
    BY DEF Calm
  <2>1. CASE c = b
    BY <1>1, <1>2, <1>5, <2>1
  <2>2. CASE c # b
    BY <1>2, <1>5, <2>2 DEF Calm
  <2> QED  BY <2>1, <2>2
<1>11. \A c \in Copying' : run'[c].name = n \/ (c \in Copying /\ run'[c] = run[c])
  BY <1>1, <1>5 DEF Copying
<1>12. ASSUME ~Calm, NEW x \in Pieces' PROVE Outdone(x)'
  <2>1. x \in Named' /\ ~archive'[x].whole /\ \A c \in Copying' : run'[c].name # x
    BY <1>12 DEF Pieces
  <2>2. x # n
    BY <1>1, <1>5, <2>1
  <2>3. \A c \in Copying : c # b
    BY <1>1 DEF Copying
  <2>4. x \in Named /\ x \in Pieces
    BY <1>2, <1>5, <1>7, <2>1, <2>2, <2>3 DEF Pieces, Copying
  <2> QED  BY <1>9, <1>12, <2>4 DEF GoodRemains
<1>13. \A c \in Copying', x \in Named' \cap Doomed' : run'[c].name = x => Outdone(x)'
  <2> SUFFICES ASSUME NEW c \in Copying', NEW x \in Named' \cap Doomed', run'[c].name = x
               PROVE  Outdone(x)'
    OBVIOUS
  <2>1. x # n /\ x \in Named \cap Doomed
    BY <1>2, <1>4, <1>6
  <2>2. c \in Copying /\ run[c].name = x
    BY <1>11, <2>1
  <2> QED  BY <1>9, <2>1, <2>2 DEF GoodRemains
<1>14. Useless' = Useless
  <2>1. ASSUME NEW x \in Useless' PROVE x \in Useless
    BY <1>1, <1>2, <1>6, <1>7, <1>9, <2>1 DEF Useless
  <2>2. ASSUME NEW x \in Useless PROVE x \in Useless'
    BY <1>2, <1>6, <1>7, <1>9, <2>2 DEF Useless
  <2> QED  BY <2>1, <2>2
<1>15. \E f \in [Useless' -> Runs] : Charge(f)'
  <2>1. PICK f \in [Useless -> Runs] : Charge(f)
    BY DEF GoodRemains
  <2>2. \A x, y \in Useless' : f[x] = f[y] => x = y
    BY <1>14, <2>1 DEF Charge
  <2>3. ASSUME NEW x \in Useless', NEW m \in Named', f[x] \in Copying', run'[f[x]].name = m
        PROVE  Before(x, m)'
    <3>1. x \in Useless /\ x \in Named
      BY <1>14 DEF Useless
    <3>2. CASE m = n
      <4>1. Before(x, n)'
        BY <1>2, <1>7, <3>1
      <4> QED  BY <3>2, <4>1
    <3>3. CASE m # n
      <4>1. f[x] \in Copying /\ run[f[x]].name = m /\ m \in Named
        BY <1>2, <1>11, <2>3, <3>3
      <4>2. Before(x, m)
        BY <2>1, <3>1, <4>1 DEF Charge
      <4> QED  BY <1>2, <1>7, <3>1, <3>3, <4>2
    <3> QED  BY <3>2, <3>3
  <2>4. ASSUME NEW U \in SUBSET Deleting', U # {}
        PROVE  \E u \in U : \A x \in Useless' : f[x] = u => \A c \in U : x \notin OldOf(c)'
    <3>1. U \in SUBSET Deleting /\ U \subseteq Runs
      BY <1>6 DEF Deleting
    <3>2. PICK u \in U : \A x \in Useless : f[x] = u => \A c \in U : x \notin OldOf(c)
      BY <2>1, <2>4, <3>1 DEF Charge
    <3> QED  BY <1>6, <1>14, <3>1, <3>2
  <2>5. Charge(f)'
    BY <2>2, <2>3, <2>4 DEF Charge
  <2>6. f \in [Useless' -> Runs]
    BY <1>14
  <2> QED  BY <2>5, <2>6
<1> QED
  <2>1. secured' => Good' # {}
    BY <1>1, <1>8 DEF GoodRemains
  <2>2. ~secured' => Calm'
    BY <1>1, <1>10 DEF GoodRemains
  <2>3. Calm' \/ \A x \in Pieces' : Outdone(x)'
    BY <1>10, <1>12
  <2> QED  BY <1>13, <1>15, <2>1, <2>2, <2>3 DEF GoodRemains

\* The archive that is closed is the newest and whole: nothing else is needed,
\* unless another run had listed it as old, and then a better one is newer.
LEMMA GoodClose ==
    ASSUME CalendarTypes, BackupTypes, OwnArchives, GoodRemains,
           NEW b \in Runs, CloseBackup(b), NEW n, n = run[b].name
    PROVE  GoodRemains'
<1> DEFINE r == [NoRun EXCEPT !.pc = "prune"]
<1>1. /\ r \in RunRecord /\ r.pc = "prune" /\ r.old = <<>>
      /\ run' = [run EXCEPT ![b] = r] /\ b \in Copying /\ n \in Seconds
      /\ \A m \in Seconds \ {n} : archive'[m] = archive[m]
      /\ archive'[n].whole
      /\ \/ n \in Named /\ Touch(n)
         \/ n \notin Named /\ names' = names
      /\ secured'
  BY CloseFacts DEF OwnArchives
<1> HIDE DEF r
<1>2. /\ run'[b] = r /\ \A c \in Runs \ {b} : run'[c] = run[c]
      /\ \A c \in Runs \ {b} : OldOf(c)' = OldOf(c)
      /\ OldOf(b)' = Elements(r.old)
      /\ Copying' = Copying \ {b}
      /\ Deleting' = Deleting \ {b}
  BY <1>1, RunUpdate
<1>3. /\ Deleting' = Deleting /\ Doomed' = Doomed
      /\ \A c \in Runs : OldOf(c)' = OldOf(c)
  <2>1. OldOf(b) = {} /\ OldOf(b)' = {} /\ b \notin Deleting
    BY <1>1, <1>2, NothingThere DEF BackupTypes, OldOf, Deleting, Copying
  <2>2. Doomed' = Doomed
    BY <1>2, <2>1, DoomedBySome
  <2> QED  BY <1>2, <2>1, <2>2
<1>4. \A c \in Copying' : c \in Copying /\ run'[c] = run[c] /\ run[c].name # n
  BY <1>1, <1>2 DEF Copying, OwnArchives
<1>5. \A x \in Named : x \in Seconds /\ (x # n => archive'[x] = archive[x])
  BY <1>1, Sizes
<1>6. CASE n \notin Named
  <2>1. names' = names /\ ~Calm
    BY <1>1, <1>6 DEF Calm, Copying
  <2>2. Named' = Named /\ \A x, y : Before(x, y)' <=> Before(x, y)
    BY <2>1 DEF Named, Before
  <2>3. \A x \in Named' : archive'[x].whole = archive[x].whole
    BY <1>5, <1>6, <2>2
  <2>4. \A c \in Copying \ Copying' : run[c].name \notin Named'
    BY <1>2, <1>6, <2>2
  <2> QED  BY <1>1, <1>2, <1>3, <1>4, <2>1, <2>2, <2>3, <2>4, GoodFrame
<1>7. ASSUME n \in Named
      PROVE  /\ Named' = Named
             /\ \A x, y : x # n /\ y # n => (Before(x, y)' <=> Before(x, y))
             /\ \A x \in Named \ {n} : Before(x, n)'
  <2>1. /\ Named' = Named \cup {n}
        /\ \A x, y : x # n /\ y # n => (Before(x, y)' <=> Before(x, y))
        /\ \A x \in Named \ {n} : Before(x, n)'
    BY <1>1, <1>7, TouchOrder
  <2> QED  BY <1>7, <2>1
<1>8. CASE n \in Named \ Doomed
  <2>1. n \in Good'
    BY <1>1, <1>3, <1>7, <1>8 DEF Good
  <2>2. \A x \in Named' \ {n} : Outdone(x)'
    BY <1>7, <1>8, <2>1 DEF Outdone
  <2>3. \A x \in Pieces' : Outdone(x)'
    BY <1>1, <2>2 DEF Pieces
  <2>4. \A c \in Copying', x \in Named' \cap Doomed' : run'[c].name = x => Outdone(x)'
    BY <1>3, <1>8, <2>2
  <2>5. Useless' = {}
    BY <1>3, <1>8, <2>2 DEF Useless
  <2>6. \E f \in [Useless' -> Runs] : Charge(f)'
    <3> DEFINE g == [x \in {} |-> b]
    <3>1. g \in [Useless' -> Runs]
      BY <2>5
    <3>2. PICK f \in [Useless' -> Runs] : TRUE
      BY <3>1
    <3>3. Charge(f)'
      BY <2>5 DEF Charge
    <3> QED  BY <3>3
  <2> QED  BY <1>1, <2>1, <2>3, <2>4, <2>6 DEF GoodRemains
<1>9. CASE n \in Named \cap Doomed
  <2>1. PICK better \in Good : Before(n, better)
    BY <1>1, <1>9 DEF GoodRemains, Outdone
  <2>2. \A x \in Named, g \in Good : Before(x, n) => Before(x, g) \/ ~Before(n, g)
    <3>1. names \in Seq(Seconds) /\ Distinct(names)
      BY DistinctNames DEF BackupTypes
    <3> QED  BY <3>1, OrderIsStrict DEF Before
  <2>3. Good' = Good /\ n \notin Good
    <3>1. \A x : x \in Good => x # n
      BY <1>9 DEF Good
    <3>2. \A x : x \in Good' => x # n
      BY <1>3, <1>9 DEF Good
    <3> QED  BY <1>3, <1>5, <1>7, <1>9, <3>1, <3>2 DEF Good
  <2>4. \A x \in Named \ {n} : Outdone(x) <=> Outdone(x)'
    BY <1>7, <1>9, <2>3 DEF Outdone
  <2>5. ~Calm
    <3>1. PICK c \in Runs : n \in OldOf(c)
      BY <1>9, DoomedBySome
    <3>2. run[c].old # <<>>
      BY <3>1 DEF OldOf
    <3>3. run[c].pc = "unlink"
      BY <3>2 DEF BackupTypes
    <3> QED  BY <3>3 DEF Calm
  <2>6. ASSUME NEW x \in Pieces' PROVE Outdone(x)'
    <3>1. x \in Named /\ x # n
      BY <1>1, <1>7, <1>9 DEF Pieces
    <3>2. x \in Pieces
      <4>1. ~archive[x].whole
        BY <1>5, <3>1 DEF Pieces
      <4>2. \A c \in Copying : run[c].name # x
        <5> SUFFICES ASSUME NEW c \in Copying PROVE run[c].name # x
          OBVIOUS
        <5>1. CASE c = b
          BY <3>1, <5>1
        <5>2. CASE c # b
          BY <1>2, <1>4, <5>2 DEF Pieces
        <5> QED  BY <5>1, <5>2
      <4> QED  BY <3>1, <4>1, <4>2 DEF Pieces
    <3> QED  BY <2>4, <2>5, <3>1, <3>2 DEF GoodRemains
  <2>7. \A c \in Copying', x \in Named' \cap Doomed' : run'[c].name = x => Outdone(x)'
    <3> SUFFICES ASSUME NEW c \in Copying', NEW x \in Named' \cap Doomed', run'[c].name = x
                 PROVE  Outdone(x)'
      OBVIOUS
    <3>1. c \in Copying /\ run[c].name = x /\ x # n /\ x \in Named \cap Doomed
      BY <1>3, <1>4, <1>7, <1>9
    <3>2. Outdone(x)
      BY <3>1 DEF GoodRemains
    <3> QED  BY <2>4, <3>1, <3>2
  <2>8. \A x \in Useless' : x = n \/ x \in Useless
    <3> SUFFICES ASSUME NEW x \in Useless', x # n PROVE x \in Useless
      OBVIOUS
    <3> QED  BY <1>3, <1>5, <1>7, <1>9, <2>4 DEF Useless
  <2>9. \E f \in [Useless' -> Runs] : Charge(f)'
    <3>1. PICK f \in [Useless -> Runs] : Charge(f)
      BY DEF GoodRemains
    <3> DEFINE g == [x \in Useless' |-> IF x = n THEN b ELSE f[x]]
    <3>2. /\ g \in [Useless' -> Runs]
          /\ \A x \in Useless' : (x = n /\ g[x] = b) \/ (x # n /\ x \in Useless /\ g[x] = f[x])
      BY <2>8
    <3> HIDE DEF g
    <3>3. PICK h \in [Useless' -> Runs] :
          \A x \in Useless' : (x = n /\ h[x] = b) \/ (x # n /\ x \in Useless /\ h[x] = f[x])
      BY <3>2
    <3>4. ASSUME NEW x \in Useless, x # n PROVE f[x] # b
      <4> SUFFICES ASSUME f[x] = b PROVE FALSE
        OBVIOUS
      <4>1. Before(x, n)
        BY <1>1, <1>9, <3>1, <3>4 DEF Charge
      <4>2. Before(x, better) /\ x \in Named
        BY <2>1, <2>2, <4>1 DEF Useless
      <4> QED  BY <2>1, <4>2 DEF Useless, Outdone
    <3>5. \A x, y \in Useless' : h[x] = h[y] => x = y
      BY <3>1, <3>3, <3>4 DEF Charge
    <3>6. ASSUME NEW x \in Useless', NEW m \in Named', h[x] \in Copying', run'[h[x]].name = m
          PROVE  Before(x, m)'
      <4>1. x # n /\ x \in Useless /\ h[x] = f[x]
        BY <1>2, <3>3, <3>6
      <4>2. h[x] \in Copying /\ run[h[x]].name = m /\ m # n /\ m \in Named
        BY <1>4, <1>7, <1>9, <3>6
      <4>3. Before(x, m)
        BY <3>1, <4>1, <4>2 DEF Charge
      <4> QED  BY <1>7, <1>9, <4>1, <4>2, <4>3
    <3>7. ASSUME NEW U \in SUBSET Deleting', U # {}
          PROVE  \E u \in U : \A x \in Useless' : h[x] = u => \A c \in U : x \notin OldOf(c)'
      <4>1. U \in SUBSET Deleting /\ U \subseteq Runs /\ b \notin U
        BY <1>2, <1>3 DEF Deleting
      <4>2. PICK u \in U : \A x \in Useless : f[x] = u => \A c \in U : x \notin OldOf(c)
        BY <3>1, <3>7, <4>1 DEF Charge
      <4>3. \A x \in Useless' : h[x] = u => x \in Useless /\ f[x] = u
        BY <3>3, <4>1
      <4> QED  BY <1>3, <4>1, <4>2, <4>3
    <3>8. Charge(h)'
      BY <3>5, <3>6, <3>7 DEF Charge
    <3> QED  BY <3>8
  <2> QED  BY <1>1, <2>1, <2>3, <2>6, <2>7, <2>9 DEF GoodRemains
<1> QED  BY <1>6, <1>8, <1>9

\* As many archives as are kept cannot all be useless or still be written.
LEMMA TooMany ==
    ASSUME BackupTypes, GoodRemains, EnoughKept, NEW b \in Runs, run[b].pc = "prune",
           NEW P, IsFiniteSet(P), Cardinality(P) = MaxBackups,
           \A x \in P : x \in Useless \/ \E c \in Copying : run[c].name = x
    PROVE  FALSE
<1>1. PICK f \in [Useless -> Runs] : Charge(f)
  BY DEF GoodRemains
<1>2. IsFiniteSet(Runs) /\ Cardinality(Runs) \in Nat /\ MaxBackups \in Nat \ {0}
      /\ 2 * Cardinality(Runs) <= MaxBackups + 2
  BY Bounds, FS_CardinalityType DEF EnoughKept
<1> DEFINE A == P \cap Useless
           B == P \ Useless
           g == [x \in B |-> CHOOSE c \in Copying : run[c].name = x]
           k == [x \in A |-> f[x]]
<1>3. IsFiniteSet(A) /\ IsFiniteSet(B) /\ Cardinality(A) \in Nat /\ Cardinality(B) \in Nat
      /\ Cardinality(A) + Cardinality(B) = MaxBackups
  <2>1. A \in SUBSET P /\ B \in SUBSET P
    OBVIOUS
  <2>2. IsFiniteSet(A) /\ IsFiniteSet(B)
    BY <2>1, FS_Subset
  <2>3. Cardinality(A) \in Nat /\ Cardinality(B) \in Nat
    BY <2>2, FS_CardinalityType
  <2>4. A \cup B = P /\ A \cap B = {}
    OBVIOUS
  <2>5. IsFiniteSet(A \cup B)
        /\ Cardinality(A \cup B) = Cardinality(A) + Cardinality(B) - Cardinality(A \cap B)
    BY <2>2, FS_Union
  <2>6. Cardinality({}) = 0
    BY FS_EmptySet
  <2> HIDE DEF A, B
  <2>7. Cardinality(P) = Cardinality(A) + Cardinality(B) - Cardinality({})
    BY <2>4, <2>5
  <2> QED  BY <2>2, <2>3, <2>6, <2>7
<1>4. \A x \in B : g[x] \in Copying /\ run[g[x]].name = x
  OBVIOUS
<1>5. ASSUME NEW S, IsFiniteSet(S), Copying \subseteq S
      PROVE  Cardinality(S) \in Nat /\ Cardinality(B) <= Cardinality(S)
  <2>1. g \in Injection(B, S)
    <3>1. g \in [B -> S]
      BY <1>4, <1>5
    <3>2. \A x, y \in B : g[x] = g[y] => x = y
      BY <1>4
    <3> HIDE DEF g, B
    <3> QED  BY <3>1, <3>2 DEF Injection, IsInjective
  <2> HIDE DEF g, B
  <2> QED  BY <1>5, <2>1, FS_Injection, FS_CardinalityType
<1>6. b \notin Copying /\ Copying \subseteq Runs /\ b \notin Deleting /\ Deleting \subseteq Runs
  BY DEF Copying, Deleting
<1>7. IsFiniteSet(Runs \ {b}) /\ Cardinality(Runs \ {b}) = Cardinality(Runs) - 1
  BY <1>2, FS_RemoveElement
<1>8. CASE Useless = {}
  <2>1. Cardinality(A) = 0
    BY <1>8, FS_EmptySet
  <2>2. Copying \subseteq Runs \ {b}
    BY <1>6
  <2>3. Cardinality(B) <= Cardinality(Runs) - 1
    BY <1>5, <1>7, <2>2
  <2> HIDE DEF A, B
  <2> QED  BY <1>2, <1>3, <2>1, <2>3
<1>9. CASE Useless # {}
  <2>1. \A x \in Useless : \E c \in Deleting : x \in OldOf(c)
    <3> SUFFICES ASSUME NEW x \in Useless PROVE \E c \in Deleting : x \in OldOf(c)
      OBVIOUS
    <3>1. PICK c \in Runs : x \in OldOf(c)
      BY DoomedBySome DEF Useless
    <3>2. run[c].old # <<>>
      BY <3>1 DEF OldOf
    <3>3. c \in Deleting
      BY <3>2 DEF BackupTypes, Deleting
    <3> QED  BY <3>1, <3>3
  <2>2. Deleting # {} /\ Deleting \in SUBSET Deleting
    BY <1>9, <2>1
  <2>3. PICK u \in Deleting : \A x \in Useless : f[x] = u => \A c \in Deleting : x \notin OldOf(c)
    BY <1>1, <2>2 DEF Charge
  <2>4. \A x \in Useless : f[x] # u
    BY <2>1, <2>3
  <2>5. u \in Runs /\ u # b /\ u \notin Copying
    BY <1>6 DEF Deleting, Copying
  <2>6. IsFiniteSet(Runs \ {u}) /\ Cardinality(Runs \ {u}) = Cardinality(Runs) - 1
    BY <1>2, <2>5, FS_RemoveElement
  <2>7. /\ IsFiniteSet((Runs \ {b}) \ {u})
        /\ Cardinality((Runs \ {b}) \ {u}) = Cardinality(Runs) - 2
    <3>1. u \in Runs \ {b}
      BY <2>5
    <3>2. /\ IsFiniteSet((Runs \ {b}) \ {u})
          /\ Cardinality((Runs \ {b}) \ {u}) = Cardinality(Runs \ {b}) - 1
      BY <1>7, <3>1, FS_RemoveElement
    <3> QED  BY <1>2, <1>7, <3>2
  <2>8. Cardinality(A) <= Cardinality(Runs) - 1
    <3>1. k \in [A -> Runs \ {u}]
      BY <2>4
    <3>2. \A x, y \in A : k[x] = k[y] => x = y
      BY <1>1 DEF Charge
    <3> HIDE DEF k, A
    <3>3. k \in Injection(A, Runs \ {u})
      BY <3>1, <3>2 DEF Injection, IsInjective
    <3> QED  BY <2>6, <3>3, FS_Injection
  <2>9. Cardinality(B) <= Cardinality(Runs) - 2
    <3>1. Copying \subseteq (Runs \ {b}) \ {u}
      BY <1>6, <2>5
    <3> QED  BY <1>5, <2>7, <3>1
  <2> HIDE DEF A, B
  <2> QED  BY <1>2, <1>3, <2>8, <2>9
<1> QED  BY <1>8, <1>9

\* A listing that finds anything to delete leaves a good archive, newer than
\* all it has found.
LEMMA SomeGoodLeft ==
    ASSUME BackupTypes, GoodRemains, EnoughKept, NEW b \in Runs, run[b].pc = "prune",
           NEW O, O = Elements(Oldest), O # {}
    PROVE  \E g \in Good : \A x \in O : x # g /\ Before(x, g)
<1> DEFINE L == Len(names)
           m == L - MaxBackups
           P == {names[i] : i \in (m + 1)..L}
           h == [i \in (m + 1)..L |-> names[i]]
<1>1. /\ names \in Seq(Seconds) /\ L \in Nat /\ DOMAIN names = 1..L /\ MaxBackups \in Nat \ {0}
      /\ \A i, j \in 1..L : names[i] = names[j] => i = j
  BY Bounds DEF BackupTypes
<1>2. /\ O \subseteq Named
      /\ \A i \in 1..L : names[i] \in O <=> i <= m
  BY <1>1, OldestFacts
<1> HIDE DEF L
<1>3. m \in Nat /\ m >= 1 /\ m < L
  <2>1. PICK i \in 1..L : names[i] \in O
    BY <1>1, <1>2 DEF Named
  <2> QED  BY <1>1, <1>2, <2>1
<1>4. L - m = MaxBackups
  BY <1>1
<1> HIDE DEF m
<1>5. \A i \in (m + 1)..L : i \in 1..L /\ names[i] \notin O
  BY <1>1, <1>2, <1>3
<1>6. ASSUME NEW x \in P, NEW g \in Good, Before(x, g)
      PROVE  g \in P
  <2>1. PICK i \in 1..L, j \in 1..L : i < j /\ names[i] = x /\ names[j] = g
    BY <1>1, <1>6 DEF Before, Sequenced
  <2>2. i \in (m + 1)..L
    BY <1>1, <1>5, <2>1
  <2>3. j \in (m + 1)..L
    BY <1>3, <2>1, <2>2
  <2> QED  BY <2>1, <2>3
<1>7. ASSUME NEW g \in P, NEW x \in O
      PROVE  x # g /\ Before(x, g)
  <2>1. PICK j \in (m + 1)..L : g = names[j]
    OBVIOUS
  <2>2. PICK i \in 1..L : x = names[i] /\ i <= m
    BY <1>1, <1>2 DEF Named
  <2>3. i < j /\ j \in 1..L /\ g \notin O
    BY <1>1, <1>3, <1>5, <2>1, <2>2
  <2> QED  BY <1>1, <2>1, <2>2, <2>3 DEF Before, Sequenced
<1>8. IsFiniteSet(P) /\ Cardinality(P) = MaxBackups
  <2>1. h \in Surjection((m + 1)..L, P)
    BY DEF Surjection
  <2>2. h \in Injection((m + 1)..L, P)
    BY <1>1, <1>5 DEF Injection, IsInjective
  <2>3. IsFiniteSet((m + 1)..L) /\ Cardinality((m + 1)..L) = MaxBackups
    <3>1. m + 1 \in Int /\ L \in Int
      BY <1>1, <1>3
    <3>2. /\ IsFiniteSet((m + 1)..L)
          /\ Cardinality((m + 1)..L) = IF m + 1 > L THEN 0 ELSE L - (m + 1) + 1
      BY <3>1, FS_Interval
    <3> QED  BY <1>1, <1>3, <1>4, <3>2
  <2> HIDE DEF h, P
  <2> QED  BY <2>1, <2>2, <2>3, FS_Surjection
<1>9. \E g \in Good : g \in P
  <2> SUFFICES ASSUME \A g \in Good : g \notin P PROVE FALSE
    OBVIOUS
  <2>1. ASSUME NEW x \in P PROVE x \in Useless \/ \E c \in Copying : run[c].name = x
    <3>1. ~Outdone(x)
      BY <1>6 DEF Outdone
    <3>2. x \in Named
      BY <1>1, <1>5 DEF Named
    <3>3. CASE archive[x].whole
      BY <3>1, <3>2, <3>3 DEF Good, Useless
    <3>4. CASE ~archive[x].whole
      <4>1. ~Calm
        BY DEF Calm
      <4> QED  BY <3>1, <3>2, <3>4, <4>1 DEF GoodRemains, Pieces
    <3> QED  BY <3>3, <3>4
  <2> HIDE DEF P
  <2> QED  BY <1>8, <2>1, TooMany
<1> QED  BY <1>7, <1>9

\* What the listing finds old has a good archive after it.
LEMMA GoodListed ==
    ASSUME BackupTypes, GoodRemains, EnoughKept, NEW b \in Runs, run[b].pc = "prune",
           run' = [run EXCEPT ![b].pc = "unlink", ![b].old = Oldest],
           names' = names, archive' = archive, secured' = secured,
           NEW O, O = Elements(Oldest)
    PROVE  GoodRemains'
<1> DEFINE r == [run[b] EXCEPT !.pc = "unlink", !.old = Oldest]
<1>1. /\ r \in RunRecord /\ r.pc = "unlink" /\ r.old = Oldest
      /\ run' = [run EXCEPT ![b] = r] /\ O \subseteq Named
  BY ListFacts
<1> HIDE DEF r
<1>2. /\ run'[b] = r /\ \A c \in Runs \ {b} : run'[c] = run[c]
      /\ \A c \in Runs \ {b} : OldOf(c)' = OldOf(c)
      /\ OldOf(b)' = O
      /\ Copying' = (Copying \ {b}) \cup (IF r.pc = "copy" THEN {b} ELSE {})
      /\ Deleting' = (Deleting \ {b}) \cup (IF r.pc = "unlink" THEN {b} ELSE {})
  BY <1>1, RunUpdate
<1>3. OldOf(b) = {} /\ b \notin Copying /\ b \notin Deleting /\ Deleting \subseteq Runs
  BY DEF BackupTypes, OldOf, Copying, Deleting
<1>4. Copying' = Copying /\ Deleting' = Deleting \cup {b}
  BY <1>1, <1>2, <1>3
<1>5. \A c \in Copying : run'[c] = run[c]
  BY <1>2, <1>3 DEF Copying
<1>6. \A x : x \in Doomed' <=> x \in Doomed \/ x \in O
  BY <1>2, <1>3, DoomedBySome
<1>7. Named' = Named /\ \A x, y : Before(x, y)' <=> Before(x, y)
  BY DEF Named, Before
<1>8. ~Calm /\ Good # {} /\ secured'
  <2>1. ~Calm
    BY DEF Calm
  <2> QED  BY <2>1 DEF GoodRemains
<1>9. \A x : x \in Good' <=> x \in Good /\ x \notin O
  BY <1>6, <1>7 DEF Good
<1>10. /\ \A x \in Named : Outdone(x) => Outdone(x)'
       /\ \A x \in O : Outdone(x)'
       /\ Good' # {}
  <2>1. CASE O = {}
    BY <1>7, <1>8, <1>9, <2>1 DEF Outdone
  <2>2. CASE O # {}
    <3>1. PICK g \in Good : \A x \in O : x # g /\ Before(x, g)
      BY <2>2, SomeGoodLeft
    <3>2. g \in Good'
      BY <1>9, <3>1
    <3>3. \A x \in O : Outdone(x)'
      BY <1>7, <3>1, <3>2 DEF Outdone
    <3>4. ASSUME NEW x \in Named, Outdone(x) PROVE Outdone(x)'
      <4>1. PICK h \in Good : Before(x, h)
        BY <3>4 DEF Outdone
      <4>2. CASE h \notin O
        BY <1>7, <1>9, <4>1, <4>2 DEF Outdone
      <4>3. CASE h \in O
        <5>1. names \in Seq(Seconds) /\ Distinct(names) /\ Sequenced(names, x, h)
              /\ Sequenced(names, h, g)
          BY <3>1, <4>1, <4>3, DistinctNames DEF BackupTypes, Before
        <5>2. Before(x, g)
          BY <5>1, OrderIsStrict DEF Before
        <5> QED  BY <1>7, <3>2, <5>2 DEF Outdone
      <4> QED  BY <4>2, <4>3
    <3> QED  BY <3>2, <3>3, <3>4
  <2> QED  BY <2>1, <2>2
<1>11. \A x \in Pieces' : Outdone(x)'
  <2> SUFFICES ASSUME NEW x \in Pieces' PROVE Outdone(x)'
    OBVIOUS
  <2>1. x \in Named /\ x \in Pieces
    BY <1>4, <1>5, <1>7 DEF Pieces
  <2> QED  BY <1>8, <1>10, <2>1 DEF GoodRemains
<1>12. \A c \in Copying', n \in Named' \cap Doomed' : run'[c].name = n => Outdone(n)'
  BY <1>4, <1>5, <1>6, <1>7, <1>10 DEF GoodRemains
<1>13. \A x \in Useless' : x \in Useless /\ x \notin O
  BY <1>6, <1>7, <1>10 DEF Useless
<1>14. \E f \in [Useless' -> Runs] : Charge(f)'
  <2>1. PICK f \in [Useless -> Runs] : Charge(f)
    BY DEF GoodRemains
  <2> DEFINE g == [x \in Useless' |-> f[x]]
  <2>2. g \in [Useless' -> Runs] /\ \A x \in Useless' : g[x] = f[x]
    BY <1>13
  <2> HIDE DEF g
  <2>3. PICK h \in [Useless' -> Runs] : \A x \in Useless' : h[x] = f[x]
    BY <2>2
  <2>4. \A x, y \in Useless' : h[x] = h[y] => x = y
    BY <1>13, <2>1, <2>3 DEF Charge
  <2>5. ASSUME NEW x \in Useless', NEW m \in Named', h[x] \in Copying', run'[h[x]].name = m
        PROVE  Before(x, m)'
    <3>1. f[x] \in Copying /\ run[f[x]].name = m /\ m \in Named /\ x \in Useless
      BY <1>4, <1>5, <1>7, <1>13, <2>3, <2>5
    <3> QED  BY <1>7, <2>1, <3>1 DEF Charge
  <2>6. ASSUME NEW U \in SUBSET Deleting', U # {}
        PROVE  \E u \in U : \A x \in Useless' : h[x] = u => \A c \in U : x \notin OldOf(c)'
    <3> DEFINE V == U \ {b}
    <3>1. \A x \in Useless' : x \notin OldOf(b)'
      BY <1>2, <1>13
    <3>2. CASE V = {}
      BY <2>6, <3>1, <3>2
    <3>3. CASE V # {}
      <4>1. V \in SUBSET Deleting
        BY <1>4
      <4>2. PICK u \in V : \A x \in Useless : f[x] = u => \A c \in V : x \notin OldOf(c)
        BY <2>1, <3>3, <4>1 DEF Charge
      <4>3. \A c \in V : OldOf(c)' = OldOf(c)
        BY <1>2, <1>3, <4>1
      <4>4. \A x \in Useless' : h[x] = u => \A c \in V : x \notin OldOf(c)'
        BY <1>13, <2>3, <4>2, <4>3
      <4>5. \A c \in U : c = b \/ c \in V
        OBVIOUS
      <4> QED  BY <3>1, <4>2, <4>4, <4>5
    <3> QED  BY <3>2, <3>3
  <2>7. Charge(h)'
    BY <2>4, <2>5, <2>6 DEF Charge
  <2> QED  BY <2>7
<1> QED  BY <1>8, <1>10, <1>11, <1>12, <1>14 DEF GoodRemains

\* Where nothing is listed, all that is there remains.
LEMMA GoodCalm ==
    ASSUME GoodRemains, Calm', Doomed' = {}, Deleting' = {},
           Named' = Named, archive' = archive, secured' = secured
    PROVE  GoodRemains'
<1>1. Good \subseteq Good'
  BY DEF Good
<1>2. Useless' = {}
  BY DEF Useless
<1>3. \E f \in [Useless' -> Runs] : Charge(f)'
  <2> DEFINE g == [x \in {} |-> 0]
  <2>1. g \in [Useless' -> Runs]
    BY <1>2
  <2>2. PICK f \in [Useless' -> Runs] : TRUE
    BY <2>1
  <2>3. Charge(f)'
    BY <1>2 DEF Charge
  <2> QED  BY <2>3
<1>4. \A b \in Copying', n \in Named' \cap Doomed' : run'[b].name = n => Outdone(n)'
  OBVIOUS
<1>5. (secured => Good # {})'
  BY <1>1 DEF GoodRemains
<1> QED  BY <1>3, <1>4, <1>5 DEF GoodRemains

\* A run that fails leaves no piece, or no other run has listed anything, nor
\* will before it has closed an archive of its own.
LEMMA GoodFail ==
    ASSUME BackupTypes, GoodRemains, NEW b \in Runs, FailBackup(b), ~failedBeside',
           NEW n, n = run[b].name
    PROVE  GoodRemains'
<1>1. /\ b \in Copying /\ n \in Seconds /\ run' = [run EXCEPT ![b] = NoRun]
      /\ \/ n \in Named /\ Touch(n)
         \/ n \notin Named /\ names' = names
      /\ archive' = archive /\ secured' = secured
      /\ n \in Named => \A c \in Runs \ {b} :
           /\ run[c].pc \notin {"prune", "unlink"}
           /\ run[c].pc = "copy" => run[c].name \in Named
  BY FailFacts
<1>2. /\ run'[b] = NoRun /\ \A c \in Runs \ {b} : run'[c] = run[c]
      /\ \A c \in Runs \ {b} : OldOf(c)' = OldOf(c)
      /\ OldOf(b)' = {} /\ OldOf(b) = {}
      /\ Copying' = Copying \ {b} /\ Deleting' = Deleting
  <2>1. /\ run'[b] = NoRun /\ \A c \in Runs \ {b} : run'[c] = run[c]
        /\ \A c \in Runs \ {b} : OldOf(c)' = OldOf(c)
        /\ OldOf(b)' = Elements(NoRun.old)
        /\ Copying' = (Copying \ {b}) \cup (IF NoRun.pc = "copy" THEN {b} ELSE {})
        /\ Deleting' = (Deleting \ {b}) \cup (IF NoRun.pc = "unlink" THEN {b} ELSE {})
    BY <1>1, RunUpdate, NothingThere
  <2>2. OldOf(b) = {} /\ b \notin Deleting
    BY <1>1 DEF BackupTypes, OldOf, Deleting, Copying
  <2> QED  BY <2>1, <2>2, NothingThere
<1>3. Doomed' = Doomed
  BY <1>2, DoomedBySome
<1>4. CASE n \notin Named
  <2>1. names' = names /\ ~Calm
    BY <1>1, <1>4 DEF Calm, Copying
  <2>2. Named' = Named /\ \A x, y : Before(x, y)' <=> Before(x, y)
    BY <2>1 DEF Named, Before
  <2>3. secured'
    BY <1>1, <2>1 DEF GoodRemains
  <2>4. \A c \in Copying' : run'[c] = run[c]
    BY <1>2 DEF Copying
  <2>5. \A c \in Copying \ Copying' : run[c].name \notin Named'
    BY <1>2, <1>4, <2>2
  <2>6. \A c \in Runs : OldOf(c)' \subseteq OldOf(c)
    BY <1>2
  <2> QED  BY <1>1, <1>2, <1>3, <2>1, <2>2, <2>3, <2>4, <2>5, <2>6, GoodFrame
<1>5. CASE n \in Named
  <2>1. Named' = Named
    <3>1. Named' = Named \cup {n}
      BY <1>1, <1>5, TouchOrder
    <3> QED  BY <1>5, <3>1
  <2>2. \A c \in Runs : run[c].pc \in {"idle", "copy", "prune", "unlink"}
    BY DEF BackupTypes, RunRecord
  <2>3. Calm'
    <3> SUFFICES ASSUME NEW c \in Runs
                 PROVE  run'[c].pc = "idle" \/ (run'[c].pc = "copy" /\ run'[c].name \in Named')
      BY DEF Calm
    <3>1. CASE c = b
      BY <1>2, <3>1, NothingThere
    <3>2. CASE c # b
      BY <1>1, <1>2, <1>5, <2>1, <2>2, <3>2
    <3> QED  BY <3>1, <3>2
  <2>4. \A c \in Runs : run[c].pc # "unlink"
    BY <1>1, <1>5 DEF Copying
  <2>5. Deleting' = {}
    BY <1>2, <2>4 DEF Deleting
  <2>6. Doomed' = {}
    <3>1. \A c \in Runs : OldOf(c) = {}
      BY <2>4 DEF BackupTypes, OldOf
    <3> QED  BY <1>3, <3>1, DoomedBySome
  <2> QED  BY <1>1, <2>1, <2>3, <2>5, <2>6, GoodCalm
<1> QED  BY <1>4, <1>5

LEMMA GoodSteps ==
    ASSUME CalendarTypes, BackupTypes, BackupTypes', OwnArchives, GoodRemains, EnoughKept,
           NEW b \in Runs, BackupStep(b), ~CopyCalendar(b), ~reused', ~failedBeside'
    PROVE  GoodRemains'
<1>1. CASE BeginBackup(b)
  BY <1>1, GoodBegin
<1>2. CASE CloseBackup(b)
  BY <1>2, GoodClose
<1>3. ASSUME run[b].pc \in {"prune", "unlink"}
      PROVE  ~Calm /\ secured
  <2>1. ~Calm
    BY <1>3 DEF Calm
  <2> QED  BY <2>1 DEF GoodRemains
(* a run that ends, its archive closed before *)
<1>4. ASSUME run[b].pc \in {"prune", "unlink"}, run' = [run EXCEPT ![b] = NoRun],
             names' = names, archive' = archive, secured' = secured
      PROVE  GoodRemains'
  <2>1. /\ \A c \in Runs \ {b} : run'[c] = run[c]
        /\ \A c \in Runs \ {b} : OldOf(c)' = OldOf(c)
        /\ OldOf(b)' = {}
        /\ Copying' = Copying \ {b}
        /\ Deleting' = Deleting \ {b}
    <3>1. /\ \A c \in Runs \ {b} : run'[c] = run[c]
          /\ OldOf(b)' = Elements(NoRun.old)
          /\ \A c \in Runs \ {b} : OldOf(c)' = OldOf(c)
          /\ Copying' = (Copying \ {b}) \cup (IF NoRun.pc = "copy" THEN {b} ELSE {})
          /\ Deleting' = (Deleting \ {b}) \cup (IF NoRun.pc = "unlink" THEN {b} ELSE {})
      BY <1>4, RunUpdate, NothingThere
    <3> QED  BY <3>1, NothingThere
  <2>2. Copying' = Copying /\ \A c \in Copying' : run'[c] = run[c]
    BY <1>4, <2>1 DEF Copying
  <2>3. Doomed' \subseteq Doomed /\ \A c \in Runs : OldOf(c)' \subseteq OldOf(c)
    BY <2>1, DoomedBySome
  <2>4. Named' = Named /\ \A x, y : Before(x, y)' <=> Before(x, y)
    BY <1>4 DEF Named, Before
  <2>5. ~Calm /\ secured'
    BY <1>3, <1>4
  <2> QED  BY <1>4, <2>1, <2>2, <2>3, <2>4, <2>5, GoodFrame
<1>5. CASE ListOld(b)
  <2>1. run[b].pc = "prune" /\ names' = names /\ archive' = archive /\ secured' = secured
    BY <1>5 DEF ListOld
  <2>2. CASE run' = [run EXCEPT ![b].pc = "unlink", ![b].old = Oldest]
    BY <2>1, <2>2, GoodListed
  <2>3. CASE run' = [run EXCEPT ![b] = NoRun]
    BY <1>4, <2>1, <2>3
  <2> QED  BY <1>5, <2>2, <2>3 DEF ListOld
<1>6. CASE Unlink(b)
  <2> DEFINE r == [run[b] EXCEPT !.old = Tail(run[b].old)]
  <2>1. run[b].pc = "unlink" /\ run[b].old # <<>> /\ secured' = secured
    BY <1>6 DEF Unlink
  <2>2. CASE run' = [run EXCEPT ![b] = NoRun] /\ names' = names /\ archive' = archive
    BY <1>4, <2>1, <2>2
  <2>3. ASSUME NEW n, n = Head(run[b].old), names' = Without(n),
               archive' = [archive EXCEPT ![n] = Begun],
               run' = [run EXCEPT ![b].old = Tail(@)]
        PROVE  GoodRemains'
    <3>1. /\ r \in RunRecord /\ r.pc = "unlink" /\ r.old = Tail(run[b].old)
          /\ run' = [run EXCEPT ![b] = r]
          /\ n \in OldOf(b) /\ n \in Seconds
          /\ OldOf(b) = Elements(r.old) \cup {n}
      BY <2>1, <2>3, UnlinkFacts
    <3> HIDE DEF r
    <3>2. /\ \A c \in Runs \ {b} : run'[c] = run[c]
          /\ OldOf(b)' = Elements(r.old)
          /\ \A c \in Runs \ {b} : OldOf(c)' = OldOf(c)
          /\ Copying' = (Copying \ {b}) \cup (IF r.pc = "copy" THEN {b} ELSE {})
          /\ Deleting' = (Deleting \ {b}) \cup (IF r.pc = "unlink" THEN {b} ELSE {})
      BY <3>1, RunUpdate
    <3>3. Copying' = Copying /\ Deleting' = Deleting /\ \A c \in Copying' : run'[c] = run[c]
      BY <2>1, <3>1, <3>2 DEF Copying, Deleting
    <3>4. Doomed' \subseteq Doomed /\ n \in Doomed /\ \A c \in Runs : OldOf(c)' \subseteq OldOf(c)
      BY <3>1, <3>2, DoomedBySome
    <3>5. Named' = Named \ {n} /\ \A x, y \in Named' : Before(x, y)' <=> Before(x, y)
      <4>1. Elements(names') = Named \ {n}
            /\ \A x, y : x # n /\ y # n => (Sequenced(names', x, y) <=> Before(x, y))
        BY <2>3, WithoutOrder
      <4>2. Named' = Named \ {n}
        BY <4>1 DEF Elements, Named
      <4>3. \A x, y : Before(x, y)' <=> Sequenced(names', x, y)
        BY DEF Before
      <4> QED  BY <4>1, <4>2, <4>3
    <3>6. \A x \in Named' : archive'[x].whole = archive[x].whole
      BY <2>3, <3>5, Sizes DEF BackupTypes
    <3>7. ~Calm /\ secured'
      BY <1>3, <2>1
    <3>8. Named' \subseteq Named /\ Named \ Named' \subseteq Doomed
      BY <3>4, <3>5
    <3> QED  BY <3>3, <3>4, <3>5, <3>6, <3>7, <3>8, GoodFrame
  <2> QED  BY <1>6, <2>2, <2>3 DEF Unlink
<1>7. CASE FinishBackup(b)
  BY <1>4, <1>7 DEF FinishBackup
<1>8. CASE FailBackup(b)
  BY <1>8, GoodFail
<1> QED  BY <1>1, <1>2, <1>5, <1>6, <1>7, <1>8 DEF BackupStep

\* A kill ends all runs; what they were to delete stays.
LEMMA GoodKill ==
    ASSUME BackupTypes, GoodRemains, KillServer
    PROVE  GoodRemains'
<1>1. Deleting' = {} /\ Doomed' = {} /\ Calm'
  BY KillTypes
<1>2. names' = names /\ archive' = archive /\ secured' = secured
  BY DEF KillServer
<1>3. Named' = Named
  BY <1>2 DEF Named
<1> QED  BY <1>1, <1>2, <1>3, GoodCalm

-----------------------------------------------------------------------------
(* All together *)

BackupInv ==
    /\ BackupTypes
    /\ FewRemain
    /\ ~reused => OwnArchives
    /\ EnoughKept /\ ~reused /\ ~failedBeside => GoodRemains

\* Of the clock, and of what an archive holds, the rest knows nothing.
LEMMA BackupFrame ==
    ASSUME BackupInv, BackupTypes',
           \A n \in Seconds : archive'[n].whole = archive[n].whole
                             /\ archive'[n].shared = archive[n].shared,
           UNCHANGED <<names, run, cutShort, secured, newest, reused, failedBeside>>
    PROVE  BackupInv'
<1>0. /\ Named \subseteq Seconds
      /\ \A c \in Copying : run[c].name \in Seconds
  <2>1. newest \in 0..second /\ second \in Seconds /\ \A c \in Copying : run[c].name \in 1..newest
    BY DEF BackupInv, BackupTypes
  <2> QED  BY <2>1, Sizes, Bounds DEF BackupInv, Seconds
<1>1. /\ Named' = Named /\ Doomed' = Doomed /\ Copying' = Copying /\ Deleting' = Deleting
      /\ \A x, y : Before(x, y)' <=> Before(x, y)
      /\ \A c \in Runs : OldOf(c)' = OldOf(c)
  BY DEF Named, Doomed, Copying, Deleting, Before, OldOf
<1>2. FewRemain'
  BY <1>1 DEF BackupInv, FewRemain
<1>3. OwnArchives' <=> OwnArchives
  BY <1>0, <1>1 DEF OwnArchives
<1>4. ASSUME GoodRemains PROVE GoodRemains'
  <2>1. Good' = Good
    BY <1>0, <1>1 DEF Good
  <2>2. \A x : Outdone(x)' <=> Outdone(x)
    BY <1>1, <2>1 DEF Outdone
  <2>3. Pieces' = Pieces
    BY <1>0, <1>1 DEF Pieces
  <2>4. Useless' = Useless
    BY <1>0, <1>1, <2>2 DEF Useless
  <2>5. Calm' <=> Calm
    BY <1>1 DEF Calm
  <2>6. \E f \in [Useless' -> Runs] : Charge(f)'
    <3>1. PICK f \in [Useless -> Runs] : Charge(f)
      BY <1>4 DEF GoodRemains
    <3>2. \A U \in SUBSET Deleting' : U # {} =>
            \E u \in U : \A x \in Useless' : f[x] = u => \A c \in U : x \notin OldOf(c)'
      <4> SUFFICES ASSUME NEW U \in SUBSET Deleting', U # {}
                   PROVE  \E u \in U : \A x \in Useless' : f[x] = u
                            => \A c \in U : x \notin OldOf(c)'
        OBVIOUS
      <4>1. U \in SUBSET Deleting /\ U \subseteq Runs
        BY <1>1 DEF Deleting
      <4>2. PICK u \in U : \A x \in Useless : f[x] = u => \A c \in U : x \notin OldOf(c)
        BY <3>1, <4>1 DEF Charge
      <4> QED  BY <1>1, <2>4, <4>1, <4>2
    <3>3. Charge(f)'
      BY <1>1, <2>4, <3>1, <3>2 DEF Charge
    <3> QED  BY <2>4, <3>1, <3>3
  <2>7. \A b \in Copying', n \in Named' \cap Doomed' : run'[b].name = n => Outdone(n)'
    BY <1>1, <1>4, <2>2 DEF GoodRemains
  <2> QED  BY <1>4, <2>1, <2>2, <2>3, <2>5, <2>6, <2>7 DEF GoodRemains
<1> QED  BY <1>2, <1>3, <1>4 DEF BackupInv, EnoughKept

LEMMA BackupSteps ==
    ASSUME CalendarTypes, BackupInv, Next
    PROVE  BackupInv'
<1>0. ASSUME NEW b \in Runs, CopyCalendar(b) PROVE BackupInv'
  <2>1. BackupTypes'
    BY <1>0, CopyTypes DEF BackupInv
  <2> QED  BY <1>0, <2>1, CopyFacts, BackupFrame DEF BackupInv
<1>1. ASSUME NEW b \in Runs, BackupStep(b), ~CopyCalendar(b) PROVE BackupInv'
  <2>1. BackupTypes'
    <3>1. BeginBackup(b) => BackupTypes'
      BY BeginTypes DEF BackupInv
    <3>2. CloseBackup(b) => BackupTypes'
      BY CloseTypes DEF BackupInv
    <3>3. ListOld(b) => BackupTypes'
      BY ListTypes DEF BackupInv
    <3>4. Unlink(b) => BackupTypes'
      BY UnlinkTypes DEF BackupInv
    <3>5. FinishBackup(b) => BackupTypes'
      BY FinishTypes DEF BackupInv
    <3>6. FailBackup(b) => BackupTypes'
      BY FailTypes DEF BackupInv
    <3> QED  BY <1>1, <3>1, <3>2, <3>3, <3>4, <3>5, <3>6 DEF BackupStep
  <2>2. FewRemain'
    BY <1>1, <2>1, FewSteps DEF BackupInv
  <2>3. (~reused' => ~reused) /\ (~failedBeside' => ~failedBeside)
    <3>1. CASE BeginBackup(b)
      <4>1. reused' = (reused \/ second = newest) /\ failedBeside' = failedBeside
        BY <3>1 DEF BeginBackup
      <4>2. {reused, failedBeside} \subseteq BOOLEAN
        BY DEF BackupInv, BackupTypes
      <4> QED  BY <4>1, <4>2
    <3>2. CASE FailBackup(b)
      <4>1. reused' = reused /\ (failedBeside => failedBeside')
        BY <3>2 DEF FailBackup
      <4> QED  BY <4>1
    <3>3. CASE CloseBackup(b) \/ ListOld(b) \/ Unlink(b) \/ FinishBackup(b)
      <4>1. reused' = reused /\ failedBeside' = failedBeside
        BY <3>3 DEF CloseBackup, ListOld, Unlink, FinishBackup
      <4> QED  BY <4>1
    <3> QED  BY <1>1, <3>1, <3>2, <3>3 DEF BackupStep
  <2>4. ~reused' => OwnArchives'
    BY <1>1, <2>3, OwnSteps DEF BackupInv
  <2>5. EnoughKept /\ ~reused' /\ ~failedBeside' => GoodRemains'
    BY <1>1, <2>1, <2>3, GoodSteps DEF BackupInv
  <2> QED  BY <2>1, <2>2, <2>4, <2>5 DEF BackupInv, EnoughKept
<1>2. CASE NextSecond
  <2>1. BackupTypes'
    BY <1>2, SecondTypes DEF BackupInv
  <2> QED  BY <1>2, <2>1, BackupFrame DEF NextSecond
<1>3. CASE KillServer
  <2>1. BackupTypes' /\ Copying' = {}
    BY <1>3, KillTypes DEF BackupInv
  <2>2. cutShort' /\ reused' = reused /\ archive' = archive /\ failedBeside' = failedBeside
    BY <1>3 DEF KillServer
  <2>3. FewRemain'
    BY <2>2 DEF FewRemain
  <2>4. OwnArchives => OwnArchives'
    BY <2>1, <2>2 DEF OwnArchives
  <2>5. GoodRemains => GoodRemains'
    BY <1>3, GoodKill DEF BackupInv
  <2> QED  BY <2>1, <2>2, <2>3, <2>4, <2>5 DEF BackupInv, EnoughKept
(* the others leave the backups alone *)
<1>4. ASSUME UNCHANGED backupState PROVE BackupInv'
  <2>1. BackupTypes'
    BY <1>4 DEF backupState, BackupInv, BackupTypes, Named, Doomed, Copying
  <2> QED  BY <1>4, <2>1, BackupFrame DEF backupState
<1>5. ASSUME NEW e \in Events, add_event(e) \/ delete_event(e) PROVE BackupInv'
  BY <1>4, <1>5 DEF add_event, delete_event, Open
<1>6. ASSUME NEW n \in Seconds, restore_backup(n) \/ cmd_db_restore(n) PROVE BackupInv'
  BY <1>4, <1>6 DEF restore_backup, cmd_db_restore, Extract, Open
<1>7. CASE Commit \/ StartServer
  BY <1>4, <1>7 DEF Commit, StartServer
<1>8. ASSUME NEW w \in Processes, Write(w) \/ FailWrite(w) PROVE BackupInv'
  BY <1>4, <1>8 DEF Write, FailWrite, Closed
<1> QED  BY <1>0, <1>1, <1>2, <1>3, <1>5, <1>6, <1>7, <1>8 DEF Next

LEMMA InitIInv == Init => IInv
<1> SUFFICES ASSUME Init PROVE IInv
  OBVIOUS
<1> USE DEF Init
<1>1. CalendarTypes /\ CalendarKept
  <2>1. db \in 0..MaxCommits /\ kills \in 0..MaxKills
    BY Bounds
  <2>2. calendar \in SUBSET Events /\ kept \in SUBSET Events
    OBVIOUS
  <2>3. pen \in [Processes -> Calendars] /\ \A w \in Processes : pen[w] = Nothing
    BY DEF Calendars
  <2> QED  BY <2>1, <2>2, <2>3 DEF CalendarTypes, CalendarKept
<1>2. /\ names \in Seq(Seconds) /\ names = <<>> /\ Named = {}
      /\ archive \in [Seconds -> Archive] /\ \A n \in Seconds : archive[n] = Begun
      /\ run \in [Runs -> RunRecord] /\ \A b \in Runs : run[b] = NoRun
  BY NothingThere DEF Named
<1>3. \A b \in Runs : run[b].pc = "idle" /\ run[b].old = <<>> /\ OldOf(b) = {}
  BY <1>2, NothingThere DEF OldOf
<1>4. Copying = {} /\ Deleting = {} /\ Waiting = {} /\ Doomed = {} /\ Calm
  <2>1. Doomed = {}
    BY <1>3, DoomedBySome
  <2> QED  BY <1>3, <2>1 DEF Copying, Deleting, Waiting, Calm
<1>5. second \in Seconds /\ newest \in 0..second
  BY Bounds DEF Seconds
<1>6. BackupTypes
  <2>1. cutShort \in BOOLEAN /\ secured \in BOOLEAN /\ reused \in BOOLEAN
        /\ failedBeside \in BOOLEAN
    OBVIOUS
  <2>2. \A i, j \in DOMAIN names : names[i] = names[j] => i = j
    BY <1>2
  <2> QED  BY ONLY <1>2, <1>3, <1>4, <1>5, <2>1, <2>2 DEF BackupTypes
<1>7. FewRemain
  <2>1. Cardinality(Named \ Doomed) = 0 /\ Cardinality(Waiting) = 0
    BY <1>2, <1>4, FS_EmptySet
  <2> QED  BY <2>1, Bounds DEF FewRemain, Waiting
<1>8. OwnArchives
  BY <1>2, <1>4, NothingThere DEF OwnArchives
<1>9. GoodRemains
  <2>1. Useless = {} /\ Pieces = {}
    BY <1>2 DEF Useless, Pieces
  <2>2. \E f \in [Useless -> Runs] : Charge(f)
    <3> DEFINE g == [x \in {} |-> 0]
    <3>1. g \in [Useless -> Runs]
      BY <2>1
    <3>2. Charge(g)
      BY <1>4, <2>1 DEF Charge
    <3> QED  BY <3>1, <3>2
  <2> QED  BY <1>4, <2>1, <2>2 DEF GoodRemains
<1> QED  BY <1>1, <1>6, <1>7, <1>8, <1>9 DEF IInv

LEMMA NextIInv == IInv /\ [Next]_vars => IInv'
<1> SUFFICES ASSUME IInv, [Next]_vars PROVE IInv'
  OBVIOUS
<1>1. BackupInv
  BY DEF IInv, BackupInv
<1>2. CASE Next
  <2>1. CalendarTypes' /\ CalendarKept'
    BY <1>2, CalendarSteps DEF IInv
  <2>2. BackupInv'
    BY <1>1, <1>2, BackupSteps DEF IInv
  <2> QED  BY <2>1, <2>2 DEF IInv, BackupInv
<1>3. CASE UNCHANGED vars
  <2>1. CalendarTypes' /\ CalendarKept'
    BY <1>3 DEF vars, IInv, CalendarTypes, CalendarKept, Others
  <2>2. BackupTypes'
    BY <1>1, <1>3 DEF vars, BackupInv, BackupTypes, Named, Doomed, Copying
  <2>3. BackupInv'
    BY <1>1, <1>3, <2>2, BackupFrame DEF vars
  <2> QED  BY <2>1, <2>3 DEF IInv, BackupInv
<1> QED  BY <1>2, <1>3

\* The invariant that the theorems below follow from: types; the only writer of
\* the calendar is about to write what belongs there; one archive to a run while
\* no two begin in one second; and of the archives that will remain one that is
\* whole and newer than all that is of no use, which are fewer than MAX_BACKUPS,
\* unless a run has failed beside one that had yet to list: _prune_old_backups
\* never gets past it.
THEOREM WorkspaceInvariant == Spec => []IInv
<1>1. Init => IInv
  BY InitIInv
<1>2. IInv /\ [Next]_vars => IInv'
  BY NextIInv
<1> QED  BY <1>1, <1>2, PTL DEF Spec

\* backups/ holds, beside what is about to be deleted, no more than MAX_BACKUPS
\* and one archive for each run that has yet to prune, unless a run has failed or
\* been killed since the last listing.
THEOREM WorkspaceTypeCorrect == Spec => []TypeOK
<1>1. IInv => TypeOK
  <2> SUFFICES ASSUME IInv PROVE TypeOK
    OBVIOUS
  <2>1. \A i, j \in DOMAIN names : names[i] \in Seconds /\ (names[i] = names[j] => i = j)
    BY DEF IInv, BackupTypes
  <2>2. \A b \in Runs : run[b].pc \in {"idle", "copy", "prune", "unlink"}
    BY DEF IInv, BackupTypes, RunRecord
  <2>3. /\ {up, reused, secured, disturbed, failedBeside} \subseteq BOOLEAN
        /\ calendar \subseteq Events /\ underneath \subseteq Processes
        /\ \A w \in Processes : pen[w] = Nothing \/ pen[w] \subseteq Events
        /\ db \in 0..MaxCommits /\ second \in Seconds /\ kills \in 0..MaxKills
    BY DEF IInv, CalendarTypes, BackupTypes, Calendars
  <2>4. ~cutShort => Cardinality(Named \ Doomed) <=
          MaxBackups + Cardinality({b \in Runs : run[b].pc \in {"copy", "prune"}})
    BY DEF IInv, FewRemain
  <2> QED  BY <2>1, <2>2, <2>3, <2>4 DEF TypeOK
<1> QED  BY <1>1, WorkspaceInvariant, PTL

\* Once run_backup has completed an archive, one that is whole is there, though
\* runs overlap, prune, fail and are killed, unless two began in one second
\* (_create_backup's names) or one failed beside a run that was pruning.
THEOREM WholeBackupsRemain == Spec => []WholeBackupRemains
<1>1. IInv => WholeBackupRemains
  BY DEF IInv, GoodRemains, Good, WholeBackupRemains
<1> QED  BY <1>1, WorkspaceInvariant, PTL

\* calendar.json holds what the last restore, add_event and delete_event left
\* there, whatever is backed up and pruned beside them, until a write of the
\* client overlaps one of the server's or a write is cut off.
THEOREM EventsAlwaysSurvive == Spec => []EventsSurvive
<1>1. IInv => EventsSurvive
  BY DEF IInv, CalendarKept, EventsSurvive
<1> QED  BY <1>1, WorkspaceInvariant, PTL
=============================================================================
