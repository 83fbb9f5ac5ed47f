----------------------------- MODULE SchemaProofs -----------------------------
(***************************************************************************)
(* Proofs about the schema, for any number of processes, any programs, any *)
(* database to start from and any number of stops and rollbacks.           *)
(*                                                                         *)
(* The argument is one invariant over what the programs still have to run: *)
(* what a statement wants is there already, or an earlier statement of the *)
(* same program gives it.                                                  *)
(***************************************************************************)
EXTENDS Schema, SequenceTheorems, TLAPS

(* What has to be there when a statement is reached. *)
Wants(s) ==
    CASE s.do \in {"create", "add"} -> s.needs \ {"memory/"}
      [] s.do = "record"   -> Made(s.name)
      [] s.do = "serve"    -> Objects
      [] OTHER             -> {}

(* What is there once it has been run; "read" stands for the statements of *)
(* the files that turn out to be pending.                                  *)
Gives(s) ==
    CASE s.do \in {"create", "add"} -> {s.name}
      [] s.do = "read" -> Objects \ {"memory/"}
      [] OTHER -> {}

Provided(H, s, i, o) == o \in H \/ \E j \in 1..(i-1) : o \in Gives(s[j])

Sound(H, s) == \A i \in 1..Len(s) : \A o \in Wants(s[i]) : Provided(H, s, i, o)

AllGiven(s) == UNION {Gives(s[j]) : j \in 1..Len(s)}

Deed == {"read", "serve", "assign", "heredoc", "forget"}

Statement ==
    [do : {"create", "add", "try"}, name : Objects,
     with : SUBSET Objects, needs : SUBSET Objects]
    \cup [do : {"record"}, name : Files, with : {{}}, needs : {{}}]
    \cup [do : Deed, name : Deed \cup {"admin"} \cup RollbackFiles,
          with : {{}}, needs : SUBSET Objects]

\* The inductive invariant.
IInv == /\ TypeOK
        /\ todo \in [Procs -> Seq(Statement)]
        /\ \A p \in Procs : Sound(schema, todo[p])
        /\ RecordedIsApplied
        /\ ServingHasSchema

-----------------------------------------------------------------------------
(* The migration files *)

\* What each file makes, read off its statements.
LEMMA MadeBy ==
    /\ Made("001") = {"messages", "idx_conversation_id", "conversations"}
    /\ Made("002") = {"messages.embedding"}
    /\ Made("003") = {"users", "user_preferences", "messages.user_id",
                      "conversations.user_id", "refresh_tokens"}
    /\ Made("004") = {"sessions", "idx_sessions"}
    /\ Made("005") = {"idx_messages", "idx_conversations", "idx_refresh_tokens"}
    /\ Made("006") = {"audit_log", "idx_audit"}
    /\ Made("007") = {"schema_migrations"}
<1> USE DEF Made, Statements, Table, Index, Column, Stmt
<1>1. Made("001") = {"messages", "idx_conversation_id", "conversations"}
  OBVIOUS
<1>2. Made("002") = {"messages.embedding"}
  OBVIOUS
<1>3. Made("003") = {"users", "user_preferences", "messages.user_id",
                     "conversations.user_id", "refresh_tokens"}
  OBVIOUS
<1>4. Made("004") = {"sessions", "idx_sessions"}
  OBVIOUS
<1>5. Made("005") = {"idx_messages", "idx_conversations", "idx_refresh_tokens"}
  OBVIOUS
<1>6. Made("006") = {"audit_log", "idx_audit"}
  OBVIOUS
<1>7. Made("007") = {"schema_migrations"}
  OBVIOUS
<1> QED  BY <1>1, <1>2, <1>3, <1>4, <1>5, <1>6, <1>7

\* The seven files, in the order of their names.
LEMMA SevenFiles ==
    /\ Len(MigrationFiles) = 7
    /\ Files = {"001", "002", "003", "004", "005", "006", "007"}
    /\ \A n \in 1..7 : MigrationFiles[n] \in Files
BY DEF MigrationFiles, Files

\* The objects of all releases.
LEMMA ObjectNames ==
    Objects = {"memory/", "messages", "idx_conversation_id", "conversations",
               "messages.embedding", "users", "user_preferences", "messages.user_id",
               "conversations.user_id", "refresh_tokens", "sessions", "idx_sessions",
               "idx_messages", "idx_conversations", "idx_refresh_tokens",
               "audit_log", "idx_audit", "schema_migrations"}
<1>1. UNION {Made(f) : f \in Files} =
        Made("001") \cup Made("002") \cup Made("003") \cup Made("004")
        \cup Made("005") \cup Made("006") \cup Made("007")
  BY SevenFiles
<1> QED  BY <1>1, MadeBy DEF Objects

\* Unfolding of the recursive definition of the pending files.
LEMMA PendingSteps ==
    /\ Pending[0] = <<>>
    /\ \A n \in 1..7 : Pending[n] = Pending[n-1] \o
          (IF MigrationFiles[n] \in recorded THEN <<>> ELSE Apply(MigrationFiles[n]))
<1> DEFINE step(n) == IF MigrationFiles[n] \in recorded THEN <<>>
                      ELSE Apply(MigrationFiles[n])
           P1 == <<>> \o step(1)
           P2 == P1 \o step(2)
           P3 == P2 \o step(3)
           P4 == P3 \o step(4)
           P5 == P4 \o step(5)
           P6 == P5 \o step(6)
           P7 == P6 \o step(7)
           F == [n \in 0..7 |-> IF n = 0 THEN <<>> ELSE IF n = 1 THEN P1
                   ELSE IF n = 2 THEN P2 ELSE IF n = 3 THEN P3 ELSE IF n = 4 THEN P4
                   ELSE IF n = 5 THEN P5 ELSE IF n = 6 THEN P6 ELSE P7]
           IsPending(g) == g = [n \in 0..7 |-> IF n = 0 THEN <<>> ELSE g[n-1] \o step(n)]
<1>1. IsPending(F)
  <2> HIDE DEF step
  <2> QED  OBVIOUS
<1>2. Pending = CHOOSE g : IsPending(g)
  BY SevenFiles DEF Pending
<1> HIDE DEF F, IsPending
<1>3. IsPending(Pending)
  BY <1>1, <1>2
<1> HIDE DEF step
<1>4. Pending = [n \in 0..7 |-> IF n = 0 THEN <<>> ELSE Pending[n-1] \o step(n)]
  BY <1>3 DEF IsPending
<1> HIDE DEF P1, P2, P3, P4, P5, P6, P7
<1>5. \A n \in 0..7 : Pending[n] = IF n = 0 THEN <<>> ELSE Pending[n-1] \o step(n)
  BY <1>4
<1>6. 0 \in 0..7 /\ \A n \in 1..7 : n \in 0..7 /\ n # 0
  OBVIOUS
<1>7. Pending[0] = <<>> /\ \A n \in 1..7 : Pending[n] = Pending[n-1] \o step(n)
  BY <1>5, <1>6
<1> QED  BY <1>7 DEF step

-----------------------------------------------------------------------------
(* Sound sequences of statements *)

\* What is sound stays sound when more is there.
LEMMA SoundMonotone ==
    ASSUME NEW H, NEW K, H \subseteq K, NEW s, Sound(H, s)
    PROVE  Sound(K, s)
BY DEF Sound, Provided

\* The head of a sound sequence may run, and what is left is sound with what
\* it gave.
LEMMA SoundTail ==
    ASSUME NEW H, NEW s \in Seq(Statement), s # <<>>, Sound(H, s)
    PROVE  /\ Wants(Head(s)) \subseteq H
           /\ Sound(H \cup Gives(Head(s)), Tail(s))
<1>1. Len(s) \in Nat /\ Len(s) # 0 /\ Head(s) = s[1]
  BY EmptySeq
<1>2. /\ Len(Tail(s)) = Len(s) - 1
      /\ \A i \in 1..Len(Tail(s)) : Tail(s)[i] = s[i+1]
  BY <1>1
<1>3. Wants(Head(s)) \subseteq H
  BY <1>1 DEF Sound, Provided
<1>4. ASSUME NEW i \in 1..Len(Tail(s)), NEW o \in Wants(Tail(s)[i])
      PROVE  Provided(H \cup Gives(Head(s)), Tail(s), i, o)
  <2>1. i + 1 \in 1..Len(s) /\ o \in Wants(s[i+1])
    BY <1>1, <1>2
  <2>2. Provided(H, s, i+1, o)
    BY <2>1 DEF Sound
  <2>3. CASE o \in H
    BY <2>3 DEF Provided
  <2>4. ASSUME NEW j \in 1..((i+1)-1), o \in Gives(s[j])
        PROVE  Provided(H \cup Gives(Head(s)), Tail(s), i, o)
    <3>1. CASE j = 1
      BY <1>1, <2>4, <3>1 DEF Provided
    <3>2. CASE j # 1
      <4>1. j - 1 \in 1..(i-1) /\ j - 1 \in 1..Len(Tail(s)) /\ (j-1)+1 = j
        BY <1>1, <1>2, <3>2
      <4>2. Tail(s)[j-1] = s[j]
        BY <1>2, <4>1
      <4> QED  BY <2>4, <4>1, <4>2 DEF Provided
    <3> QED  BY <3>1, <3>2
  <2> QED  BY <2>2, <2>3, <2>4 DEF Provided
<1> QED  BY <1>3, <1>4 DEF Sound

\* Sound sequences one after the other, the second with what the first gives.
LEMMA SoundConcat ==
    ASSUME NEW H, NEW s \in Seq(Statement), NEW t \in Seq(Statement),
           NEW K, K \subseteq H \cup AllGiven(s), Sound(H, s), Sound(K, t)
    PROVE  /\ s \o t \in Seq(Statement)
           /\ Sound(H, s \o t)
           /\ AllGiven(s \o t) = AllGiven(s) \cup AllGiven(t)
<1> DEFINE u == s \o t
<1>1. /\ Len(s) \in Nat /\ Len(t) \in Nat /\ Len(u) = Len(s) + Len(t)
      /\ \A i \in 1..Len(s) : u[i] = s[i]
      /\ \A i \in 1..Len(t) : u[Len(s) + i] = t[i]
  BY ConcatProperties, LenProperties
<1> HIDE DEF u
<1>2. \A i \in 1..Len(u) : i \in 1..Len(s) \/ \E k \in 1..Len(t) : i = Len(s) + k
  <2> SUFFICES ASSUME NEW i \in 1..Len(u), i \notin 1..Len(s)
               PROVE  \E k \in 1..Len(t) : i = Len(s) + k
    OBVIOUS
  <2>1. i - Len(s) \in 1..Len(t) /\ i = Len(s) + (i - Len(s))
    BY <1>1
  <2> QED  BY <2>1
<1>3. ASSUME NEW i \in 1..Len(s), NEW o \in Wants(u[i])
      PROVE  Provided(H, u, i, o)
  <2>1. \A j \in 1..(i-1) : j \in 1..Len(s) /\ u[j] = s[j]
    BY <1>1
  <2>2. Provided(H, s, i, o)
    BY <1>1, <1>3 DEF Sound
  <2> QED  BY <2>1, <2>2 DEF Provided
<1>4. ASSUME NEW k \in 1..Len(t), NEW o \in Wants(u[Len(s) + k])
      PROVE  Provided(H, u, Len(s) + k, o)
  <2>1. Provided(K, t, k, o)
    BY <1>1, <1>4 DEF Sound
  <2>2. CASE o \in H
    BY <2>2 DEF Provided
  <2>3. ASSUME NEW j \in 1..Len(s), o \in Gives(s[j])
        PROVE  Provided(H, u, Len(s) + k, o)
    <3>1. j \in 1..((Len(s) + k) - 1) /\ u[j] = s[j]
      BY <1>1
    <3> QED  BY <2>3, <3>1 DEF Provided
  <2>4. ASSUME NEW j \in 1..(k-1), o \in Gives(t[j])
        PROVE  Provided(H, u, Len(s) + k, o)
    <3>1. Len(s) + j \in 1..((Len(s) + k) - 1) /\ j \in 1..Len(t)
      BY <1>1
    <3>2. u[Len(s) + j] = t[j]
      BY <1>1, <3>1
    <3> QED  BY <2>4, <3>1, <3>2 DEF Provided
  <2> QED  BY <2>1, <2>2, <2>3, <2>4 DEF Provided, AllGiven
<1>5. Sound(H, u)
  BY <1>2, <1>3, <1>4 DEF Sound
<1>6. AllGiven(u) = AllGiven(s) \cup AllGiven(t)
  <2>1. ASSUME NEW o \in AllGiven(u)
        PROVE  o \in AllGiven(s) \cup AllGiven(t)
    <3>1. PICK i \in 1..Len(u) : o \in Gives(u[i])
      BY <2>1 DEF AllGiven
    <3> QED  BY <1>1, <1>2, <3>1 DEF AllGiven
  <2>2. ASSUME NEW i \in 1..Len(s), NEW o \in Gives(s[i])
        PROVE  o \in AllGiven(u)
    <3>1. i \in 1..Len(u) /\ u[i] = s[i]
      BY <1>1
    <3> QED  BY <2>2, <3>1 DEF AllGiven
  <2>3. ASSUME NEW i \in 1..Len(t), NEW o \in Gives(t[i])
        PROVE  o \in AllGiven(u)
    <3>1. Len(s) + i \in 1..Len(u) /\ u[Len(s) + i] = t[i]
      BY <1>1
    <3> QED  BY <2>3, <3>1 DEF AllGiven
  <2>4. AllGiven(s) \cup AllGiven(t) \subseteq AllGiven(u)
    BY <2>2, <2>3 DEF AllGiven
  <2> QED  BY <2>1, <2>4
<1>7. u \in Seq(Statement)
  BY ConcatProperties DEF u
<1> QED  BY <1>5, <1>6, <1>7 DEF u

-----------------------------------------------------------------------------
(* The programs *)

\* What the statements that define objects want and give.
LEMMA Definitions ==
    /\ "memory/" \in Objects
    /\ \A t \in Objects, w \in SUBSET Objects :
          /\ Table(t, w) \in Statement
          /\ Wants(Table(t, w)) = {} /\ Gives(Table(t, w)) = {t}
    /\ \A x \in Objects, n \in SUBSET Objects :
          /\ Index(x, n) \in Statement
          /\ Wants(Index(x, n)) = n \ {"memory/"} /\ Gives(Index(x, n)) = {x}
    /\ \A t \in Objects, c \in Objects :
          /\ Column(t, c) \in Statement /\ Try(Column(t, c)) \in Statement
          /\ Wants(Column(t, c)) = {t} \ {"memory/"} /\ Gives(Column(t, c)) = {c}
          /\ Wants(Try(Column(t, c))) = {} /\ Gives(Try(Column(t, c))) = {}
<1>1. "memory/" \in Objects
  BY ObjectNames
<1>2. ASSUME NEW t \in Objects, NEW w \in SUBSET Objects
      PROVE  /\ Table(t, w) \in Statement
             /\ Wants(Table(t, w)) = {} /\ Gives(Table(t, w)) = {t}
  BY <1>1 DEF Table, Stmt, Statement, Wants, Gives
<1>3. ASSUME NEW x \in Objects, NEW n \in SUBSET Objects
      PROVE  /\ Index(x, n) \in Statement
             /\ Wants(Index(x, n)) = n \ {"memory/"} /\ Gives(Index(x, n)) = {x}
  BY DEF Index, Stmt, Statement, Wants, Gives
<1>4. ASSUME NEW t \in Objects, NEW c \in Objects
      PROVE  /\ Column(t, c) \in Statement /\ Try(Column(t, c)) \in Statement
             /\ Wants(Column(t, c)) = {t} \ {"memory/"} /\ Gives(Column(t, c)) = {c}
             /\ Wants(Try(Column(t, c))) = {} /\ Gives(Try(Column(t, c))) = {}
  BY DEF Column, Try, Stmt, Statement, Wants, Gives
<1> QED  BY <1>1, <1>2, <1>3, <1>4

\* The statements of a file are sound where the earlier files' objects are.
LEMMA FileSound ==
    ASSUME NEW n \in 1..7, NEW H,
           \A k \in 1..(n-1) : Made(MigrationFiles[k]) \subseteq H
    PROVE  LET s == Statements(MigrationFiles[n])
           IN  /\ s \in Seq(Statement)
               /\ AllGiven(s) = Made(MigrationFiles[n])
               /\ Sound(H, s)
<1> DEFINE f == MigrationFiles[n]
           s == Statements(f)
<1>1. f \in Files
  BY SevenFiles
<1>2. s \in Seq(Statement)
  <2> USE Definitions, ObjectNames DEF Statements
  <2>1. CASE f = "001"  BY <2>1
  <2>2. CASE f = "002"  BY <2>2
  <2>3. CASE f = "003"  BY <2>3
  <2>4. CASE f = "004"  BY <2>4
  <2>5. CASE f = "005"  BY <2>5
  <2>6. CASE f = "006"  BY <2>6
  <2>7. CASE f = "007"  BY <2>7
  <2> HIDE DEF f
  <2> QED  BY <1>1, <2>1, <2>2, <2>3, <2>4, <2>5, <2>6, <2>7, SevenFiles
<1>3. \A i \in 1..Len(s) : s[i].do \in {"create", "add"}
  BY <1>1, SevenFiles DEF Statements, Table, Index, Column, Stmt
<1>4. AllGiven(s) = Made(f)
  <2>1. \A i \in 1..Len(s) : Gives(s[i]) = {s[i].name}
    BY <1>3 DEF Gives
  <2>2. DOMAIN s = 1..Len(s)
    BY <1>2
  <2>3. Made(f) = {s[i].name : i \in 1..Len(s)}
    BY <2>2 DEF Made
  <2> HIDE DEF s
  <2>4. \A o : o \in AllGiven(s) <=> \E i \in 1..Len(s) : o = s[i].name
    BY <2>1 DEF AllGiven
  <2> QED  BY <2>3, <2>4
<1>5. \A i \in 1..Len(s) : \A o \in s[i].needs \ {"memory/"} :
         o \in H \/ \E j \in 1..(i-1) : s[j].name = o
  <2> USE DEF Statements, Table, Index, Column, Stmt, MigrationFiles
  <2>1. CASE n = 1  BY <2>1
  <2>2. CASE n = 2
    <3>1. "messages" \in H
      BY <2>2, MadeBy
    <3> QED  BY <2>2, <3>1
  <2>3. CASE n = 3
    <3>1. "messages" \in H /\ "conversations" \in H
      BY <2>3, MadeBy
    <3> QED  BY <2>3, <3>1
  <2>4. CASE n = 4  BY <2>4
  <2>5. CASE n = 5
    <3>1. {"messages", "conversations", "messages.user_id",
           "conversations.user_id", "refresh_tokens"} \subseteq H
      BY <2>5, MadeBy
    <3> QED  BY <2>5, <3>1
  <2>6. CASE n = 6  BY <2>6
  <2>7. CASE n = 7  BY <2>7
  <2> QED  BY <2>1, <2>2, <2>3, <2>4, <2>5, <2>6, <2>7
<1>6. Sound(H, s)
  <2>1. \A i \in 1..Len(s) : Wants(s[i]) = s[i].needs \ {"memory/"}
    BY <1>3 DEF Wants
  <2>2. \A i \in 1..Len(s) : \A j \in 1..(i-1) : Gives(s[j]) = {s[j].name}
    <3>1. Len(s) \in Nat
      BY <1>2, LenProperties
    <3>2. \A i \in 1..Len(s) : \A j \in 1..(i-1) : j \in 1..Len(s)
      BY <3>1
    <3> QED  BY <1>3, <3>2 DEF Gives
  <2> HIDE DEF s
  <2>3. ASSUME NEW i \in 1..Len(s), NEW o \in Wants(s[i])
        PROVE  Provided(H, s, i, o)
    <3>1. o \in s[i].needs \ {"memory/"}
      BY <2>1
    <3>2. o \in H \/ \E j \in 1..(i-1) : s[j].name = o
      BY <1>5, <3>1
    <3> QED  BY <2>2, <3>2 DEF Provided
  <2> QED  BY <2>3 DEF Sound
<1> QED  BY <1>2, <1>4, <1>6

\* A program of no statement, and of one.
LEMMA ShortPrograms ==
    /\ <<>> \in Seq(Statement) /\ AllGiven(<<>>) = {} /\ \A H : Sound(H, <<>>)
    /\ \A st \in Statement :
          /\ <<st>> \in Seq(Statement)
          /\ AllGiven(<<st>>) = Gives(st)
          /\ \A H : Wants(st) \subseteq H => Sound(H, <<st>>)
<1>1. <<>> \in Seq(Statement) /\ AllGiven(<<>>) = {} /\ \A H : Sound(H, <<>>)
  BY EmptySeq DEF AllGiven, Sound
<1>2. ASSUME NEW st \in Statement
      PROVE  /\ <<st>> \in Seq(Statement)
             /\ AllGiven(<<st>>) = Gives(st)
             /\ \A H : Wants(st) \subseteq H => Sound(H, <<st>>)
  <2>1. Len(<<st>>) = 1 /\ <<st>>[1] = st /\ <<st>> \in Seq(Statement)
    OBVIOUS
  <2>2. \A j : j \in 1..Len(<<st>>) <=> j = 1
    BY <2>1
  <2>3. AllGiven(<<st>>) = Gives(st)
    BY <2>1, <2>2 DEF AllGiven
  <2>4. \A H : Wants(st) \subseteq H => Sound(H, <<st>>)
    BY <2>1, <2>2 DEF Sound, Provided
  <2> QED  BY <2>1, <2>3, <2>4
<1> QED  BY <1>1, <1>2

\* Applying a file makes its objects before it records the file.
LEMMA ApplySound ==
    ASSUME NEW n \in 1..7, NEW H,
           \A k \in 1..(n-1) : Made(MigrationFiles[k]) \subseteq H
    PROVE  LET s == Apply(MigrationFiles[n])
           IN  /\ s \in Seq(Statement)
               /\ Made(MigrationFiles[n]) \subseteq AllGiven(s)
               /\ Sound(H, s)
<1> DEFINE f == MigrationFiles[n]
           s == Statements(f)
           r == Stmt("record", f, {}, {})
           last == <<r>>
<1>1. s \in Seq(Statement) /\ AllGiven(s) = Made(f) /\ Sound(H, s)
  BY FileSound
<1>2. r \in Statement /\ Wants(r) = Made(f)
  BY SevenFiles DEF Stmt, Statement, Wants
<1>3. Apply(f) = s \o last
  BY DEF Apply
<1> HIDE DEF f, s, r
<1>4. last \in Seq(Statement) /\ Sound(H \cup AllGiven(s), last)
  BY <1>1, <1>2, ShortPrograms
<1> HIDE DEF last
<1>5. /\ Sound(H, s \o last) /\ s \o last \in Seq(Statement)
      /\ AllGiven(s) \subseteq AllGiven(s \o last)
  BY <1>1, <1>4, SoundConcat
<1> QED  BY <1>1, <1>3, <1>5 DEF f

\* The pending files are sound wherever the recorded ones have been applied,
\* and when they have run nothing is missing.
LEMMA PendingSound ==
    ASSUME NEW H, \A f \in recorded : Made(f) \subseteq H
    PROVE  /\ Pending[Len(MigrationFiles)] \in Seq(Statement)
           /\ Sound(H, Pending[Len(MigrationFiles)])
           /\ Objects \ {"memory/"} \subseteq
                 H \cup AllGiven(Pending[Len(MigrationFiles)])
<1> DEFINE Claim(n) ==
      /\ Pending[n] \in Seq(Statement)
      /\ Sound(H, Pending[n])
      /\ \A k \in 1..n : Made(MigrationFiles[k]) \subseteq H \cup AllGiven(Pending[n])
<1>1. Claim(0)
  BY PendingSteps, ShortPrograms
<1>2. ASSUME NEW n \in 1..7, Claim(n-1)
      PROVE  Claim(n)
  <2> DEFINE f == MigrationFiles[n]
             done == Pending[n-1]
             next == IF f \in recorded THEN <<>> ELSE Apply(f)
  <2>1. Pending[n] = done \o next
    BY PendingSteps
  <2>2. /\ done \in Seq(Statement) /\ Sound(H, done)
        /\ \A k \in 1..(n-1) : Made(MigrationFiles[k]) \subseteq H \cup AllGiven(done)
    BY <1>2
  <2>3. /\ next \in Seq(Statement) /\ Sound(H \cup AllGiven(done), next)
        /\ Made(f) \subseteq H \cup AllGiven(next)
    <3>1. CASE f \in recorded
      BY <3>1, ShortPrograms
    <3>2. CASE f \notin recorded
      BY <2>2, <3>2, ApplySound
    <3> QED  BY <3>1, <3>2
  <2> HIDE DEF done, next
  <2>4. /\ done \o next \in Seq(Statement) /\ Sound(H, done \o next)
        /\ AllGiven(done \o next) = AllGiven(done) \cup AllGiven(next)
    BY <2>2, <2>3, SoundConcat
  <2>5. \A k \in 1..n : k \in 1..(n-1) \/ k = n
    OBVIOUS
  <2>6. \A k \in 1..n : Made(MigrationFiles[k]) \subseteq H \cup AllGiven(done \o next)
    BY <2>2, <2>3, <2>4, <2>5
  <2> QED  BY <2>1, <2>4, <2>6
<1> HIDE DEF Claim
<1>3. Claim(7)
  <2>1. Claim(1)  BY <1>1, <1>2
  <2>2. Claim(2)  BY <2>1, <1>2
  <2>3. Claim(3)  BY <2>2, <1>2
  <2>4. Claim(4)  BY <2>3, <1>2
  <2>5. Claim(5)  BY <2>4, <1>2
  <2>6. Claim(6)  BY <2>5, <1>2
  <2> QED  BY <2>6, <1>2
<1>4. \A o \in Objects \ {"memory/"} : \E k \in 1..7 : o \in Made(MigrationFiles[k])
  <2>1. \A f \in Files : \E k \in 1..7 : f = MigrationFiles[k]
    BY DEF Files, MigrationFiles
  <2> QED  BY <2>1 DEF Objects
<1> QED  BY <1>3, <1>4, SevenFiles DEF Claim

\* Creating the tables wants nothing, and makes the directory.
LEMMA InitDbSound ==
    /\ init_db \in Seq(Statement)
    /\ "memory/" \in AllGiven(init_db)
    /\ \A H : Sound(H, init_db)
<1> DEFINE s == init_db
<1>1. Stmt("create", "memory/", {}, {}) \in Statement
  BY Definitions DEF Stmt, Statement
<1>2. s \in Seq(Statement)
  <2>1. {"messages", "conversations", "users", "refresh_tokens", "sessions",
         "user_preferences", "idx_conversation_id", "messages.embedding",
         "messages.user_id", "conversations.user_id"} \subseteq Objects
    BY ObjectNames
  <2> QED  BY <1>1, <2>1, Definitions DEF init_db
<1>3. /\ Len(s) = 11
      /\ s[1].do = "create" /\ s[1].name = "memory/"
      /\ s[6].do = "create" /\ s[6].name = "messages"
      /\ \A i \in 1..11 : /\ s[i].do \in {"create", "try"}
                          /\ s[i].do = "create" /\ i # 9 => s[i].needs \subseteq {"memory/"}
      /\ s[9].needs = {"messages"}
  BY DEF init_db, Table, Index, Column, Try, Stmt
<1> HIDE DEF s
<1>4. "memory/" \in Gives(s[1]) /\ "messages" \in Gives(s[6])
  BY <1>3 DEF Gives
<1>5. \A i \in 1..11 : Wants(s[i]) \subseteq (IF i = 9 THEN {"messages"} ELSE {})
  BY <1>3 DEF Wants
<1>6. \A H : Sound(H, s)
  BY <1>3, <1>4, <1>5 DEF Sound, Provided
<1>7. "memory/" \in AllGiven(s)
  BY <1>3, <1>4 DEF AllGiven
<1> QED  BY <1>2, <1>6, <1>7 DEF s

\* The statements that are not about objects.
LEMMA Deeds ==
    /\ \A what \in {"read", "serve", "heredoc"} : Do(what) \in Statement
    /\ Wants(Do("read")) = {}     /\ Gives(Do("read")) = Objects \ {"memory/"}
    /\ Wants(Do("serve")) = Objects
    /\ Wants(Do("heredoc")) = {}
<1>1. \A what \in {"read", "serve", "heredoc"} : Do(what) \in Statement
  BY DEF Do, Stmt, Statement, Deed
<1>2. \A what : Do(what).do = what
  BY DEF Do, Stmt
<1> QED  BY <1>1, <1>2 DEF Wants, Gives

\* Making one table wants nothing.
LEMMA TableSound ==
    ASSUME NEW t \in Objects
    PROVE  <<Table(t, {})>> \in Seq(Statement) /\ \A H : Sound(H, <<Table(t, {})>>)
BY Definitions, ShortPrograms

\* Reading the table of migrations stands for every object of every file.
LEMMA RunMigrationsSound ==
    /\ run_migrations \in Seq(Statement)
    /\ Objects \ {"memory/"} \subseteq AllGiven(run_migrations)
    /\ \A H : Sound(H, run_migrations)
<1> DEFINE s == ensure_migrations_table
           t == <<Do("read")>>
<1>1. s \in Seq(Statement) /\ \A H : Sound(H, s)
  BY TableSound, ObjectNames DEF ensure_migrations_table
<1>2. /\ t \in Seq(Statement) /\ \A H : Sound(H, t)
      /\ AllGiven(t) = Objects \ {"memory/"}
  BY Deeds, ShortPrograms
<1>3. run_migrations = s \o t
  BY DEF run_migrations
<1> HIDE DEF s, t
<1> QED  BY <1>1, <1>2, <1>3, SoundConcat

\* migrate_v05 wants nothing that its guard has not seen to.
LEMMA MigrateV05Sound ==
    migrate_v05 \in Seq(Statement) /\ \A H : Sound(H, migrate_v05)
<1> DEFINE assign == Stmt("assign", "admin", {}, {"messages", "messages.user_id",
                                         "conversations", "conversations.user_id"})
           s == << Table("users", {}), Table("refresh_tokens", {}), Table("sessions", {}),
                   Table("user_preferences", {}),
                   Try(Column("messages", "messages.user_id")),
                   Try(Column("conversations", "conversations.user_id")),
                   assign >>
<1>1. {"messages", "conversations", "users", "refresh_tokens", "sessions",
       "user_preferences", "messages.user_id", "conversations.user_id"} \subseteq Objects
  BY ObjectNames
<1>2. assign \in Statement /\ Wants(assign) = {}
  BY <1>1 DEF Stmt, Statement, Deed, Wants
<1>3. /\ Table("users", {}) \in Statement /\ Table("refresh_tokens", {}) \in Statement
      /\ Table("sessions", {}) \in Statement /\ Table("user_preferences", {}) \in Statement
      /\ Try(Column("messages", "messages.user_id")) \in Statement
      /\ Try(Column("conversations", "conversations.user_id")) \in Statement
  BY <1>1, Definitions
<1>4. /\ Wants(Table("users", {})) = {} /\ Wants(Table("refresh_tokens", {})) = {}
      /\ Wants(Table("sessions", {})) = {} /\ Wants(Table("user_preferences", {})) = {}
      /\ Wants(Try(Column("messages", "messages.user_id"))) = {}
      /\ Wants(Try(Column("conversations", "conversations.user_id"))) = {}
  BY <1>1, Definitions
<1> HIDE DEF assign
<1>5. s \in Seq(Statement) /\ \A i \in 1..Len(s) : Wants(s[i]) = {}
  BY <1>2, <1>3, <1>4
<1>6. migrate_v05 = <<>> \/ migrate_v05 = s
  BY DEF migrate_v05, assign
<1> HIDE DEF s
<1>7. \A H : Sound(H, s)
  BY <1>5 DEF Sound
<1> QED  BY <1>5, <1>6, <1>7, ShortPrograms

\* Every program is sound on every database it is started on.
LEMMA StepsSound ==
    ASSUME NEW prog \in AllPrograms \ {"rollback"}, NEW H
    PROVE  Steps(prog) \in Seq(Statement) /\ Sound(H, Steps(prog))
<1>1. CASE prog = "server"
  <2> DEFINE a == init_db \o run_migrations
             b == a \o ensure_audit_table
             last == <<Do("serve")>>
  <2>1. /\ a \in Seq(Statement) /\ Sound(H, a)
        /\ AllGiven(a) = AllGiven(init_db) \cup AllGiven(run_migrations)
    BY InitDbSound, RunMigrationsSound, SoundConcat
  <2>2. ensure_audit_table \in Seq(Statement) /\ Sound(H, ensure_audit_table)
    BY TableSound, ObjectNames DEF ensure_audit_table
  <2> HIDE DEF a
  <2>3. b \in Seq(Statement) /\ Sound(H, b) /\ AllGiven(a) \subseteq AllGiven(b)
    BY <2>1, <2>2, SoundConcat
  <2>4. Objects \subseteq AllGiven(b)
    BY <2>1, <2>3, InitDbSound, RunMigrationsSound
  <2>5. last \in Seq(Statement) /\ Sound(AllGiven(b), last)
    BY <2>4, Deeds, ShortPrograms
  <2> HIDE DEF b, last
  <2>6. b \o last \in Seq(Statement) /\ Sound(H, b \o last)
    BY <2>3, <2>5, SoundConcat
  <2> QED  BY <1>1, <2>6 DEF Steps, a, b, last
<1>2. CASE prog = "migrate"
  BY <1>2, RunMigrationsSound DEF Steps
<1>3. CASE prog = "v05"
  BY <1>3, MigrateV05Sound DEF Steps
<1>4. CASE prog = "setup"
  <2> DEFINE last == <<Do("heredoc")>>
  <2>1. last \in Seq(Statement) /\ Sound(H, last)
    BY Deeds, ShortPrograms
  <2> HIDE DEF last
  <2>2. migrate_v05 \o last \in Seq(Statement) /\ Sound(H, migrate_v05 \o last)
    BY <2>1, MigrateV05Sound, SoundConcat
  <2> QED  BY <1>4, <2>2 DEF Steps, last
<1> QED  BY <1>1, <1>2, <1>3, <1>4 DEF AllPrograms

-----------------------------------------------------------------------------
(* The invariant holds initially and every action preserves it *)

\* Nothing is recorded and nothing runs at first.
LEMMA InitIInv == Init => IInv
<1> SUFFICES ASSUME Init PROVE IInv
  OBVIOUS
<1> USE DEF Init
<1>1. TypeOK
  BY SchemaAssumption, OriginsAssumption
     DEF TypeOK, SchemaAssumption, OriginsAssumption
<1>2. todo \in [Procs -> Seq(Statement)] /\ \A p \in Procs : Sound(schema, todo[p])
  BY ShortPrograms
<1>3. RecordedIsApplied /\ ServingHasSchema
  BY DEF RecordedIsApplied, ServingHasSchema
<1> QED  BY <1>1, <1>2, <1>3 DEF IInv

\* A process replaces what it has to run by something sound, and what the
\* others rely on stays.
LEMMA TodoPreserves ==
    ASSUME IInv, NEW p \in Procs, NEW rest \in Seq(Statement),
           todo' = [todo EXCEPT ![p] = rest],
           schema \subseteq schema', Sound(schema', rest)
    PROVE  /\ todo' \in [Procs -> Seq(Statement)]
           /\ \A q \in Procs : Sound(schema, todo[q])'
<1>1. todo \in [Procs -> Seq(Statement)]
  BY DEF IInv
<1>2. ASSUME NEW q \in Procs
      PROVE  Sound(schema', todo'[q])
  <2>1. CASE q = p
    BY <1>1, <2>1
  <2>2. CASE q # p
    <3>1. todo'[q] = todo[q] /\ Sound(schema, todo[q])
      BY <1>1, <2>2 DEF IInv
    <3> QED  BY <3>1, SoundMonotone
  <2> QED  BY <2>1, <2>2
<1> QED  BY <1>1, <1>2

\* A running process goes on with something sound.
LEMMA GoesPreserves ==
    ASSUME IInv, NEW p \in Procs, phase[p] = "running",
           NEW rest \in Seq(Statement), Goes(p, rest), Sound(schema', rest),
           schema \subseteq schema', schema' \subseteq Objects,
           recorded' \subseteq Files, RecordedIsApplied',
           admin' \in {"none", "placeholder", "set"}
    PROVE  IInv'
<1>1. todo' = [todo EXCEPT ![p] = rest] /\ UNCHANGED <<phase, mishaps>>
  BY DEF Goes
<1>2. todo' \in [Procs -> Seq(Statement)] /\ \A q \in Procs : Sound(schema, todo[q])'
  BY <1>1, TodoPreserves
<1>3. TypeOK'
  <2>1. \A q \in Procs : phase[q] # "running" => todo'[q] = <<>>
    BY <1>1 DEF IInv, TypeOK
  <2> QED  BY <1>1, <2>1 DEF IInv, TypeOK
<1>4. ServingHasSchema'
  BY <1>1 DEF IInv, ServingHasSchema
<1> QED  BY <1>2, <1>3, <1>4 DEF IInv

\* A process ends, or begins to serve with the whole schema there.
LEMMA EndPreserves ==
    ASSUME IInv, NEW p \in Procs, NEW end \in {"off", "failed", "serving"},
           phase' = [phase EXCEPT ![p] = end], todo' = [todo EXCEPT ![p] = <<>>],
           end = "serving" => Objects \subseteq schema,
           mishaps' \in 0..MaxMishaps, UNCHANGED <<schema, recorded, admin>>
    PROVE  IInv'
<1>1. schema' = schema
  OBVIOUS
<1>2. todo' \in [Procs -> Seq(Statement)] /\ \A q \in Procs : Sound(schema, todo[q])'
  BY <1>1, ShortPrograms, TodoPreserves
<1>3. TypeOK'
  <2>1. phase' \in [Procs -> {"off", "running", "serving", "failed"}]
    BY DEF IInv, TypeOK
  <2>2. \A q \in Procs : phase'[q] # "running" => todo'[q] = <<>>
    BY DEF IInv, TypeOK
  <2> QED  BY <2>1, <2>2 DEF IInv, TypeOK
<1>4. RecordedIsApplied'
  BY DEF IInv, RecordedIsApplied
<1>5. ServingHasSchema'
  BY DEF IInv, TypeOK, ServingHasSchema
<1> QED  BY <1>2, <1>3, <1>4, <1>5 DEF IInv

\* The statement a running process is at, and what it relies on.
LEMMA AtStatement ==
    ASSUME IInv, NEW p \in Procs, todo[p] # <<>>
    PROVE  /\ Current(p) \in Statement
           /\ Tail(todo[p]) \in Seq(Statement)
           /\ Wants(Current(p)) \subseteq schema
           /\ Sound(schema \cup Gives(Current(p)), Tail(todo[p]))
<1>1. todo[p] \in Seq(Statement) /\ Sound(schema, todo[p])
  BY DEF IInv
<1> QED  BY <1>1, SoundTail, HeadTailProperties DEF Current

\* A program starts with all its statements to run.
LEMMA StartPreserves ==
    ASSUME IInv, NEW p \in Procs, NEW prog \in Programs, Start(p, prog)
    PROVE  IInv'
<1>1. /\ phase' = [phase EXCEPT ![p] = "running"]
      /\ UNCHANGED <<schema, recorded, admin>>
  BY DEF Start
<1>2. schema' = schema
  BY <1>1
<1>3. \E rest \in Seq(Statement) :
         Sound(schema, rest) /\ todo' = [todo EXCEPT ![p] = rest]
  <2>1. CASE prog # "rollback"
    <3>1. prog \in AllPrograms \ {"rollback"}
      BY <2>1, SchemaAssumption DEF SchemaAssumption
    <3> QED  BY <2>1, <3>1, StepsSound DEF Start
  <2>2. CASE prog = "rollback"
    <3>1. PICK f \in RollbackFiles :
             todo' = [todo EXCEPT ![p] =
                        ensure_migrations_table \o << Stmt("forget", f, {}, {}) >>]
      BY <2>2 DEF Start
    <3> DEFINE forget == Stmt("forget", f, {}, {})
               last == <<forget>>
    <3>2. forget \in Statement /\ Wants(forget) = {}
      BY DEF Stmt, Statement, Deed, Wants
    <3>3. last \in Seq(Statement) /\ Sound(schema, last)
      BY <3>2, ShortPrograms
    <3> HIDE DEF last
    <3>4. /\ ensure_migrations_table \in Seq(Statement)
          /\ Sound(schema, ensure_migrations_table)
      BY TableSound, ObjectNames DEF ensure_migrations_table
    <3>5. /\ ensure_migrations_table \o last \in Seq(Statement)
          /\ Sound(schema, ensure_migrations_table \o last)
      BY <3>3, <3>4, SoundConcat
    <3> QED  BY <3>1, <3>5 DEF last
  <2> QED  BY <2>1, <2>2
<1>4. todo' \in [Procs -> Seq(Statement)] /\ \A q \in Procs : Sound(schema, todo[q])'
  BY <1>2, <1>3, TodoPreserves
<1>5. TypeOK'
  <2>1. phase' \in [Procs -> {"off", "running", "serving", "failed"}]
    BY <1>1 DEF IInv, TypeOK
  <2>2. \A q \in Procs : phase'[q] # "running" => todo'[q] = <<>>
    BY <1>1, <1>3 DEF IInv, TypeOK
  <2>3. mishaps' \in 0..MaxMishaps
    BY SchemaAssumption DEF Start, IInv, TypeOK, SchemaAssumption
  <2> QED  BY <1>1, <2>1, <2>2, <2>3 DEF IInv, TypeOK
<1>6. RecordedIsApplied'
  BY <1>1 DEF IInv, RecordedIsApplied
<1>7. ServingHasSchema'
  BY <1>1 DEF IInv, TypeOK, ServingHasSchema
<1> QED  BY <1>4, <1>5, <1>6, <1>7 DEF IInv

\* CREATE and ALTER commit by themselves, and what they make stays.
LEMMA CreatePreserves ==
    ASSUME IInv, NEW p \in Procs, Create(p)
    PROVE  IInv'
<1> DEFINE c == Current(p)
<1>1. /\ phase[p] = "running" /\ todo[p] # <<>> /\ c.do \in {"create", "add", "try"}
      /\ schema' = schema \cup (IF c.name \in schema THEN {} ELSE {c.name} \cup c.with)
      /\ Goes(p, Tail(todo[p])) /\ UNCHANGED <<recorded, admin>>
  BY DEF Create, At
<1>2. /\ c \in Statement /\ Tail(todo[p]) \in Seq(Statement)
      /\ Sound(schema \cup Gives(c), Tail(todo[p]))
  BY <1>1, AtStatement
<1>3. c.name \in Objects /\ c.with \subseteq Objects
  BY <1>1, <1>2 DEF Statement, Deed
<1> HIDE DEF c
<1>4. schema \subseteq schema' /\ schema' \subseteq Objects /\ c.name \in schema'
  BY <1>1, <1>3 DEF IInv, TypeOK
<1>5. schema \subseteq schema'
  BY <1>1, <1>4
<1>6. Gives(c) \subseteq schema'
  BY <1>1, <1>4 DEF Gives
<1>7. Sound(schema', Tail(todo[p]))
  BY <1>2, <1>5, <1>6, SoundMonotone
<1>8. RecordedIsApplied'
  BY <1>1, <1>4 DEF IInv, RecordedIsApplied
<1>9. recorded' \subseteq Files /\ admin' = admin
      /\ admin \in {"none", "placeholder", "set"}
  BY <1>1 DEF IInv, TypeOK
<1> QED  BY <1>1, <1>2, <1>4, <1>7, <1>8, <1>9, GoesPreserves

\* Steps that only move on, in a state that holds what they stand for.
LEMMA MoveOnPreserves ==
    ASSUME IInv, NEW p \in Procs, phase[p] = "running",
           NEW rest \in Seq(Statement), Goes(p, rest), Sound(schema, rest),
           UNCHANGED <<schema, recorded, admin>>
    PROVE  IInv'
<1>1. schema' = schema
  OBVIOUS
<1>2. RecordedIsApplied'
  BY DEF IInv, RecordedIsApplied
<1>3. schema \subseteq Objects /\ recorded \subseteq Files
      /\ admin \in {"none", "placeholder", "set"}
  BY DEF IInv, TypeOK
<1> QED  BY <1>1, <1>2, <1>3, GoesPreserves

\* A tried ALTER that raises gave nothing, and nothing relies on it.
LEMMA SkipPreserves ==
    ASSUME IInv, NEW p \in Procs, Skip(p)
    PROVE  IInv'
<1> DEFINE c == Current(p)
<1>1. /\ phase[p] = "running" /\ todo[p] # <<>> /\ c.do = "try"
      /\ Goes(p, Tail(todo[p])) /\ UNCHANGED <<schema, recorded, admin>>
  BY DEF Skip, At
<1>2. /\ Tail(todo[p]) \in Seq(Statement) /\ Sound(schema \cup Gives(c), Tail(todo[p]))
  BY <1>1, AtStatement
<1>3. Gives(c) = {}
  BY <1>1 DEF Gives
<1>4. Sound(schema, Tail(todo[p]))
  BY <1>2, <1>3
<1> QED  BY <1>1, <1>2, <1>4, MoveOnPreserves

\* The pending files take the place of the read that found them.
LEMMA ReadAppliedPreserves ==
    ASSUME IInv, NEW p \in Procs, ReadApplied(p)
    PROVE  IInv'
<1> DEFINE c == Current(p)
           pend == Pending[Len(MigrationFiles)]
           rest == Tail(todo[p])
<1>1. /\ phase[p] = "running" /\ todo[p] # <<>> /\ c.do = "read"
      /\ Goes(p, pend \o rest) /\ UNCHANGED <<schema, recorded, admin>>
  BY DEF ReadApplied, At
<1>2. rest \in Seq(Statement) /\ Sound(schema \cup Gives(c), rest)
  BY <1>1, AtStatement
<1>3. Gives(c) = Objects \ {"memory/"}
  BY <1>1 DEF Gives
<1>4. \A f \in recorded : Made(f) \subseteq schema
  BY DEF IInv, RecordedIsApplied
<1>5. /\ pend \in Seq(Statement) /\ Sound(schema, pend)
      /\ Objects \ {"memory/"} \subseteq schema \cup AllGiven(pend)
  BY <1>4, PendingSound
<1>6. schema \cup Gives(c) \subseteq schema \cup AllGiven(pend)
  BY <1>3, <1>5
<1> HIDE DEF pend, rest, c
<1>7. pend \o rest \in Seq(Statement) /\ Sound(schema, pend \o rest)
  BY <1>2, <1>5, <1>6, SoundConcat
<1> QED  BY <1>1, <1>7, MoveOnPreserves

\* A file is recorded once what it makes is there.
LEMMA RecordPreserves ==
    ASSUME IInv, NEW p \in Procs, Record(p)
    PROVE  IInv'
<1> DEFINE c == Current(p)
<1>1. /\ phase[p] = "running" /\ todo[p] # <<>> /\ c.do = "record"
      /\ recorded' = recorded \cup {c.name}
      /\ Goes(p, Tail(todo[p])) /\ UNCHANGED <<schema, admin>>
  BY DEF Record, At
<1>2. /\ c \in Statement /\ Wants(c) \subseteq schema
      /\ Tail(todo[p]) \in Seq(Statement) /\ Sound(schema \cup Gives(c), Tail(todo[p]))
  BY <1>1, AtStatement
<1>3. c.name \in Files /\ Gives(c) = {} /\ Wants(c) = Made(c.name)
  BY <1>1, <1>2 DEF Statement, Deed, Gives, Wants
<1>4. Made(c.name) \subseteq schema
  BY <1>2, <1>3
<1>5. schema' = schema
  BY <1>1
<1>6. Sound(schema', Tail(todo[p]))
  BY <1>2, <1>3, <1>5
<1>7. RecordedIsApplied'
  <2>1. \A f \in recorded' : f \in recorded \/ f = c.name
    BY <1>1
  <2>2. \A f \in recorded' : Made(f) \subseteq schema'
    BY <1>1, <1>4, <2>1 DEF IInv, RecordedIsApplied
  <2> QED  BY <2>2 DEF RecordedIsApplied
<1>8. recorded' \subseteq Files /\ admin' = admin /\ schema' = schema
      /\ schema \subseteq Objects
      /\ admin \in {"none", "placeholder", "set"}
  BY <1>1, <1>3 DEF IInv, TypeOK
<1> HIDE DEF c
<1> QED  BY <1>1, <1>2, <1>6, <1>7, <1>8, GoesPreserves

\* A rollback takes the record away and nothing else.
LEMMA ForgetPreserves ==
    ASSUME IInv, NEW p \in Procs, Forget(p)
    PROVE  IInv'
<1> DEFINE c == Current(p)
<1>1. /\ phase[p] = "running" /\ todo[p] # <<>> /\ c.do = "forget"
      /\ recorded' = recorded \ {c.name}
      /\ Goes(p, Tail(todo[p])) /\ UNCHANGED <<schema, admin>>
  BY DEF Forget, At
<1>2. /\ Tail(todo[p]) \in Seq(Statement) /\ Sound(schema \cup Gives(c), Tail(todo[p]))
  BY <1>1, AtStatement
<1>3. Gives(c) = {}
  BY <1>1 DEF Gives
<1>4. schema' = schema
  BY <1>1
<1>5. Sound(schema', Tail(todo[p]))
  BY <1>2, <1>3, <1>4
<1>6. RecordedIsApplied'
  BY <1>1 DEF IInv, RecordedIsApplied
<1>7. recorded' \subseteq Files /\ admin' = admin /\ schema' = schema
      /\ schema \subseteq Objects
      /\ admin \in {"none", "placeholder", "set"}
  BY <1>1 DEF IInv, TypeOK
<1> HIDE DEF c
<1> QED  BY <1>1, <1>2, <1>5, <1>6, <1>7, GoesPreserves

\* The transaction of migrate_v05 writes no record and no object.
LEMMA AssignPreserves ==
    ASSUME IInv, NEW p \in Procs, Assign(p)
    PROVE  IInv'
<1> DEFINE c == Current(p)
           rest == Tail(todo[p])
<1>1. /\ phase[p] = "running" /\ todo[p] # <<>> /\ c.do = "assign"
      /\ admin' = IF admin = "none" THEN "placeholder" ELSE admin
      /\ Goes(p, rest) /\ UNCHANGED <<schema, recorded>>
  BY DEF Assign, At
<1>2. rest \in Seq(Statement) /\ Sound(schema \cup Gives(c), rest)
  BY <1>1, AtStatement
<1>3. Gives(c) = {}
  BY <1>1 DEF Gives
<1>4. admin' \in {"none", "placeholder", "set"}
  BY <1>1 DEF IInv, TypeOK
<1>5. Sound(schema', rest)
  BY <1>1, <1>2, <1>3
<1>6. RecordedIsApplied' /\ schema \subseteq Objects /\ recorded \subseteq Files
  BY <1>1 DEF IInv, TypeOK, RecordedIsApplied
<1> HIDE DEF rest
<1> QED  BY <1>1, <1>2, <1>4, <1>5, <1>6, GoesPreserves

\* The lifespan yields when every object is there.
LEMMA ServePreserves ==
    ASSUME IInv, NEW p \in Procs, Serve(p)
    PROVE  IInv'
<1> DEFINE c == Current(p)
<1>1. todo[p] # <<>> /\ c.do = "serve"
  BY DEF Serve, At
<1>2. Wants(c) \subseteq schema /\ Wants(c) = Objects
  BY <1>1, AtStatement DEF Wants
<1>3. Objects \subseteq schema
  BY <1>2
<1>4. mishaps' \in 0..MaxMishaps
  BY DEF Serve, IInv, TypeOK
<1> QED  BY <1>3, <1>4, EndPreserves DEF Serve

\* Every step of a program preserves the invariant.
LEMMA StepPreserves ==
    ASSUME IInv, NEW p \in Procs, Step(p)
    PROVE  IInv'
<1>1. mishaps \in 0..MaxMishaps
  BY DEF IInv, TypeOK
<1>2. CASE Create(p)  BY <1>2, CreatePreserves
<1>3. CASE Skip(p)  BY <1>3, SkipPreserves
<1>4. CASE ReadApplied(p)  BY <1>4, ReadAppliedPreserves
<1>5. CASE Record(p)  BY <1>5, RecordPreserves
<1>6. CASE Forget(p)  BY <1>6, ForgetPreserves
<1>7. CASE Assign(p)  BY <1>7, AssignPreserves
<1>8. CASE Serve(p)  BY <1>8, ServePreserves
<1>9. CASE Fail(p)  BY <1>1, <1>9, EndPreserves DEF Fail
<1>10. CASE Finish(p)
  <2>1. todo' = [todo EXCEPT ![p] = <<>>]
    BY <1>10 DEF Finish, IInv
  <2> QED  BY <1>1, <1>10, <2>1, EndPreserves DEF Finish
<1> QED  BY <1>2, <1>3, <1>4, <1>5, <1>6, <1>7, <1>8, <1>9, <1>10
   DEF Step

\* Every step preserves the invariant.
LEMMA NextIInv == IInv /\ [Next]_vars => IInv'
<1> SUFFICES ASSUME IInv, [Next]_vars PROVE IInv'
  OBVIOUS
<1>1. ASSUME NEW p \in Procs, NEW prog \in Programs, Start(p, prog)
      PROVE  IInv'
  BY <1>1, StartPreserves
<1>2. ASSUME NEW p \in Procs, Step(p)
      PROVE  IInv'
  BY <1>2, StepPreserves
<1>3. ASSUME NEW p \in Procs, Shutdown(p)
      PROVE  IInv'
  <2>1. todo[p] = <<>> /\ todo' = todo /\ todo \in [Procs -> Seq(Statement)]
    BY <1>3 DEF Shutdown, IInv, TypeOK
  <2>2. todo' = [todo EXCEPT ![p] = <<>>]
    BY <2>1
  <2>3. mishaps' \in 0..MaxMishaps
    BY <1>3 DEF Shutdown, IInv, TypeOK
  <2> QED  BY <1>3, <2>2, <2>3, EndPreserves DEF Shutdown
<1>4. ASSUME NEW p \in Procs, Stop(p)
      PROVE  IInv'
  <2>1. mishaps' \in 0..MaxMishaps
    BY <1>4, SchemaAssumption DEF Stop, IInv, TypeOK, SchemaAssumption
  <2> QED  BY <1>4, <2>1, EndPreserves DEF Stop
<1>5. CASE AddUser \/ ResetPassword
  <2>1. /\ admin' = "set"
        /\ UNCHANGED <<schema, recorded, phase, todo, mishaps>>
    BY <1>5 DEF AddUser, ResetPassword
  <2>2. TypeOK'
    BY <2>1 DEF IInv, TypeOK
  <2>3. RecordedIsApplied' /\ ServingHasSchema'
    BY <2>1 DEF IInv, RecordedIsApplied, ServingHasSchema
  <2> QED  BY <2>1, <2>2, <2>3 DEF IInv
<1>6. CASE UNCHANGED vars
  <2>1. UNCHANGED <<schema, recorded, admin, phase, todo, mishaps>>
    BY <1>6 DEF vars
  <2>2. schema' = schema
    BY <2>1
  <2>3. TypeOK'
    BY <2>1 DEF IInv, TypeOK
  <2>4. RecordedIsApplied' /\ ServingHasSchema'
    BY <2>1 DEF IInv, RecordedIsApplied, ServingHasSchema
  <2> QED  BY <2>1, <2>2, <2>3, <2>4 DEF IInv
<1> QED  BY <1>1, <1>2, <1>3, <1>4, <1>5, <1>6 DEF Next

\* The invariant holds of every behaviour.
THEOREM SchemaInvariant == Spec => []IInv
BY InitIInv, NextIInv, PTL DEF Spec

-----------------------------------------------------------------------------
(* The properties the runs check, for every value of the constants *)

\* Programs, records and accounts have their types, and only a running
\* program has statements left.
THEOREM SchemaTypeCorrect == Spec => []TypeOK
<1>1. IInv => TypeOK
  BY DEF IInv
<1> QED  BY <1>1, SchemaInvariant, PTL

\* The table of migrations never claims what is not there.
THEOREM RecordsAreApplied == Spec => []RecordedIsApplied
<1>1. IInv => RecordedIsApplied
  BY DEF IInv
<1> QED  BY <1>1, SchemaInvariant, PTL

\* A server that answers requests has the schema of every release.
THEOREM ServersHaveTheSchema == Spec => []ServingHasSchema
<1>1. IInv => ServingHasSchema
  BY DEF IInv
<1> QED  BY <1>1, SchemaInvariant, PTL

\* A migration's statement always finds what earlier files make.
THEOREM TablesAreFound == Spec => []MigrationsFindTheirTables
<1>1. IInv => MigrationsFindTheirTables
  <2> SUFFICES ASSUME IInv, NEW p \in Procs, At(p, "create") \/ At(p, "add")
               PROVE  Current(p).needs \subseteq schema \cup {"memory/"}
    BY DEF MigrationsFindTheirTables
  <2> DEFINE c == Current(p)
  <2>1. todo[p] # <<>> /\ c.do \in {"create", "add"}
    BY DEF At
  <2>2. c \in Statement /\ Wants(c) \subseteq schema
    BY <2>1, AtStatement
  <2>3. c.needs \subseteq Objects /\ Wants(c) = c.needs \ {"memory/"}
    BY <2>1, <2>2 DEF Statement, Deed, Wants
  <2> QED  BY <2>2, <2>3
<1> QED  BY <1>1, SchemaInvariant, PTL

=============================================================================
