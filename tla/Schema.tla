------------------------------- MODULE Schema -------------------------------
(***************************************************************************)
(* The store's schema and the programs that bring it up to date: the       *)
(* server's start (lifespan in api/main.py), scripts/migrate.py,           *)
(* scripts/migrate_v05.py and setup.sh, as far as it gets.  None of them   *)
(* excludes another, and each may be stopped after any statement.          *)
(*                                                                         *)
(* A program is the sequence of statements it still has to run.  Python's  *)
(* sqlite3 opens a transaction for INSERT, UPDATE and DELETE only, so      *)
(* every CREATE and ALTER is committed by itself.  A table, one of the     *)
(* columns later versions added, an index and the directory memory/ are    *)
(* all objects with a name; indexes of one file on the same table go by    *)
(* one name.  A failure that has nothing to do with the schema (the        *)
(* database locked for over five seconds, say) is the program's Stop.      *)
(***************************************************************************)
EXTENDS Integers, Sequences, FiniteSets

CONSTANTS Procs,         \* processes
          Programs,      \* what is run: a subset of AllPrograms
          Origins,       \* what may be on the disk at first
          RollbackFiles, \* what migrate.py --rollback is given
          MaxMishaps     \* bound of the model: stops and rollbacks together

AllPrograms == {"server", "migrate", "rollback", "v05", "setup"}

ASSUME SchemaAssumption == Programs \subseteq AllPrograms /\ MaxMishaps \in Nat

VARIABLES schema,    \* the objects that exist
          recorded,  \* table schema_migrations
          admin,     \* the password of account admin: "none" (no such account),
                     \* "placeholder" or "set"
          phase,     \* of each process: "off", "running", "serving", "failed"
          todo,      \* of each process: the statements still to run
          mishaps

vars == <<schema, recorded, admin, phase, todo, mishaps>>

-----------------------------------------------------------------------------
(* Statements.  needs: the objects without which the statement raises;     *)
(* with: the columns a CREATE TABLE has that later versions added.         *)

Stmt(do, name, with, needs) == [do |-> do, name |-> name, with |-> with, needs |-> needs]
Table(t, with)  == Stmt("create", t, with, {"memory/"})  \* IF NOT EXISTS
Index(x, needs) == Stmt("create", x, {}, needs)          \* IF NOT EXISTS
Column(t, c)    == Stmt("add", c, {}, {t})               \* ALTER TABLE ... ADD COLUMN
Try(s)          == [s EXCEPT !.do = "try"]               \* except Exception: pass
Do(what)        == Stmt(what, what, {}, {})

\* Mutant: the order of glob instead of the sorted one.
MigrationFiles_unsorted == <<"001", "005", "002", "003", "004", "006", "007">>

MigrationFiles == <<"001", "002", "003", "004", "005", "006", "007">>

Statements(f) ==
    CASE f = "001" -> << Table("messages", {}),
                         Index("idx_conversation_id", {"messages"}),
                         Table("conversations", {}) >>
      [] f = "002" -> << Column("messages", "messages.embedding") >>
      [] f = "003" -> << Table("users", {}),
                         Table("user_preferences", {}),
                         Column("messages", "messages.user_id"),
                         Column("conversations", "conversations.user_id"),
                         Table("refresh_tokens", {}) >>
      [] f = "004" -> << Table("sessions", {}), Index("idx_sessions", {"sessions"}) >>
      [] f = "005" -> << Index("idx_messages", {"messages", "messages.user_id"}),
                         Index("idx_conversations",
                               {"conversations", "conversations.user_id"}),
                         Index("idx_refresh_tokens", {"refresh_tokens"}) >>
      [] f = "006" -> << Table("audit_log", {}), Index("idx_audit", {"audit_log"}) >>
      [] f = "007" -> << Table("schema_migrations", {}) >>

Files == {MigrationFiles[i] : i \in DOMAIN MigrationFiles}
Made(f) == {Statements(f)[i].name : i \in DOMAIN Statements(f)}
Objects == {"memory/"} \cup UNION {Made(f) : f \in Files}

ASSUME OriginsAssumption == Origins \subseteq SUBSET Objects

init_db ==
    << Stmt("create", "memory/", {}, {}),                       \* mkdir
       Table("users", {}), Table("refresh_tokens", {}), Table("sessions", {}),
       Table("user_preferences", {}),
       Table("messages", {"messages.embedding", "messages.user_id"}),
       Try(Column("messages", "messages.embedding")),
       Try(Column("messages", "messages.user_id")),
       Index("idx_conversation_id", {"messages"}),
       Table("conversations", {"conversations.user_id"}),
       Try(Column("conversations", "conversations.user_id")) >>

ensure_migrations_table == << Table("schema_migrations", {}) >>

ensure_audit_table == << Table("audit_log", {}) >>

run_migrations == ensure_migrations_table \o << Do("read") >>

\* scripts/migrate_v05.py does nothing when there is no database
migrate_v05 ==
    IF schema \subseteq {"memory/"} THEN <<>>
    ELSE << Table("users", {}), Table("refresh_tokens", {}), Table("sessions", {}),
            Table("user_preferences", {}),
            Try(Column("messages", "messages.user_id")),
            Try(Column("conversations", "conversations.user_id")),
            Stmt("assign", "admin", {}, {"messages", "messages.user_id",
                                         "conversations", "conversations.user_id"}) >>

Steps(prog) ==
    CASE prog = "server"  -> init_db \o run_migrations \o ensure_audit_table \o << Do("serve") >>
      [] prog = "migrate" -> run_migrations
      [] prog = "v05"     -> migrate_v05
      [] prog = "setup"   -> migrate_v05 \o << Do("heredoc") >>

\* Mutant: a file is recorded before its statements run.
Apply_recordFirst(f) == << Stmt("record", f, {}, {}) >> \o Statements(f)

\* what run_migrations does with one pending file
Apply(f) == Statements(f) \o << Stmt("record", f, {}, {}) >>

\* the pending files among the first n, in order
Pending[n \in 0..Len(MigrationFiles)] ==
    IF n = 0 THEN <<>>
    ELSE Pending[n-1] \o (IF MigrationFiles[n] \in recorded THEN <<>>
                          ELSE Apply(MigrationFiles[n]))

-----------------------------------------------------------------------------
Init ==
    /\ schema \in Origins
    /\ recorded = {}
    /\ admin = "none"
    /\ phase = [p \in Procs |-> "off"]
    /\ todo = [p \in Procs |-> <<>>]
    /\ mishaps = 0

Start(p, prog) ==
    /\ phase[p] \in {"off", "failed"}
    /\ phase' = [phase EXCEPT ![p] = "running"]
    /\ \/ /\ prog # "rollback"
          /\ todo' = [todo EXCEPT ![p] = Steps(prog)]
          /\ UNCHANGED mishaps
       \/ /\ prog = "rollback" /\ mishaps < MaxMishaps
          /\ \E f \in RollbackFiles :
               todo' = [todo EXCEPT ![p] =
                          ensure_migrations_table \o << Stmt("forget", f, {}, {}) >>]
          /\ mishaps' = mishaps + 1
    /\ UNCHANGED <<schema, recorded, admin>>

Current(p) == Head(todo[p])
At(p, what) == phase[p] = "running" /\ todo[p] # <<>> /\ Current(p).do = what
Goes(p, rest) == todo' = [todo EXCEPT ![p] = rest] /\ UNCHANGED <<phase, mishaps>>

\* the statement raises
Raises(s) ==
    \/ ~(s.needs \subseteq schema)
    \/ s.do \in {"add", "try"} /\ s.name \in schema  \* duplicate column name
    \/ s.do = "record" /\ s.name \in recorded        \* UNIQUE, by another runner
    \/ s.do = "heredoc"     \* `import *' inside a function does not compile

Create(p) ==
    /\ At(p, "create") \/ At(p, "add") \/ At(p, "try")
    /\ ~Raises(Current(p))
    /\ schema' = schema \cup (IF Current(p).name \in schema THEN {}
                              ELSE {Current(p).name} \cup Current(p).with)
    /\ Goes(p, Tail(todo[p]))
    /\ UNCHANGED <<recorded, admin>>

(* the exception of a tried ALTER is swallowed, whatever it was: the       *)
(* column is there, the table is not, or another program holds the lock    *)
Skip(p) ==
    /\ At(p, "try")
    /\ Raises(Current(p)) \/ \E q \in Procs \ {p} : phase[q] = "running"
    /\ Goes(p, Tail(todo[p]))
    /\ UNCHANGED <<schema, recorded, admin>>

\* _applied_migrations: the only time a runner looks at the table
ReadApplied(p) ==
    /\ At(p, "read")
    /\ Goes(p, Pending[Len(MigrationFiles)] \o Tail(todo[p]))
    /\ UNCHANGED <<schema, recorded, admin>>

Record(p) ==
    /\ At(p, "record") /\ ~Raises(Current(p))
    /\ recorded' = recorded \cup {Current(p).name}
    /\ Goes(p, Tail(todo[p]))
    /\ UNCHANGED <<schema, admin>>

\* rollback_migration: only the record goes
Forget(p) ==
    /\ At(p, "forget")
    /\ recorded' = recorded \ {Current(p).name}
    /\ Goes(p, Tail(todo[p]))
    /\ UNCHANGED <<schema, admin>>

(* the transaction of migrate_v05: the placeholder administrator, and      *)
(* every message and conversation that has no owner becomes the admin's    *)
Assign(p) ==
    /\ At(p, "assign") /\ ~Raises(Current(p))
    /\ admin' = IF admin = "none" THEN "placeholder" ELSE admin
    /\ Goes(p, Tail(todo[p]))
    /\ UNCHANGED <<schema, recorded>>

\* the lifespan yields: requests are served from here on
Serve(p) ==
    /\ At(p, "serve")
    /\ phase' = [phase EXCEPT ![p] = "serving"]
    /\ todo' = [todo EXCEPT ![p] = <<>>]
    /\ UNCHANGED <<schema, recorded, admin, mishaps>>

\* Mutant: the lifespan catches what run_migrations raises and goes on.
Fail_caught(p) ==
    /\ phase[p] = "running" /\ todo[p] # <<>>
    /\ Current(p).do # "try" /\ Raises(Current(p))
    /\ Goes(p, ensure_audit_table \o << Do("serve") >>)
    /\ UNCHANGED <<schema, recorded, admin>>

\* Mutant: a failed run goes on where it was when it is started again.
Fail_resumes(p) ==
    /\ phase[p] = "running" /\ todo[p] # <<>>
    /\ Current(p).do # "try" /\ Raises(Current(p))
    /\ phase' = [phase EXCEPT ![p] = "failed"]
    /\ UNCHANGED <<schema, recorded, admin, todo, mishaps>>

\* an exception ends the program; what was committed stays
Fail(p) ==
    /\ phase[p] = "running" /\ todo[p] # <<>>
    /\ Current(p).do # "try" /\ Raises(Current(p))
    /\ phase' = [phase EXCEPT ![p] = "failed"]
    /\ todo' = [todo EXCEPT ![p] = <<>>]
    /\ UNCHANGED <<schema, recorded, admin, mishaps>>

Finish(p) ==
    /\ phase[p] = "running" /\ todo[p] = <<>>
    /\ phase' = [phase EXCEPT ![p] = "off"]
    /\ UNCHANGED <<schema, recorded, admin, todo, mishaps>>

\* the server is shut down: nothing but the backup task is cancelled
Shutdown(p) ==
    /\ phase[p] = "serving"
    /\ phase' = [phase EXCEPT ![p] = "off"]
    /\ UNCHANGED <<schema, recorded, admin, todo, mishaps>>

\* killed, or failed for a reason of its own
Stop(p) ==
    /\ phase[p] = "running"
    /\ mishaps < MaxMishaps
    /\ mishaps' = mishaps + 1
    /\ phase' = [phase EXCEPT ![p] = "off"]
    /\ todo' = [todo EXCEPT ![p] = <<>>]
    /\ UNCHANGED <<schema, recorded, admin>>

(* an account of the name admin made by the command line client, or by    *)
(* the API; accounts are deleted in module Accounts only                   *)
AddUser ==
    /\ {"users", "user_preferences"} \subseteq schema
    /\ admin = "none"
    /\ admin' = "set"
    /\ UNCHANGED <<schema, recorded, phase, todo, mishaps>>

\* another administrator sets the password of account admin
ResetPassword ==
    /\ \E p \in Procs : phase[p] = "serving"
    /\ admin # "none"
    /\ admin' = "set"
    /\ UNCHANGED <<schema, recorded, phase, todo, mishaps>>

Step(p) ==
    \/ Create(p) \/ Skip(p) \/ ReadApplied(p) \/ Record(p) \/ Forget(p)
    \/ Assign(p) \/ Serve(p) \/ Fail(p) \/ Finish(p)

Next ==
    \/ \E p \in Procs : (\E prog \in Programs : Start(p, prog)) \/ Step(p) \/ Shutdown(p) \/ Stop(p)
    \/ AddUser \/ ResetPassword

Spec == Init /\ [][Next]_vars

-----------------------------------------------------------------------------
(* Properties *)

\* The type invariant; only a running program has statements left.
TypeOK ==
    /\ schema \subseteq Objects
    /\ recorded \subseteq Files
    /\ admin \in {"none", "placeholder", "set"}
    /\ phase \in [Procs -> {"off", "running", "serving", "failed"}]
    /\ \A p \in Procs : phase[p] # "running" => todo[p] = <<>>
    /\ mishaps \in 0..MaxMishaps

\* The table schema_migrations never claims what is not there: every object
\* of a recorded file exists, wherever its runner was stopped, whoever ran
\* beside it, and although no statement shares a transaction with the record.
RecordedIsApplied == \A f \in recorded : Made(f) \subseteq schema

\* A server that answers requests has every table, column and index of every
\* release, whatever database it was started on and whatever failed before.
ServingHasSchema == \A p \in Procs : phase[p] = "serving" => Objects \subseteq schema

\* No statement of a migration ever misses what an earlier release's files
\* were to create: not after a partial run, not beside another program, not
\* when files are applied again after a rollback.
MigrationsFindTheirTables ==
    \A p \in Procs : At(p, "create") \/ At(p, "add") =>
        Current(p).needs \subseteq schema \cup {"memory/"}

\* migrate_v05.py:97 "Create a placeholder admin -- setup.sh will set the real
\* password": a setup that is neither stopped nor disturbed leaves no
\* administrator with the placeholder when it ends.
PlaceholderIsReplaced == (\A p \in Procs : phase[p] # "running") => admin # "placeholder"

\* memory.py:11 "Initialize the SQLite database and create / migrate all
\* tables", migrations.py:3 "runs new ones on startup": a program that is not
\* disturbed does not fail on a database the programs have made.
StartsSucceed == \A p \in Procs : phase[p] # "failed"
=============================================================================
