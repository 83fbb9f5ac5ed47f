# Formal models of BrainC

TLA+ models of BrainC, the configurations that check them with TLC on small
instances, and theorems about them proved with TLAPS. Paths below are relative
to the repository root unless they name a module.

    tlc -config MCGovernance.cfg MCGovernance.tla     # check one instance
    tlapm GovernanceProofs.tla                        # check a module's proofs

## 1. The system

BrainC is a local assistant: an HTTP API over one SQLite database and one local
model server, a web page, and a family of offline command-line tools with which
operators keep a signed record of what they have inspected.

| Part | State | Operations | Interacts with |
| --- | --- | --- | --- |
| R12 governance ledger, `scripts/r12_governance.py` (twin: `interop/r12-governance.mjs`) | ledger and checkpoint files, operator trust store | init, approve, revoke, expire, check | R10 passports, R13 |
| R13 witness, `scripts/r13_witness.py`, `r13_check.py` | receipts, witness trust store, the receiver's floor | sign a checkpoint, verify | R12 |
| R11 enrollment, `scripts/r11_enrollment.py` | a registry file, replaced by hand | init, approve, revoke, check | R10 |
| R10 / skill passports, `scripts/r10_verify_signed.py`, `skill_passport_verify.py` | none (a verdict on one document) | verify, replay | R11, R12 |
| Accounts, `api/auth/` | tables users, sessions, refresh_tokens; the login limiter in memory | register, login, refresh, logout, revoke, administer | every handler, through `get_current_user` |
| Conversations, `api/routes/chat.py`, `conversations.py`, `memory.py` | tables conversations, messages | chat (with compaction), clear, remove | inference client, tools |
| Inference client, `api/core/inference.py` | none | complete, stream | the model server |
| Inference queue, `api/core/queue.py` | a bounded queue of tickets, a lock | `queue_slot` | read by health; no caller yet |
| Active model, `api/routes/models.py`, `api/config.py` | a module variable, `.env` | switch, start | inference client, command line client |
| Store lifecycle, `api/core/migrations.py`, `memory.init_db`, `scripts/migrate.py`, `scripts/migrate_v05.py`, `setup.sh` | the schema, table schema_migrations, the first accounts | start, migrate, roll back, set up | all tables |
| Backups, `api/core/backup.py` | archives in `backups/` | run, prune, restore | the database, the workspace |
| Notes and calendar, `api/tools/notes.py`, `api/routes/tools.py` | notes, `calendar.json` | create, add, delete, list | chat, backups |
| Command line client, `scripts/braincbrain-cli.py` | none of its own | users, model, database | writes the same tables and files as the server, beside it |
| Chat page, `ui/app.js` | tokens, current conversation, the stream being shown | send, load, refresh | the API |

The rest (audit log, preferences, health, logging, embeddings, executor, file
reader, search, MCP adapters, training, build scripts) keeps
no state that another part's correctness rests on; `PROJECT.json` lists each
with the reason it is left out.

**What makes it hard.** The API is one event loop: a handler runs alone between
two awaits and shares everything at each await. No handler uses a transaction
across two helpers, every helper of `memory.py` opens and commits its own
connection, and no foreign key is enforced (`PRAGMA foreign_keys` is never
set), so every read-then-write in a handler is open to interleaving, and a
stop between two helpers leaves what the first one did. The R12 tools never
overwrite a file and hold no lock: any command may start from any ledger and
any checkpoint ever written, and dies between its two writes, or within one, if
it must. The
queue is a timeout racing a lock's hand-over. The schema is brought up to date
by five programs that exclude nobody, one committed statement at a time. The
small files (`.env`, `calendar.json`, the archives) are written in place: opened,
and so emptied, then written, by threads, by another process, and by a server
that may be killed in between; and a write may fail where nobody is killed, which
the code logs and goes on from. The R11 registry is replaced by hand, and may be
replaced by an older one.

**What makes each part correct.** A ledger's history cannot be rewritten under a
checkpoint, a closure is final and a lease is never renewed; a receipt is good
for one history and a receiver is never taken back; no account inherits
another's sessions and a spent token is dead; compaction forgets nothing and no
partial answer is stored; the queue serves in order and loses nobody; a
migration that is recorded has been applied, and a server that serves has the
whole schema; a passport that is approved was earned, signed by a key that is
pinned now, and is not approved again on any line of registries that revoked it;
settings survive an edit of `.env` and a restart keeps the model, unless the file
is met or left empty or edits overlap; a whole archive is left to restore from, and
the calendar holds what was restored and added to it.

## 2. Modules

| Module | Models | Theorems |
| --- | --- | --- |
| `Governance` | R12 ledger files, checkpoints and commands | `GovernanceProofs` |
| `Witness` (extends `Governance`) | R13 witnesses and a receiver over those files | `GovernanceProofs` |
| `Accounts` | accounts, sessions, refresh tokens, login limiter | `AccountsProofs` |
| `Conversations` | conversations, messages, compaction, streaming | `ConversationsProofs` |
| `InferenceQueue` | `queue_slot` over `asyncio.Queue`, `asyncio.Lock`, `asyncio.timeout` | `InferenceQueueProofs` |
| `Schema` | the schema, its migrations, the programs that apply them, the first accounts | `SchemaProofs` |
| `Passport`, `Enrollment` (extends it) | skill passports, signed envelopes, R11 registries | `EnrollmentProofs` |
| `Settings` | the active model and `.env` | `SettingsProofs` |
| `Workspace` | the calendar, backups, restores | `WorkspaceProofs` |
| `Dataset` | what `finetune/collect.py` exports from the messages (no state) | |
| `Turnstile` | the abstract promise `InferenceQueue` implements | `InferenceQueueProofs` |
| `MC*` | the same modules with the sets and symmetries TLC needs | |

### Governance and Witness

`ledgerFiles` and `headFiles` are the ledger and checkpoint files on disk, each
`Whole` or `CutOff`: `save_new` opens a new file and streams JSON into it
(`r12_governance.py:408-411`), so a kill or a full disk leaves a file under its
final name that ends early and that nobody can parse. `ledgers` and `heads` are the
contents of the whole ones. `cli` holds what each operator's command is doing. A
command is three steps: `AppendApproval` or `AppendClosure` computes the new ledger
in memory (the whole of `append_approval`/`append_closure` with its replay of input
and output), `SaveLedger` writes `out_ledger`, `SaveHead` writes `out_head`, to its
end or not. `Abort` is a death or a refusal before either. `approve` reads the
operator trust store again before it writes (`r12_governance.py:428`), the closures
do not; `rereads` is that difference. `EditTrust` and `EditPins` are the receiver's
administration, `Tick` and `SetBack` the machine's clock. `ChainValid` is
`verify_ledger`: `Linked`, `ClockOrdered`, the pinned signer, `Transition`. The
dictionary `states` of the replay is `Latest` (the approval it holds for an id) and
`ClosedAfter` (its `closed` flag). `ReviewApproved` is `evaluate`.

Abstractions: SHA-256 is an injective constructor (`sha(e) == <<e>>`; an entry
contains `prevHash`, so a hash determines the whole history). A signature is the
signer's name. An enrollment id is a hash of fields of the envelope, so an id *is*
the envelope. Field formats are left out: every value the commands build satisfies
them. The byte limit is not: `verify_ledger` compares it with the compact ledger
(`CompactBytes`, line 183) and `read_json` with the length of the file, which is
indented and escaped to ASCII (`FileBytes`, line 403). The two lengths are constants
of which no more is assumed than that an empty ledger is within the limit; a ledger
may be valid, be written and be refused by the next command (`Readable`). In the
code, 128 events about models whose labels are 128 non-ASCII characters take 175,054
bytes compact and 246,363 on disk, where 192,000 are allowed. Ledger files in the
model are those some command wrote; documents made up by hand are outside it.

`Witness` adds the receipts. `verify_witness` takes the floor as an argument in
the code; `Receive` is a caller that does what `README.md:530` asks and retains
the count it accepted.

### Accounts

The variables are the tables; `req[r]` holds the local variables of the request
a worker handles, with `pc` naming the await it will perform next. One step is
one database call and the code up to the next await. `Prune`, `List`, `Evict`,
`CreateSession`, `SaveToken` are `_issue_tokens`, shared by register, login and
refresh as in the code. `bearer[u]` is when the latest access token of `u`
expires; tokens are checked against that and the users table only
(`middleware.py:69-78`), never against sessions, and neither does the model.
`NewId` is AUTOINCREMENT. `Restart` loses what is in memory, `Abort` is a
handler that ends in an error.

Left out: password hashing (a password is a value), the names and attributes of
sessions, the last-login time, preferences. A read and the code after it are
one step; where that code touches shared memory (`VerifyLogin` and the limiter)
nothing the properties say depends on the gap between them. Registration is
open (`ALLOW_REGISTRATION`). One client address stands for all: limiter records
do not interact.

`cmd_users_create`, `cmd_users_delete` and `cmd_users_reset_password` (with
`ResetByName`, after its prompts) are the command line client, another process
that asks no token: each ends in one transaction, so a command that only looks a
name up first is one step, while the reset keeps in `cli` what it found before
the prompts. It sets the password by name and deletes the tokens by the id it
found, and `users delete` deletes the last administrator as readily as any other.
`Commands` says which of them an instance uses.

### Conversations

One step per await, as above. What a message says is reduced to what the
properties need: its role, author and conversation, whether an answer is whole,
and which messages a summary stands for (`covers`). `erased` and `lost` are
history variables: what a user asked to delete, and what died with a request
between `delete_messages_by_ids` and `save_summary` (`chat.py:82-83`). A stream
yields text any number of times and ends with `done` or an `InferenceError`; a
client may go away at any yield. Rows order by id, as timestamps grow with it.
Owners are never NULL in the model: only databases older than the accounts have
such rows.

`Dataset` is the loop of `finetune/collect.py` over the stored rows, as a function;
`ExportIsExact`, an assumption of `MCConversations`, compares it with "a question
and the answer that follows it" on every table of up to four rows in two
conversations. What it cannot tell, nor can the code: where two requests of one
conversation overlap, the answer that follows a question is the other's.

### InferenceQueue and Turnstile

One step is what a task does between two suspensions; the only suspensions are
the wait for the lock and the caller's own block (a put on a queue that is not
full does not suspend, and nothing else runs between the test and the put). The
lock is CPython 3.11's (`docker/Dockerfile` runs 3.11): `release` marks the
first waiter's future, the waiter claims the lock when it runs, a cancelled
waiter passes its mark on, a newcomer takes a free lock only if all waiters are
cancelled. `Timeout` may hit a waiter whose future is already set. The `finally`
clause removes the *oldest* ticket (`queue.py:67`), whoever put it.

`Turnstile` is what "Serialises Ollama requests" (`queue.py:3`) promises: the set
of callers in `line`, who of them came `ahead` of whom, and the one `inside`. The
mapping drops cancelled tasks from the line: from the timer on, they have given
up. The lock's list is a sequence in the queue and an order in the turnstile, so
that a step out of the middle of the line needs no renumbering.

`queue_slot` has no caller in the repository, although `README.md:81` counts on
it; the model says what callers will get.

### Schema

A program is the sequence of statements it has left (`todo[p]`). `Statements(f)` are
the statements of the seven files under `scripts/migrations/`, `init_db`,
`run_migrations`, `migrate_v05` and `Steps` the programs' own. A statement names the
object it makes and those it needs; `Raises` says when SQLite refuses it: a table or
column is missing, a column is there already, a file was recorded by somebody else.
`Try` is `try: ALTER ... except Exception: pass`. Every CREATE and ALTER is
committed by itself, as Python's sqlite3 opens a transaction for INSERT, UPDATE and
DELETE only. `Stop` is a kill, or a failure for a reason outside the schema, after
any statement. `setup.sh` is `migrate_v05` and then the program of lines 121-131,
which has `from api.config import *` inside a function: it does not compile, and
under `set -euo pipefail` the script ends there. What stands after it (the count of
users, the questions, the password of the administrator) is never reached, and is
not modelled. `admin` is the account of that name: `migrate_v05` gives it a
placeholder for a password, `AddUser` and `ResetPassword` are another program or
administrator that sets a real one. `Origins` is what may be on the disk at first: a
clone without `memory/`, a container with it, and two older releases.

`run_migrations` returns early when there is no directory of migrations
(`migrations.py:35`); the files ship with the code, and the model takes them to be
there. The server needs `slowapi` to export what `main.py:16` imports; imports are
taken to resolve.

### Passport and Enrollment

`Passport` has no variables: `replay` is the loop of
`skill_passport_verify.replay` as a recursive function over the steps (`Walk`),
`verify_object` the checks around it. A digest is the value it was taken of, a raw
answer the action it parses to. `Passed` says what an episode is worth, without
the loop: both targets inspected and nothing else, then the expected decision.

`Enrollment` keeps the files in `file`. A command reads any of them, holds the
result in `cmd[o]`, and `save_new` writes it under a name that must be new; the
process may die while it writes, and leaves `CutOff`. `ReplaceLive` is "manually
replace the local registry" (`r11_enrollment.py:231`), `EditLive` an edit by hand
(the records are "LOCAL and EDITABLE", line 7), `SetClock` the operators' clock,
`EditTrust` the R10 store. `evaluate` is `check`. `reviews` and `lineage` are
history variables: every approval an operator gave, and what was revoked on the
way to each file. As in `Governance`, one limit bounds the compact registry when it
is validated (`CompactBytes`, `r11_enrollment.py:73`) and its indented file when it
is read (`FileBytes`, line 208): `TypeOK` says that what the commands write is
valid, and `WrittenIsReadable`, which does not hold, that it can be read.

### Settings

`env` is `.env`: the line ACTIVE_MODEL, and whether everything else is still
there. `ReadEnv`, `OpenEnv` and `WriteEnv` are `_persist_model_to_env`, in a
thread for the server and in another process for the client; `OpenEnv` empties
the file. `FailEdit` is an edit that raises at any of the three: after the opening
what is left is cut off somewhere, and the server logs a warning and keeps the model
it has switched to (`models.py:89-90`). The server takes only an alias that its
runtime offers (`Models`); the client takes any name (`Names`), and so do `.env` and
a start. `StartServer` is `load_dotenv`, which leaves variables alone that are set
(`Loaded`), with `initial_model_name`.

`Sites` says where the server runs. On a host, nothing but `.env` sets these
variables. In the production container, `docker-compose.yml:20-21` puts the host's
`.env` into the environment (`environ`), and the image has no `.env` of its own
(`Dockerfile:27-30`): what a switch writes is `/app/.env`, which
`RecreateContainer` loses. `phi` is `PHISERVE_MODEL`, fixed for an installation. The
development compose file is not modelled: the stage it builds has no uvicorn on its
path.

`torn` and `apart` are history variables that name the ways in which the code itself
loses a setting or lets file and variable disagree, so that the properties say there
is no other. That the active model is one the runtime offers is not a property:
nothing checks what the client, `.env` or the environment say.

Not a property, but the reader should know: with Ollama a preference always wins
over the active model (`inference.py:278`, `chat.py:213`), and a row of
`user_preferences` is created with the model `braincbrain`; so the "Runtime model
switching" of `README.md:82` does not reach the chats of users who never chose.

### Workspace

`calendar` is the file's content (none when it does not parse), `pen[w]` what a
process that has opened it is about to write: the server, for an event or a restore,
or the client, for a restore. `Open` empties the file, `Write` writes it,
`FailWrite` leaves it as it is or cut off, with the server alive (a full disk, an
archive that ends early, a client that is killed). A process whose file another has
written meanwhile is `underneath`: what results is what it writes, or does not
parse. The tool routes call plain functions and then await the result, which raises:
the effect is there and the answer is a 500, so the model has no failing branch that
undoes anything. They also hold the event loop, hence `LoopIsFree`; the client asks
nobody.

A backup is `BeginBackup` (the name, to the second, and the file emptied),
`CopyCalendar`, `CloseBackup`, `ListOld`, `Unlink` (once for each file of the list),
`FinishBackup`, with requests going on in between; `names` is the directory by
modification time, taken when an archive is opened and when it is closed (in the
code it also moves while the copying goes on). `FailBackup` is a copy that raises
without anybody being killed (a full disk, a note that is deleted or shrinks while
it is copied): `_backup_scheduler` logs it and goes on (`backup.py:87-91`), nothing
is pruned, and the piece stays under the name of a backup. `_prune_old_backups` has
no protection against another run that prunes at the same time: `stat` of a file
that is gone, or the `unlink` of one, raises, and the rest of the list stays;
`ListOld` and `Unlink` have that branch. `cutShort` says that one of these, or a
kill, has happened since the last listing, `newest` is the second in which a run
last began, `reused` that two began in one. `KillServer` ends runs and handlers
where they are.

`WholeBackupRemains` needs `EnoughKept`: pruning to thirty leaves a whole archive
only while fewer than thirty newer ones are of no use. Each run in progress may have
two, the one it still writes and one that another run had listed as old, and that
its own run closed after (which makes it the newest file, about to be deleted). With
more runs than half of `MAX_BACKUPS` and one, all that pruning keeps may be such
files. The API puts no limit on the runs. A run that has closed its archive lists
later, and counts every piece that failures have left in between; it then deletes
its own archive too if there are `MAX_BACKUPS` of them. `failedBeside` records a
failure beside a run in that state, and exempts it. Failures before the run closes
its archive are older than that and leave it: the run loses the others' whole
archives, never its own, which is what `KeepsLastBackups` shows.

`Extract` is a restore, by the API or the client, of whatever an archive holds:
neither asks whether it is whole (`backup.py:130`, `braincbrain-cli.py:239`), and a
piece that ends after the calendar restores it. The calendar is then the archive's,
and events added since the backup are gone; `kept`, the history of what should be
there, follows the restore, as that is what a restore is for. What `EventsSurvive`
says is that nothing else loses or brings back an event: no copying or pruning, no
handler with an old list in its hands. A write that was cut off, or two processes
with the file open, is `disturbed`, and exempt.

The archive's `conversations.db` is extracted to the repository's root
(`backup.py:136`), where nothing reads it, so `Extract` leaves `db` alone although
the prompt says "This overwrites the current database" (`braincbrain-cli.py:234`):
`RestoreBringsDatabase` states it. `seconds_until` is the scheduler's sum;
`BackupsAtFour` in `MCWorkspace` evaluates it for every minute of the day: the
scheduler, "at 3am UTC" (`backup.py:73`), wakes at four o'clock.

## 3. Runs

| Run | Instance | Shows |
| --- | --- | --- |
| `governance` | 2 operators, 2 envelopes, 4 files, 3 events, clock 0..2 | checkpoints pin histories, heads have ledgers, closures are terminal, leases never renewed, whole files replay |
| `witness` | 1 envelope, 2 operators, 1 witness, 1 receiver, 3 files, clock 0..1 | a receipt verifies one ledger, no rollback |
| `accounts_admin` | 2 requests, the client creating accounts, 2 names, 3 accounts, 2 token pairs | ids not inherited, last administrator |
| `accounts_tokens` | 2 requests, the client creating, deleting and resetting, 1 account, 3 token pairs, cap 1, clock 0..1 | dead tokens, limiter bound, session cap |
| `accounts_logout_everywhere` | as above, without the client | finding: refresh tokens survive |
| `conversations` | 2 requests, 2 users (one admin), 1 conversation, 6 messages, batch 4, threshold 1 | owners, compaction, partial answers, bounded history |
| `inference_queue` | 4 tasks, queue of 3 | depth, wake-ups, liveness, refinement |
| `schema` | 2 programs of 5, 4 first states of the disk, 1 stop or rollback | recorded means applied, serving means complete, migrations find their tables |
| `schema_startup` | 1 program, a container's disk, no stop | finding: the start fails |
| `enrollment` | 1 operator, 8 envelopes, 3 trust stores, 3 new files, 2 entries, clock 0..1, 1 edit | approvals are earned, revocations stay on their line |
| `settings` | 2 switches and the client, 3 names of which the runtime offers 2, Ollama or PhiServe, host or container, 1 kill | settings survive, a restart keeps the model |
| `workspace` | 2 runs, 2 archives kept, 4 seconds, 1 kill; with 1 run at a time, 2 seconds: 2 events, 1 commit | a whole archive remains, events survive |

**Why the bounds are enough.** Two operators and four files give every shape of
branching (a fork needs three files, a fork that is continued four). Three events
allow approve, close, and an attempt at a third event on the same id; the clock has
an instant before, at and after a one-instant lease. Every interleaving property of
the API is about two requests, or a request and a stop; two requests at once reach
all of them, and each request may be any handler any number of times. Three accounts
allow a deleted account, its successor and an administrator; three token pairs allow
a refresh of a refresh; a cap of one session makes eviction happen at the second
login. Failed logins are counted in `accounts_tokens` only (`MaxBadLogins` is 0
elsewhere and the limiter touches no table). The pins of the R10 store do not change
in either run of the ledger (`PinStores` has one member; they only matter to
`ReviewApproved` and `AppendApproval`, which the proofs cover for any), and the
operator trust store changes in `witness` only: in `governance` it has one value and
`EditTrust` is a stutter there. In
`governance` a ledger with two events about the second envelope is valid and its
file is too long to be read. A batch of four with two requests satisfies the code's
own ratio (ten messages, five requests at once); six inserted messages reach two
compactions of one conversation, by two requests on the same messages or one after
the other. Four tasks put two in line behind the one inside and turn the fourth
away, and let a newcomer race a hand-over while a third waits. Time instants stand
for minutes, hours or days: only their order matters. Two programs over one database
meet at every statement, and one stop or rollback lets any of them be started again
on what another left; the files rolled back are one that cannot be applied twice
(002) and one that can (006). Three new files hold a registry, its revocation and a
branch; R11's operator is one, as a command reads any file and interferes only
through the name it writes. Its eight envelopes are two sound ones and six that are
wrong in one way each: forged, never pinned, decided too soon, an episode counted
twice, a wrong decision recorded before the right one, undecided. `ReplayIsExact`
(an assumption of `MCEnrollment`) compares `replay` with `Passed` on every sequence
of up to four answers. A registry of two approvals is valid there and cannot be
read, one of an approval and a revocation can. Three editors of `.env` overlap in
every order, on a name the runtime offers or not. Four seconds and two archives
kept, the fewest `EnoughKept` allows to two runs, let a run prune what another run
has just listed, and let pieces left by failures or a kill push a whole archive out.
The calendar meets the backups only in what an archive holds of it, so
once an event, a restore or a commit is there, the constraint `OneRunOfUse` of
`MCWorkspace` leaves one run at a time, over two seconds; the proof of the invariant
has all of it together. Tasks, operators and requests are
interchangeable, and the runs without temporal properties use that symmetry where
the properties are symmetric.

**Fairness.** Only the queue has liveness properties. The event loop runs every
ready task, so a marked waiter claims the lock and a cancelled one leaves
(`WF(Claim \/ LeaveLine)`); `asyncio.timeout` ends every block (`WF(Exit)`).
Nothing makes callers come or timers fire on waiters, and nothing is assumed of
either. The HTTP handlers have no fairness: a client, the model server or a
stop may end any of them anywhere, and no liveness property is claimed.

**Findings.** Two runs show a statement of the repository violated by the code;
`PROJECT.json` quotes each. "Logout everywhere" (`sessions.py:35`) leaves refresh
tokens good. The server does not start on a database it has made itself
(`migrations.py:54`): `init_db` creates `messages` with its column `embedding`, 001
is applied and recorded, and the ALTER TABLE of 002 raises "duplicate column name";
nothing catches it, and every later start fails in the same place. The order that
works is a directory `memory/` and `migrate.py` before anything else; on a fresh
clone `migrate.py` itself fails, as nothing has made the directory.

Five more such statements have a property and a configuration of their own, small
enough to be read with its trace. They are not among the runs of `PROJECT.json`; TLC
violates each:

| Configuration of | Property | The repository says, and the code does |
| --- | --- | --- |
| `MCSchema`: `SchemaSetup.cfg` | `PlaceholderIsReplaced` | "setup.sh will set the real password" (`migrate_v05.py:97`); `setup.sh` ends at line 121 with a SyntaxError (line 125) and never asks for one |
| `MCEnrollment`: `EnrollmentSize.cfg` | `WrittenIsReadable` | "To revoke ... run" (`README.md:462`); a registry that `approve` wrote may be too long for any command to read (`r11_enrollment.py:208`, `:213`) |
| `MCSettings`: `SettingsContainer.cfg` | `SwitchIsPersisted` | "Persist to .env" (`models.py:86`); in the container the next start reads that file and ignores it (`config.py:10`) |
| `MCWorkspace`: `WorkspaceKeeps.cfg` | `KeepsLastBackups` | "Keeps last 30 backups" (`backup.py:4`); the pieces of failed runs are counted among the thirty (`backup.py:50`) |
| `MCWorkspace`: `WorkspaceRestore.cfg` | `RestoreBringsDatabase` | "This overwrites the current database" (`braincbrain-cli.py:234`); it lands where nothing reads it (line 240, `backup.py:136`) |

What the passing properties leave room for, and the code does: two logins of one
account that both list its sessions exceed the cap of `routes.py:87`
(`SessionExcessOnlyByOverlap` says that nothing else does); two users' first
messages to one conversation id are both stored, as the owner is tested before
the conversation exists (`chat.py:205`; `OwnerNeverChanges` says the owner never
moves); two backups in one second spoil their archive; a server started while
`.env` is being rewritten has no SECRET_KEY of its own, and one whose edit of `.env`
fails goes on and leaves it empty; a calendar that is cut off by a kill or a full
disk is read as empty; a spent refresh token may have bought two pairs, or none; the
messages being compacted when a request dies are lost.

## 4. Proofs

Every invariant and every action property that a passing run checks is also a
theorem, for any sets of requests, operators, users, files and values and any
limits. The theorems rest on the named assumptions of the modules and on nothing
else; TLC evaluates these in every run. An invariant is proved from a stronger one
that is inductive (`IInv`, `SInv`, `WInv`, `BInv`); what it adds, and why the
property does not carry itself, is the content of the proof.

`GovernanceProofs`: `TypeOK`, `CheckpointPinsHistory`, `HeadHasLedger`,
`PublishedReplays`, `ClosureIsTerminal`, `LeaseNeverRenewed`, from
`GovernanceAssumption`. They speak of the files that were written to their end, with
any others beside them. That equal checkpoints mean equal ledgers cannot be shown
from one step alone: the invariant adds that the files form a tree (`Tree`: each
extends another file by one entry that hashes that file's head) and that what a
running command holds already extends a file and replays (`Commands`). Two files
with one checkpoint then end in the same entry, that entry's `prevHash` gives
their predecessors one checkpoint, and the predecessors are equal by the
invariant before the step. The two properties of `evaluate` follow from the replay
itself: in a chain that replays, an id has one approval (`OnlyApproval`).

The same module goes on to the witness: `WitnessTypeOK`,
`ReceiptVerifiesOneLedger`, `NeverRolledBack`. The ledger's invariant holds of
`WitnessSpec` as its steps are the ledger's or leave the ledger alone. The
invariant adds that each receipt names a file whose last event its time does not
precede (`SignedFiles`): a receipt therefore goes on verifying *some* file whatever
clocks and stores do, and `CheckpointPinsHistory` makes it the only one.

`ConversationsProofs`: `TypeOK`, `CompactionKeepsContent`, `NoPartialAnswer`,
`OwnerNeverChanges`, from `ConversationsAssumption`. The invariant adds that only
turns, which cover nothing, are ever picked for deletion (`OnlyTurnsCompacted`),
and that a request about to save an answer saw the done frame (`AnswerIsDone`).

A second invariant, `BInv`, carries the two bounds. For `SummariesBounded`
(`SummaryCounts`): of every message, the summaries that cover it and the requests
that hold it for compaction together are at most the requests; a read adds a
request only while no summary covers the message, and a save trades the request
for the summary, its own rows being gone by then. For `HistoryBounded`
(`RoomRemains`) a bound on the turns alone is not inductive, and neither is one
that counts what the requests still owe: several requests may have read the same
ten messages, and only one of them will remove any. So the invariant speaks of
every set of the requests that have read: *if these deleted now*, what is left and
what all the others still add would fit. A request that reads leaves a batch less,
or nothing (`OldestTurnsFill`), and a batch makes up for two messages of every
request that may delete beside it; this is where `2 * |Reqs| <= Batch` is needed.

`AccountsProofs`: `TypeOK`, `ExchangedTokenIsDead`, `FailedLoginsBounded`,
`NewAccountIsClean`, `LastAdminOnlyByCrossing`, `SessionExcessOnlyByOverlap`, from
`AccountsAssumption` (`Nobody` is no name and no operation, and the requests are
finitely many, which the limiter's bound counts). The invariant says what a
request holds between two awaits (`LocalOK`): numbers that were given out, and,
about to create a session, a list that was below the cap or has lost a session
since; that a token number is in one place at a time, handed out by one request, in
the table or spent (`TokensOK`); and that failures counted and failures in flight
together stay under the limit and one per request (`LimiterOK`).

`SchemaProofs`: `TypeOK`, `RecordedIsApplied`, `ServingHasSchema`,
`MigrationsFindTheirTables`, from `SchemaAssumption` and
`OriginsAssumption` (what is on the disk at first are objects of the schema). One
idea carries them all (`Sound`): of every statement a program has left, what it
wants is there, or an earlier statement of the same program gives it. Nothing ever
drops an object, so what is there stays.

`SettingsProofs`: `SettingsTypeOK`, `SettingsSurvive`, `RestartKeepsModel`, from
`SettingsAssumption` (names are names, whether the runtime offers them or not). The
invariant adds that what an editor has read and will write back is whole
(`BuffersWhole`), that a switch nobody crossed was the last to set the variable
(`LoneSwitchIsActive`), and that .env, or what the one editor has read of it, agrees
with the variable while nothing has put them apart (`Agreement`).

`InferenceQueueProofs`: `TypeOK`, `DepthCountsRequests`, `WakeUpPending`, from
`QueueAssumption`. The invariant adds that only the head of the line is ever
marked, and only while the lock is free (`FuturesOK`), that the lock is held by the
one request inside (`LockOK`), and that there is one ticket for each request
(`TicketsOK`): whoever takes out the oldest ticket finds one. `QueueIsTurnstile`
proves the safety half of `ServesInOrder`: every step of the queue is a step of the
turnstile or a stutter.

`EnrollmentProofs`: `TypeOK`, `ApprovalIsEarned`, `RevokedStaysRevoked`, from
`EnrollmentAssumption` and `SignedAssumption` (in a passport that is well formed the
lists are lists and every step's answer is one `parse_action` can return,
`skill_passport_verify.py:85-98`). The replay is unfolded step by step, as an
episode has at most five: one that replays to success has passed (`ReplaySound`).
The invariant adds that what the commands write is valid (`WrittenValid`), that the
review of every approval is still in a file (`ReviewsRemain`), and that, as long as
nobody edits a registry by hand, every entry was reviewed and what was revoked on
the way to a file has a revoked entry in it (`Unedited`).

`WorkspaceProofs`: `TypeOK`, `WholeBackupRemains`, `EventsSurvive`, from
`WorkspaceAssumption`. For `EventsSurvive` the invariant says that, as long as no
write was cut off or crossed, at most one process has the calendar open and is about
to write what should be there (`CalendarKept`). For `WholeBackupRemains` the
invariant (`GoodRemains`) has a whole archive that no run has listed, newer than
every piece a failure or a kill left before it; and an injection of the useless
archives (whole, listed, nothing better newer) into the runs (`Charge`): each is the
last that some run has closed, and among runs that are deleting, the first to have
listed has none that the others spare. Counting runs and files then gives
`EnoughKept`: a listing never reaches the last good archive. Without it the property
fails: in `MCWorkspace` with three runs and the same two archives kept, three runs
that overlap leave none that is whole.

**Only model-checked.** `EveryoneMovesOn` and the fairness of `ServesInOrder`:
liveness is beyond the prover. The assumptions `ReplayIsExact`, `ExportIsExact` and
`BackupsAtFour` are evaluated by TLC for all inputs up to a size; of the first,
`ReplaySound` is the half that the safety of an approval rests on, for all inputs.
`LogoutEverywhere`, `StartsSucceed`, `PlaceholderIsReplaced`, `WrittenIsReadable`,
`SwitchIsPersisted`, `KeepsLastBackups` and `RestoreBringsDatabase` do not hold.

## 5. Plan

The order is by how much of the system rests on the behaviour.

1. Done: the ledger, its witness, accounts, conversations, the queue; the store's
   schema and its programs, passports and enrollment, the active model, the
   calendar and the backups, and the client's commands that write beside the
   server; proofs of every invariant and action property that the runs check.
2. Open for the proofs: the other half of `ReplayIsExact`. What `Dataset` exports
   takes an induction over the rows, which the provers cannot do.
3. Open for the model: `ChatPage` (tokens, history loads and streams of
   `ui/app.js` against a server that answers out of order); what a password reset
   leaves to a login in flight; what a compaction in flight brings back of an
   erased history; `db backup` of the client.

## 6. Not modelled, and why

The JavaScript twins of the offline tools are taken to agree with the Python ones.
Encodings and message formats of all tools, and the byte limits of passports and
trust stores; embeddings, semantic search and what tools put in a prompt; titles and
tags; notes, a file each (a second note of one title on one day replaces the first,
`notes.py:36-38`); preferences, one row per user that is replaced whole; audit,
health and logging, which no other part reads; the bytes of a database file copied
while it is written (`Mixed` says that the copy is of no one moment); the
rate-limiter library the application configures but does not attach to its routes;
the executor, the file reader, search and the MCP adapters, which keep nothing
between calls; training, its reports, and images.
