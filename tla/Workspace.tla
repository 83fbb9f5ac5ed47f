----------------------------- MODULE Workspace -----------------------------
(***************************************************************************)
(* The calendar (api/tools/notes.py behind api/routes/tools.py) and the    *)
(* backups that copy it and the database (api/core/backup.py, `db restore` *)
(* of scripts/braincbrain-cli.py).                                         *)
(*                                                                         *)
(* The calendar's handlers hold the event loop from their first line to    *)
(* their last, so they exclude each other and a restore by the API; a      *)
(* backup runs in threads beside them, and the client restores from a      *)
(* process of its own.  The tool route then awaits the dict or list it     *)
(* got: the effect is there, and the answer is an error (500).             *)
(*                                                                         *)
(* The database is a number, one more at each commit.  calendar.json       *)
(* exists, and ~/BrainC is the repository: anywhere else an archive holds  *)
(* none of the server's calendar, and a restore does not touch it.  An     *)
(* archive's modification time is taken when it is opened and when it is   *)
(* closed, not as its copying goes on.                                     *)
(***************************************************************************)
EXTENDS Integers, Sequences, FiniteSets

CONSTANTS Runs,        \* backup runs: the scheduler's and requests'
          Events,      \* calendar events
          MaxBackups,  \* MAX_BACKUPS, 30
          MaxCommits,  \* bound of the model: commits to the database
          MaxSeconds,  \* bound of the model: last second of the clock
          MaxKills     \* bound of the model: times the server is killed

ASSUME WorkspaceAssumption ==
    /\ IsFiniteSet(Runs)
    /\ {MaxBackups, MaxSeconds} \subseteq Nat \ {0} /\ {MaxCommits, MaxKills} \subseteq Nat
    /\ "nothing" \notin Events

VARIABLES up,        \* the server serves
          calendar,  \* the events in calendar.json; none if it does not parse
          pen,       \* what each process is about to write there, or Nothing
          underneath,\* the processes that will write over what another wrote
          db,        \* memory/conversations.db
          archive,   \* backups/: second -> what the archive of that name holds
          names,     \* the names in backups/, by modification time
          run,       \* of each run: [pc, name, db, old]
          second,    \* the clock
          kills,
          cutShort,  \* history: a run has ended early since the last listing
          kept,      \* history: the events added or restored, and not deleted
                     \* or restored away
          disturbed, \* history: a write was cut off, or two were under way
          secured,   \* history: a run has completed an archive
          newest,    \* history: the second in which a run last began
          reused,    \* history: two runs began in one second
          failedBeside \* history: a run failed to copy and left a piece while
                     \* another was pruning, or had lost the archive it writes

vars == <<up, calendar, pen, underneath, db, archive, names, run, second, kills,
          cutShort, kept, disturbed, secured, newest, reused, failedBeside>>
backupState == <<archive, names, run, second, cutShort, secured, newest, reused, failedBeside>>
eventState == <<calendar, pen, underneath, kept, disturbed>>

Processes == {"server", "client"}
Nothing == {"nothing"}   \* no write under way, no calendar in an archive
Absent == -1
Mixed == -2   \* a copy made while a commit went on
NoRun == [pc |-> "idle", name |-> 0, db |-> Absent, old |-> <<>>]
Begun == [whole |-> FALSE, shared |-> FALSE, db |-> Absent, calendar |-> Nothing]
Seconds == 1..MaxSeconds

Named == {names[i] : i \in DOMAIN names}
Without(n) ==
    IF n \notin Named THEN names
    ELSE LET at == CHOOSE i \in DOMAIN names : names[i] = n
         IN  [i \in 1..(Len(names) - 1) |-> IF i < at THEN names[i] ELSE names[i+1]]
Touch(n) == names' = Append(Without(n), n)
ActiveRuns == {b \in Runs : run[b].pc # "idle"}

Init ==
    /\ up = TRUE
    /\ calendar = {} /\ pen = [w \in Processes |-> Nothing] /\ underneath = {}
    /\ kept = {} /\ disturbed = FALSE
    /\ db = 0
    /\ archive = [s \in Seconds |-> Begun] /\ names = <<>>
    /\ run = [b \in Runs |-> NoRun]
    /\ second = 1 /\ kills = 0
    /\ secured = FALSE /\ newest = 0 /\ reused = FALSE
    /\ cutShort = FALSE /\ failedBeside = FALSE

LoopIsFree == up /\ pen["server"] = Nothing

-----------------------------------------------------------------------------
(* The calendar and the database *)

Others(w) == {v \in Processes \ {w} : pen[v] # Nothing}

\* The file is open in w, and so emptied, whoever else has it open.
Open(w, events) ==
    /\ pen[w] = Nothing
    /\ pen' = [pen EXCEPT ![w] = events]
    /\ calendar' = {} /\ underneath' = {}
    /\ disturbed' = (disturbed \/ Others(w) # {})
    /\ UNCHANGED <<up, db, kills, backupState>>

\* Mutant: the events are those of the server's start.
Load_once == {}

Load == calendar

add_event(e) ==
    /\ LoopIsFree /\ e \notin kept \cup calendar
    /\ Open("server", Load \cup {e})
    /\ kept' = kept \cup {e}

\* an event that is not there: nothing is written
delete_event(e) ==
    /\ LoopIsFree /\ e \in calendar
    /\ Open("server", Load \ {e})
    /\ kept' = kept \ {e}

Closed(w) ==
    /\ pen' = [pen EXCEPT ![w] = Nothing]
    /\ UNCHANGED <<up, db, kills, kept, backupState>>

\* written over something longer, it does not parse
Write(w) ==
    /\ pen[w] # Nothing
    /\ \/ calendar' = pen[w]
       \/ w \in underneath /\ calendar' = {}
    /\ underneath' = Others(w)
    /\ Closed(w) /\ UNCHANGED disturbed

(* the disk is full, the archive ends early, or the client is killed: the  *)
(* file is left as it is, or cut off                                       *)
FailWrite(w) ==
    /\ pen[w] # Nothing
    /\ \/ calendar' = calendar /\ underneath' = underneath \ {w}
       \/ calendar' = {} /\ underneath' = Others(w)
    /\ disturbed' = TRUE
    /\ Closed(w)

\* a request commits something
Commit ==
    /\ LoopIsFree /\ db < MaxCommits
    /\ db' = db + 1
    /\ UNCHANGED <<up, kills, eventState, backupState>>

-----------------------------------------------------------------------------
(* run_backup *)

\* what _backup_scheduler sleeps, meaning to wake at 3am
seconds_until(hour, minute, sec) ==
    LET wait == ((3 - hour) % 24) * 3600 + (60 - minute - 1) * 60 + (60 - sec)
    IN  IF wait = 0 THEN 86400 ELSE wait

\* _create_backup: the name has a resolution of one second, "w" empties a
\* file of that name, and two writers spoil it
BeginBackup(b) ==
    /\ LoopIsFree /\ run[b].pc = "idle"
    /\ run' = [run EXCEPT ![b] = [NoRun EXCEPT !.pc = "copy", !.name = second, !.db = db]]
    /\ archive' = [archive EXCEPT ![second] =
         [Begun EXCEPT !.shared = \E c \in ActiveRuns : run[c].name = second /\ run[c].pc = "copy"]]
    /\ Touch(second)
    /\ newest' = second
    /\ reused' = (reused \/ second = newest)
    /\ UNCHANGED <<up, db, second, kills, cutShort, secured, failedBeside, eventState>>

\* the database's copy is complete, and the calendar's
CopyCalendar(b) ==
    LET n == run[b].name IN
    /\ run[b].pc = "copy" /\ archive[n].calendar = Nothing
    /\ archive' = [archive EXCEPT ![n].db = IF run[b].db = db THEN db ELSE Mixed,
                                  ![n].calendar = calendar]
    /\ UNCHANGED <<up, db, names, run, second, kills, cutShort, secured, newest, reused,
                   failedBeside, eventState>>

Closing(n) == IF n \in Named THEN Touch(n) ELSE UNCHANGED names

CloseBackup(b) ==
    LET n == run[b].name IN
    /\ run[b].pc = "copy" /\ archive[n].calendar # Nothing
    /\ archive' = [archive EXCEPT ![n].whole = ~archive[n].shared]
    /\ Closing(n)
    /\ run' = [run EXCEPT ![b] = [NoRun EXCEPT !.pc = "prune"]]
    /\ secured' = TRUE
    /\ UNCHANGED <<up, db, second, kills, cutShort, newest, reused, failedBeside, eventState>>

(* _create_backup raises: the disk is full, a note is deleted or a file    *)
(* shrinks as it is copied.  Nothing is pruned, the piece stays            *)
FailBackup(b) ==
    LET n == run[b].name IN
    /\ run[b].pc = "copy"
    /\ Closing(n)
    /\ run' = [run EXCEPT ![b] = NoRun]
    /\ cutShort' = TRUE
    /\ failedBeside' = (failedBeside \/
         (n \in Named /\ \E c \in Runs \ {b} :
            run[c].pc \in {"prune", "unlink"} \/ (run[c].pc = "copy" /\ run[c].name \notin Named)))
    /\ UNCHANGED <<up, db, archive, second, kills, secured, newest, reused, eventState>>

\* Mutant: one archive too many is left.
Oldest_lenient == SubSeq(names, 1, Len(names) - MaxBackups - 1)

\* Mutant: the archives are sorted the wrong way round.
Oldest_reversed == SubSeq(names, MaxBackups + 1, Len(names))

\* backups[:-MAX_BACKUPS]
Oldest == SubSeq(names, 1, Len(names) - MaxBackups)

\* _prune_old_backups looks at the directory; it raises where, for one, a file
\* is deleted by another run between glob and stat ...
ListOld(b) ==
    /\ run[b].pc = "prune"
    /\ \/ /\ run' = [run EXCEPT ![b].pc = "unlink", ![b].old = Oldest]
          /\ cutShort' = FALSE
       \/ /\ run' = [run EXCEPT ![b] = NoRun]
          /\ cutShort' = TRUE
    /\ UNCHANGED <<up, db, archive, names, second, kills, secured, newest, reused,
                   failedBeside, eventState>>

(* ... and deletes, oldest first; a file that is not there any more, or    *)
(* cannot be deleted, raises, and the rest of the list stays               *)
Unlink(b) ==
    /\ run[b].pc = "unlink" /\ run[b].old # <<>>
    /\ LET n == Head(run[b].old) IN
       \/ /\ n \in Named
          /\ names' = Without(n)
          /\ archive' = [archive EXCEPT ![n] = Begun]
          /\ run' = [run EXCEPT ![b].old = Tail(@)]
          /\ UNCHANGED cutShort
       \/ /\ run' = [run EXCEPT ![b] = NoRun]
          /\ cutShort' = TRUE
          /\ UNCHANGED <<names, archive>>
    /\ UNCHANGED <<up, db, second, kills, secured, newest, reused, failedBeside, eventState>>

FinishBackup(b) ==
    /\ run[b].pc = "unlink" /\ run[b].old = <<>>
    /\ run' = [run EXCEPT ![b] = NoRun]
    /\ UNCHANGED <<up, db, archive, names, second, kills, cutShort, secured, newest, reused,
                   failedBeside, eventState>>

NextSecond ==
    /\ second < MaxSeconds
    /\ second' = second + 1
    /\ UNCHANGED <<up, db, archive, names, run, kills, cutShort, secured, newest, reused,
                   failedBeside, eventState>>

(* the archive, whole or not, is extracted into the repository's root: the *)
(* workspace is merged, file by file, and the database lands as            *)
(* conversations.db in the root, where nothing reads it                    *)
Extract(w, n) ==
    /\ n \in Named /\ archive[n].calendar # Nothing
    /\ Open(w, archive[n].calendar)
    /\ kept' = archive[n].calendar

restore_backup(n) == LoopIsFree /\ Extract("server", n)

\* the client asks nobody whether the server is up, or what it is doing
cmd_db_restore(n) == Extract("client", n)

KillServer ==
    /\ up /\ kills < MaxKills
    /\ up' = FALSE
    /\ kills' = kills + 1
    /\ pen' = [pen EXCEPT !["server"] = Nothing]
    /\ underneath' = underneath \ {"server"}
    /\ disturbed' = (disturbed \/ pen["server"] # Nothing)
    /\ run' = [b \in Runs |-> NoRun]
    /\ cutShort' = TRUE
    /\ UNCHANGED <<calendar, kept, db, archive, names, second, secured, newest, reused,
                   failedBeside>>

StartServer ==
    /\ ~up
    /\ up' = TRUE
    /\ UNCHANGED <<db, kills, eventState, backupState>>

BackupStep(b) ==
    \/ BeginBackup(b) \/ CopyCalendar(b) \/ CloseBackup(b) \/ FailBackup(b)
    \/ ListOld(b) \/ Unlink(b) \/ FinishBackup(b)

Next ==
    \/ \E e \in Events : add_event(e) \/ delete_event(e)
    \/ \E w \in Processes : Write(w) \/ FailWrite(w)
    \/ Commit
    \/ \E b \in Runs : BackupStep(b)
    \/ NextSecond
    \/ \E n \in Seconds : restore_backup(n) \/ cmd_db_restore(n)
    \/ KillServer \/ StartServer

Spec == Init /\ [][Next]_vars

-----------------------------------------------------------------------------
(* Properties *)

\* what runs are about to delete
Doomed == UNION {{run[b].old[i] : i \in DOMAIN run[b].old} : b \in Runs}

\* The type invariant; beside what is about to be deleted there are no more
\* archives than MAX_BACKUPS and those of the runs that have yet to prune,
\* unless a run has failed, at copying or at pruning, or been killed since the
\* last listing.
TypeOK ==
    /\ {up, reused, secured, disturbed, failedBeside} \subseteq BOOLEAN
    /\ calendar \subseteq Events /\ underneath \subseteq Processes
    /\ \A w \in Processes : pen[w] = Nothing \/ pen[w] \subseteq Events
    /\ db \in 0..MaxCommits
    /\ \A i, j \in DOMAIN names : names[i] \in Seconds /\ (names[i] = names[j] => i = j)
    /\ \A b \in Runs : run[b].pc \in {"idle", "copy", "prune", "unlink"}
    /\ ~cutShort => Cardinality(Named \ Doomed) <=
         MaxBackups + Cardinality({b \in Runs : run[b].pc \in {"copy", "prune"}})
    /\ second \in Seconds /\ kills \in 0..MaxKills

\* Enough are kept for the runs in progress: beside a whole archive, each run
\* may have two newer ones that are of no use, the one it still writes and one
\* that another run had listed as old before it was closed; the run that lists
\* writes nothing, and the first to have listed has neither.
EnoughKept == 2 * Cardinality(Runs) <= MaxBackups + 2

\* Once a run has completed, there is a whole archive to restore from, though
\* runs overlap, prune each other's files, fail or are killed at any point, and
\* leave pieces that are newer; unless two runs began in one second and wrote
\* to one file, or runs failed to copy beside one that has closed its archive
\* and lists only then: it may find MAX_BACKUPS pieces that are newer.
WholeBackupRemains ==
    EnoughKept /\ secured /\ ~reused /\ ~failedBeside => \E n \in Named : archive[n].whole

\* The calendar is what the last restore brought, with the events added since
\* and without those deleted, whatever is copied or pruned beside; unless the
\* client's restore overlapped a handler's write, or a write was cut off, by a
\* kill or a full disk.  (A restore loses the events its archive lacks.)
EventsSurvive ==
    ~disturbed /\ (\A w \in Processes : pen[w] = Nothing) => calendar = kept

-----------------------------------------------------------------------------
(* What the repository says and the code does not do *)

\* "Keeps last 30 backups" (backup.py:4): a backup is deleted where as many
\* that can be restored stay.  The pieces failed runs leave are counted too.
KeepsLastBackups ==
    [][\A b \in Runs :
         Unlink(b) /\ names' # names /\ archive[Head(run[b].old)].whole =>
           Cardinality({n \in Named : archive[n].whole})' >= MaxBackups]_vars

\* "This overwrites the current database" (braincbrain-cli.py:234).
RestoreBringsDatabase ==
    [][\A n \in Seconds :
         cmd_db_restore(n) /\ archive[n].whole /\ archive[n].db \in 0..MaxCommits =>
           db' = archive[n].db]_vars
=============================================================================
