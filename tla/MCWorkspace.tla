----------------------------- MODULE MCWorkspace -----------------------------
(* Two backup runs over four seconds where two archives are kept, so that     *)
(* runs overlap, share a name, prune one another's archives, fail and are     *)
(* killed.  Once an event, a restore or a commit is there, the instance has   *)
(* one run at a time, over two seconds.                                       *)
EXTENDS Workspace, TLC

\* Runs are interchangeable, and so are events.
RunSymmetry == Permutations(Runs) \cup Permutations(Events)

Used ==
    \/ db > 0 \/ disturbed \/ kept # {}
    \/ \E w \in Processes : pen[w] # Nothing
    \/ \E n \in Named : archive[n].calendar \notin {Nothing, {}}

OneRunOfUse == Used => second <= 2 /\ Cardinality(ActiveRuns) <= 1 /\ ~reused

\* "Run a backup at 3am UTC every day" (backup.py:73): it is four o'clock
\* when the scheduler wakes, whenever it was started.
ASSUME BackupsAtFour ==
    \A hour \in 0..23, minute \in 0..59, sec \in {0, 1, 30, 59} :
        (hour * 3600 + minute * 60 + sec + seconds_until(hour, minute, sec)) % 86400
          = 4 * 3600
=============================================================================
