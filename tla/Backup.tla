-------------------------------- MODULE Backup --------------------------------
(* Backups of the database that run at the same time, from the panel and     *)
(* from cron: create_backup and verify_backup of                             *)
(* backend/app/core/backup.py, POST /api/system/backup and                   *)
(* scripts/backup.sh, while the panel goes on writing.                       *)
(*                                                                           *)
(* A state of the database is known by its version and by whether its        *)
(* foreign keys hold (a row stored for an owner just deleted breaks them:    *)
(* modules Accounts and Fleet).  Directories, permissions, the members of    *)
(* the archive and the upload are left out.  A run that fails, meets its     *)
(* deadline or dies stops at any step; what it leaves in its own staging     *)
(* directory nobody reads.                                                   *)
EXTENDS Integers, Sequences, FiniteSets

CONSTANTS
    Runs,         \* invocations at the same time
    Keep,         \* keep_days
    MaxVersion,   \* bound: commits of the panel
    MaxArchives,  \* bound: archives ever published
    MaxDay        \* bound: days

ASSUME BackupAssumption ==
    Keep \in Nat \ {0} /\ {MaxVersion, MaxArchives, MaxDay} \subseteq Nat

VARIABLES
    db,        \* what is committed
    day,       \* the clock
    archives,  \* the files uniproxy_*.tar.gz
    made,      \* how many there ever were: their names
    run        \* the invocations

vars == <<db, day, archives, made, run>>

Idle == [at |-> "idle"]
Pieces == 2    \* calls of sqlite3_backup_step for the whole database

Init == /\ db = [version |-> 0, sound |-> TRUE] /\ day = 0
        /\ archives = {} /\ made = 0 /\ run = [r \in Runs |-> Idle]

-----------------------------------------------------------------------------
(* The surroundings.                                                         *)

\* A commit of the panel; a stray row comes and goes.
PanelCommits == /\ db.version < MaxVersion
                /\ \E s \in BOOLEAN : db' = [version |-> db.version + 1, sound |-> s]
                /\ UNCHANGED <<day, archives, made, run>>

\* No backup takes longer than a day: each sees one midnight at most.
Midnight == /\ day < MaxDay /\ day' = day + 1
            /\ \A r \in {q \in Runs : run[q] # Idle} : run[r].began = day
            /\ UNCHANGED <<db, archives, made, run>>

-----------------------------------------------------------------------------
(* create_backup.                                                            *)

Becomes(r, c) == run' = [run EXCEPT ![r] = c]

Start(r) == /\ run[r] = Idle /\ made < MaxArchives
            /\ Becomes(r, [at |-> "snapshot", began |-> day, pages |-> << >>])
            /\ UNCHANGED <<db, day, archives, made>>

\* 256 pages at a time, without a lock in between: SQLite starts over when the
\* source was written since.
Snapshot(r) ==
    /\ run[r].at = "snapshot" /\ UNCHANGED <<db, day, archives, made>>
    /\ LET got == run[r].pages
           pages == IF got # << >> /\ Head(got) # db THEN <<db>> ELSE Append(got, db)
       IN  Becomes(r, [run[r] EXCEPT !.pages = pages,
                                     !.at = IF Len(pages) = Pieces THEN "archive" ELSE @])

\* The archive in the staging directory; its mtime stays.
Archive(r) == /\ run[r].at = "archive"
              /\ Becomes(r, [at |-> "verify", began |-> run[r].began, pages |-> run[r].pages, mtime |-> day])
              /\ UNCHANGED <<db, day, archives, made>>

\* Mutant: foreign keys are not checked.
IntactPages(pages) == \A i \in DOMAIN pages : pages[i] = Head(pages)

\* _check_database of the restored copy.
Verified(pages) == \A i \in DOMAIN pages : pages[i] = Head(pages) /\ pages[i].sound

Verify(r) == /\ run[r].at = "verify" /\ Verified(run[r].pages)
             /\ Becomes(r, [run[r] EXCEPT !.at = "publish"])
             /\ UNCHANGED <<db, day, archives, made>>

\* os.replace under a name of its own.
Publish(r) == /\ run[r].at = "publish" /\ made < MaxArchives /\ made' = made + 1
              /\ archives' = archives \union {[name |-> made', pages |-> run[r].pages, mtime |-> run[r].mtime]}
              /\ Becomes(r, [at |-> "list", began |-> run[r].began, own |-> made'])
              /\ UNCHANGED <<db, day>>

\* The cutoff, and the directory as it is now.
List(r) == /\ run[r].at = "list"
           /\ Becomes(r, [at |-> "prune", began |-> run[r].began, own |-> run[r].own,
                          cutoff |-> day - Keep, todo |-> archives])
           /\ UNCHANGED <<db, day, archives, made>>

\* Mutant: an archive replaces all others.
AllOthers(c, old) == old.name # c.own

Expired(c, old) == old.mtime < c.cutoff /\ old.name # c.own

\* A file that a concurrent run has removed is passed over.
Prune(r) == /\ run[r].at = "prune"
            /\ \E old \in run[r].todo :
                 /\ Becomes(r, [run[r] EXCEPT !.todo = @ \ {old}])
                 /\ archives' = IF Expired(run[r], old) THEN archives \ {old} ELSE archives
            /\ UNCHANGED <<db, day, made>>

Ends(r) == /\ run[r].at = "prune" /\ run[r].todo = {} /\ Becomes(r, Idle)
           /\ UNCHANGED <<db, day, archives, made>>

Stops(r) == /\ run[r] # Idle /\ Becomes(r, Idle)
            /\ UNCHANGED <<db, day, archives, made>>

\* Every bound met and no run under way: nothing is left to explore.
Rests == /\ \A r \in Runs : run[r] = Idle
         /\ made = MaxArchives /\ day = MaxDay /\ db.version = MaxVersion
         /\ UNCHANGED vars

Next == \/ PanelCommits \/ Midnight \/ Rests
        \/ \E r \in Runs : \/ Start(r) \/ Snapshot(r) \/ Archive(r) \/ Verify(r)
                           \/ Publish(r) \/ List(r) \/ Prune(r) \/ Ends(r) \/ Stops(r)

Spec == Init /\ [][Next]_vars

-----------------------------------------------------------------------------
(* Properties.                                                               *)

\* Whatever was committed meanwhile and wherever runs stopped, an archive that can
\* be seen holds one committed state, whole, and with its references intact.
PublishedIsSound == \A a \in archives :
    Len(a.pages) = Pieces /\ Cardinality({a.pages[i] : i \in 1..Pieces}) = 1 /\ a.pages[1].sound

\* Runs that prune at the same time leave an archive: once there is one, there
\* always is, as none removes its own or a recent one.
NeverWithout == made > 0 => archives # {}
=============================================================================
