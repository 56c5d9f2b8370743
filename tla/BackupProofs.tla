----------------------------- MODULE BackupProofs -----------------------------
(* What backups keep, for any number of runs, days of retention, commits and *)
(* archives.                                                                 *)
EXTENDS Backup, FiniteSetTheorems, TLAPS

Version == [version : Nat, sound : BOOLEAN]
Content == Seq(Version)
Archived == [name : Nat, pages : Content, mtime : Nat]

\* The locals of a run, by the statement it has reached.
Shapes ==
    {Idle}
    \union [at : {"snapshot", "archive"}, began : Nat, pages : Content]
    \union [at : {"verify", "publish"}, began : Nat, pages : Content, mtime : Nat]
    \union [at : {"list"}, began : Nat, own : Nat]
    \union [at : {"prune"}, began : Nat, own : Nat, cutoff : Int, todo : SUBSET Archived]

\* What is published is all of one snapshot that was verified.
Whole(pages) == Len(pages) = Pieces /\ Verified(pages)
Copied(c) == /\ c.at = "snapshot" => Len(c.pages) < Pieces
             /\ c.at \in {"archive", "verify"} => Len(c.pages) = Pieces
             /\ c.at = "publish" => Whole(c.pages)

\* A run meets one midnight at most, so what it archived is of yesterday or today.
Timely(c) == c # Idle => /\ c.began <= day /\ day <= c.began + 1
                         /\ c.at \in {"verify", "publish"} => c.began <= c.mtime
                         /\ c.at = "prune" => c.cutoff <= day - Keep

\* Until a run ends, the archive it published is there.
OwnIsThere(c) == c.at \in {"list", "prune"} =>
                    \E a \in archives : a.name = c.own /\ c.began <= a.mtime

Good(c) == c \in Shapes /\ Copied(c) /\ Timely(c) /\ OwnIsThere(c)

StoreInv == /\ day \in Nat /\ made \in Nat /\ db \in Version /\ archives \subseteq Archived
            /\ \A a \in archives : Whole(a.pages)
            /\ NeverWithout
RunInv == run = [r \in Runs |-> run[r]] /\ \A r \in Runs : Good(run[r])
Inv == StoreInv /\ RunInv

-----------------------------------------------------------------------------
(* Steps of a run that change nothing else.                                  *)

LEMMA BecomesGood ==
    ASSUME Inv, NEW r \in Runs, NEW c, Good(c), Becomes(r, c), UNCHANGED <<db, day, archives, made>>
    PROVE  Inv'
<1>1. StoreInv' BY DEF Inv, StoreInv, NeverWithout, Whole, Verified
<1>2. ASSUME NEW q \in Runs PROVE Good(run[q])'
  <2>1. run'[q] = IF q = r THEN c ELSE run[q] BY DEF Inv, RunInv, Becomes
  <2>2. Good(run'[q]) BY <2>1 DEF Inv, RunInv
  <2> QED BY <2>2 DEF Good, Timely, OwnIsThere, Copied, Whole, Verified, Shapes, Idle
<1>3. run' = [q \in Runs |-> run'[q]] BY DEF Inv, RunInv, Becomes
<1> QED BY <1>1, <1>2, <1>3 DEF Inv, RunInv

\* The fields of a run are those of the statement it has reached.
LEMMA ByPlace ==
    ASSUME NEW c \in Shapes
    PROVE  /\ c.at \in {"snapshot", "archive"} => c \in [at : {"snapshot", "archive"}, began : Nat, pages : Content]
           /\ c.at \in {"verify", "publish"} => c \in [at : {"verify", "publish"}, began : Nat, pages : Content, mtime : Nat]
           /\ c.at = "list" => c \in [at : {"list"}, began : Nat, own : Nat]
           /\ c.at = "prune" => c \in [at : {"prune"}, began : Nat, own : Nat, cutoff : Int, todo : SUBSET Archived]
           /\ c # Idle => c.at # "idle" /\ c.began \in Nat
           /\ c.at # "idle" => c # Idle
BY DEF Shapes, Idle

LEMMA IdleGood == Good(Idle)
BY DEF Good, Idle, Shapes, Copied, Timely, OwnIsThere

LEMMA StartKeeps == ASSUME Inv, NEW r \in Runs, Start(r) PROVE Inv'
<1> DEFINE c == [at |-> "snapshot", began |-> day, pages |-> << >>]
<1>1. c \in Shapes BY DEF Inv, StoreInv, Shapes, Content
<1>2. Good(c) BY <1>1 DEF Inv, StoreInv, Good, Copied, Timely, OwnIsThere, Pieces, Whole
<1> QED BY <1>2, BecomesGood DEF Start

LEMMA SnapshotKeeps == ASSUME Inv, NEW r \in Runs, Snapshot(r) PROVE Inv'
<1> DEFINE got == run[r].pages
           pages == IF got # << >> /\ Head(got) # db THEN <<db>> ELSE Append(got, db)
           at == IF Len(pages) = Pieces THEN "archive" ELSE run[r].at
           c == [run[r] EXCEPT !.pages = pages, !.at = at]
<1>1. Good(run[r]) /\ run[r].at = "snapshot" BY DEF Inv, RunInv, Snapshot
<1>2. run[r] \in [at : {"snapshot", "archive"}, began : Nat, pages : Content]
  BY <1>1, ByPlace DEF Good
<1>3. got \in Content /\ Len(got) < Pieces /\ db \in Version
  BY <1>1, <1>2 DEF Good, Copied, Inv, StoreInv
<1>4. pages \in Content /\ Len(pages) <= Pieces BY <1>3 DEF Content, Pieces
<1>5. c.at = at /\ c.began = run[r].began /\ c.pages = pages
  <2> HIDE DEF pages, at
  <2> QED BY <1>2
<1>6. at \in {"snapshot", "archive"} /\ (at = "snapshot" => Len(pages) < Pieces)
      /\ (at = "archive" => Len(pages) = Pieces)
  <2>1. CASE Len(pages) = Pieces BY <2>1
  <2>2. CASE Len(pages) # Pieces
    <3>1. at = "snapshot" BY <2>2, <1>1
    <3>2. Len(pages) \in Nat BY <1>4 DEF Content
    <3> QED BY <3>1, <3>2, <2>2, <1>4 DEF Pieces
  <2> QED BY <2>1, <2>2
<1>7. c \in Shapes
  <2> HIDE DEF pages, at
  <2>1. c \in [at : {"snapshot", "archive"}, began : Nat, pages : Content] BY <1>2, <1>4, <1>6
  <2> QED BY <2>1 DEF Shapes
<1>8. Copied(c)
  <2> HIDE DEF c, pages, at
  <2> QED BY <1>5, <1>6 DEF Copied
<1>9. Timely(c) BY <1>1, <1>2, <1>5, <1>6 DEF Good, Timely, Idle
<1>10. Good(c) BY <1>5, <1>6, <1>7, <1>8, <1>9 DEF Good, OwnIsThere
<1>11. Becomes(r, c) BY DEF Snapshot
<1> HIDE DEF c
<1> QED BY <1>10, <1>11, BecomesGood DEF Snapshot

LEMMA ArchiveKeeps == ASSUME Inv, NEW r \in Runs, Archive(r) PROVE Inv'
<1> DEFINE c == [at |-> "verify", began |-> run[r].began, pages |-> run[r].pages, mtime |-> day]
<1>1. Good(run[r]) /\ run[r].at = "archive" BY DEF Inv, RunInv, Archive
<1>2. run[r] \in [at : {"snapshot", "archive"}, began : Nat, pages : Content] /\ run[r] # Idle
  BY <1>1, ByPlace DEF Good, Idle
<1>3. Len(run[r].pages) = Pieces BY <1>1 DEF Good, Copied
<1>4. run[r].began <= day /\ day <= run[r].began + 1 BY <1>1, <1>2 DEF Good, Timely
<1>5. c \in Shapes BY <1>2 DEF Shapes, Inv, StoreInv
<1>6. Good(c) BY <1>3, <1>4, <1>5 DEF Good, Copied, Timely, OwnIsThere
<1>7. Becomes(r, c) BY DEF Archive
<1> HIDE DEF c
<1> QED BY <1>6, <1>7, BecomesGood DEF Archive

LEMMA VerifyKeeps == ASSUME Inv, NEW r \in Runs, Verify(r) PROVE Inv'
<1> DEFINE c == [run[r] EXCEPT !.at = "publish"]
<1>1. Good(run[r]) /\ run[r].at = "verify" BY DEF Inv, RunInv, Verify
<1>2. run[r] \in [at : {"verify", "publish"}, began : Nat, pages : Content, mtime : Nat] /\ run[r] # Idle
  BY <1>1, ByPlace DEF Good, Idle
<1>3. c = [at |-> "publish", began |-> run[r].began, pages |-> run[r].pages, mtime |-> run[r].mtime]
  BY <1>2
<1>4. Whole(run[r].pages) BY <1>1 DEF Good, Copied, Whole, Verify
<1>5. run[r].began <= day /\ day <= run[r].began + 1 /\ run[r].began <= run[r].mtime
  BY <1>1, <1>2 DEF Good, Timely
<1>6. c \in Shapes BY <1>2, <1>3 DEF Shapes
<1>7. Good(c) BY <1>3, <1>4, <1>5, <1>6 DEF Good, Copied, Timely, OwnIsThere
<1>8. Becomes(r, c) BY DEF Verify
<1> HIDE DEF c
<1> QED BY <1>7, <1>8, BecomesGood DEF Verify

LEMMA ListKeeps == ASSUME Inv, NEW r \in Runs, List(r) PROVE Inv'
<1> DEFINE c == [at |-> "prune", began |-> run[r].began, own |-> run[r].own,
                 cutoff |-> day - Keep, todo |-> archives]
<1>1. Good(run[r]) /\ run[r].at = "list" BY DEF Inv, RunInv, List
<1>2. run[r] \in [at : {"list"}, began : Nat, own : Nat] /\ run[r] # Idle
  BY <1>1, ByPlace DEF Good, Idle
<1>3. day - Keep \in Int /\ archives \subseteq Archived
  BY BackupAssumption DEF Inv, StoreInv
<1>4. c \in Shapes BY <1>2, <1>3 DEF Shapes
<1>5. Timely(c)
  <2>1. run[r].began <= day /\ day <= run[r].began + 1 BY <1>1, <1>2 DEF Good, Timely
  <2> QED BY <2>1, <1>3 DEF Timely
<1>6. OwnIsThere(c) BY <1>1 DEF Good, OwnIsThere
<1>7. Good(c) BY <1>4, <1>5, <1>6 DEF Good, Copied
<1>8. Becomes(r, c) BY DEF List
<1> HIDE DEF c
<1> QED BY <1>7, <1>8, BecomesGood DEF List

-----------------------------------------------------------------------------
(* Publication, pruning and the surroundings.                                *)

LEMMA PublishKeeps == ASSUME Inv, NEW r \in Runs, Publish(r) PROVE Inv'
<1> DEFINE a == [name |-> made + 1, pages |-> run[r].pages, mtime |-> run[r].mtime]
           c == [at |-> "list", began |-> run[r].began, own |-> made + 1]
<1>1. Good(run[r]) /\ run[r].at = "publish" BY DEF Inv, RunInv, Publish
<1>2. run[r] \in [at : {"verify", "publish"}, began : Nat, pages : Content, mtime : Nat] /\ run[r] # Idle
  BY <1>1, ByPlace DEF Good, Idle
<1>3. archives' = archives \union {a} /\ made' = made + 1 /\ run' = [run EXCEPT ![r] = c]
  BY DEF Publish, Becomes
<1>4. a \in Archived /\ Whole(a.pages)
  BY <1>1, <1>2 DEF Archived, Good, Copied, Inv, StoreInv
<1>5. run[r].began <= day /\ day <= run[r].began + 1 /\ run[r].began <= run[r].mtime
  BY <1>1, <1>2 DEF Good, Timely
<1>6. a.name = c.own /\ c.began <= a.mtime BY <1>5
<1> HIDE DEF a
<1>7. StoreInv'
  <2>1. archives' \subseteq Archived /\ \A b \in archives' : Whole(b.pages)
    BY <1>3, <1>4 DEF Inv, StoreInv
  <2>2. NeverWithout' BY <1>3 DEF NeverWithout
  <2> QED BY <2>1, <2>2, <1>3 DEF Inv, StoreInv, Publish, Whole, Verified
<1>8. ASSUME NEW q \in Runs PROVE Good(run[q])'
  <2>1. CASE q = r
    <3>1. run'[q] = c BY <2>1, <1>3 DEF Inv, RunInv
    <3>2. c \in Shapes BY <1>2 DEF Shapes, Inv, StoreInv
    <3>3. c.began <= day' /\ day' <= c.began + 1 BY <1>5 DEF Publish
    <3>4. \E b \in archives' : b.name = c.own /\ c.began <= b.mtime BY <1>3, <1>6
    <3> QED BY <3>1, <3>2, <3>3, <3>4 DEF Good, Copied, Timely, OwnIsThere
  <2>2. CASE q # r
    <3>1. run'[q] = run[q] BY <2>2, <1>3 DEF Inv, RunInv
    <3>2. Good(run[q]) BY DEF Inv, RunInv
    <3>3. OwnIsThere(run[q])' BY <3>1, <3>2, <1>3 DEF Good, OwnIsThere
    <3> QED BY <3>1, <3>2, <3>3 DEF Good, Copied, Timely, Whole, Verified, Publish
  <2> QED BY <2>1, <2>2
<1>9. run' = [q \in Runs |-> run'[q]] BY <1>3 DEF Inv, RunInv
<1> QED BY <1>7, <1>8, <1>9 DEF Inv, RunInv

\* No run's own archive is old enough for any run to remove it.
LEMMA OwnIsRecent ==
    ASSUME Inv, NEW r \in Runs, run[r].at = "prune", NEW old \in Archived, Expired(run[r], old),
           NEW q \in Runs, run[q].at \in {"list", "prune"}
    PROVE  \E a \in archives \ {old} : a.name = run[q].own /\ run[q].began <= a.mtime
<1>1. Good(run[q]) /\ Good(run[r]) BY DEF Inv, RunInv
<1>2. run[q] # Idle /\ run[r] # Idle BY DEF Idle
<1>3. PICK a \in archives : a.name = run[q].own /\ run[q].began <= a.mtime
  BY <1>1 DEF Good, OwnIsThere
<1>4. run[r].cutoff <= day - Keep /\ run[r].cutoff \in Int /\ day <= run[q].began + 1
  BY <1>1, <1>2, ByPlace DEF Good, Timely
<1>5. run[q].began \in Nat /\ a.mtime \in Nat /\ old.mtime \in Nat /\ day \in Nat
  BY <1>1, <1>2, ByPlace DEF Good, Inv, StoreInv, Archived
<1>6. old.mtime < run[r].cutoff BY DEF Expired
<1>7. old.mtime < a.mtime BY <1>3, <1>4, <1>5, <1>6, BackupAssumption
<1>8. a # old BY <1>5, <1>7
<1> QED BY <1>3, <1>8

LEMMA PruneKeeps == ASSUME Inv, NEW r \in Runs, Prune(r) PROVE Inv'
<1>1. PICK old \in run[r].todo :
        /\ Becomes(r, [run[r] EXCEPT !.todo = @ \ {old}])
        /\ archives' = IF Expired(run[r], old) THEN archives \ {old} ELSE archives
  BY DEF Prune
<1> DEFINE c == [run[r] EXCEPT !.todo = @ \ {old}]
<1>2. Good(run[r]) /\ run[r].at = "prune" BY DEF Inv, RunInv, Prune
<1>3. run[r] \in [at : {"prune"}, began : Nat, own : Nat, cutoff : Int, todo : SUBSET Archived] /\ run[r] # Idle
  BY <1>2, ByPlace DEF Good, Idle
<1>4. c = [at |-> "prune", began |-> run[r].began, own |-> run[r].own, cutoff |-> run[r].cutoff,
           todo |-> run[r].todo \ {old}]
  BY <1>3
<1>5. c \in Shapes BY <1>3, <1>4 DEF Shapes
<1>6. old \in Archived BY <1>3
<1>7. run' = [run EXCEPT ![r] = c] BY <1>1 DEF Becomes
<1>8. ASSUME NEW q \in Runs, run[q].at \in {"list", "prune"}
      PROVE  \E a \in archives' : a.name = run[q].own /\ run[q].began <= a.mtime
  <2>1. CASE Expired(run[r], old) BY <2>1, <1>1, <1>2, <1>6, <1>8, OwnIsRecent
  <2>2. CASE ~Expired(run[r], old) BY <2>2, <1>1, <1>8 DEF Inv, RunInv, Good, OwnIsThere
  <2> QED BY <2>1, <2>2
<1>9. archives' \subseteq archives BY <1>1
<1>10. StoreInv'
  <2>1. archives' # {} BY <1>2, <1>8
  <2> QED BY <2>1, <1>9 DEF Inv, StoreInv, Prune, NeverWithout, Whole, Verified
<1>11. c.at = "prune" /\ c.began = run[r].began /\ c.own = run[r].own /\ c.cutoff = run[r].cutoff
  BY <1>4
<1> HIDE DEF c
<1>12. ASSUME NEW q \in Runs PROVE Good(run[q])'
  <2>1. CASE q = r
    <3>1. run'[q] = c BY <2>1, <1>7 DEF Inv, RunInv
    <3>2. \E a \in archives' : a.name = c.own /\ c.began <= a.mtime BY <1>2, <1>8, <1>11
    <3>3. c.began <= day /\ day <= c.began + 1 /\ c.cutoff <= day - Keep
      BY <1>2, <1>3, <1>11 DEF Good, Timely
    <3> QED BY <3>1, <3>2, <3>3, <1>5, <1>11 DEF Good, Copied, Timely, OwnIsThere, Prune
  <2>2. CASE q # r
    <3>1. run'[q] = run[q] BY <2>2, <1>7 DEF Inv, RunInv
    <3>2. Good(run[q]) BY DEF Inv, RunInv
    <3>3. OwnIsThere(run[q])' BY <3>1, <1>8 DEF OwnIsThere
    <3> QED BY <3>1, <3>2, <3>3 DEF Good, Copied, Timely, Whole, Verified, Prune
  <2> QED BY <2>1, <2>2
<1>13. run' = [q \in Runs |-> run'[q]] BY <1>7 DEF Inv, RunInv
<1> QED BY <1>10, <1>12, <1>13 DEF Inv, RunInv

LEMMA MidnightKeeps == ASSUME Inv, Midnight PROVE Inv'
<1>1. StoreInv' BY DEF Inv, StoreInv, NeverWithout, Whole, Verified, Midnight
<1>2. ASSUME NEW q \in Runs PROVE Good(run[q])'
  <2>1. Good(run[q]) /\ day \in Nat /\ day' = day + 1 /\ run' = run /\ archives' = archives
    BY DEF Inv, RunInv, StoreInv, Midnight
  <2>2. run[q] # Idle => run[q].began = day BY DEF Midnight
  <2>3. Timely(run[q])'
    <3>1. run[q].at = "prune" => run[q].cutoff \in Int BY <2>1, ByPlace DEF Good
    <3> QED BY <2>1, <2>2, <3>1, BackupAssumption DEF Good, Timely
  <2> QED BY <2>1, <2>3 DEF Good, Copied, OwnIsThere, Whole, Verified
<1> QED BY <1>1, <1>2 DEF Inv, RunInv, Midnight

LEMMA CommitKeeps == ASSUME Inv, PanelCommits PROVE Inv'
<1>1. db' \in Version BY DEF Inv, StoreInv, Version, PanelCommits
<1>2. StoreInv' BY <1>1 DEF Inv, StoreInv, NeverWithout, Whole, Verified, PanelCommits
<1>3. ASSUME NEW q \in Runs PROVE Good(run[q])'
  BY DEF PanelCommits, Inv, RunInv, Good, Copied, Timely, OwnIsThere, Whole, Verified
<1> QED BY <1>2, <1>3 DEF Inv, RunInv, PanelCommits

-----------------------------------------------------------------------------
(* The theorems.                                                             *)

LEMMA InvStarts == Init => Inv
<1> SUFFICES ASSUME Init PROVE Inv OBVIOUS
<1>1. StoreInv BY DEF Init, StoreInv, Version, NeverWithout
<1>2. RunInv BY IdleGood DEF Init, RunInv
<1> QED BY <1>1, <1>2 DEF Inv

LEMMA InvStep == Inv /\ [Next]_vars => Inv'
<1> SUFFICES ASSUME Inv, [Next]_vars PROVE Inv' OBVIOUS
<1>1. CASE UNCHANGED vars
  <2>1. ASSUME NEW q \in Runs PROVE Good(run[q])'
    BY <1>1 DEF vars, Inv, RunInv, Good, Copied, Timely, OwnIsThere, Whole, Verified
  <2> QED BY <1>1, <2>1 DEF vars, Inv, RunInv, StoreInv, NeverWithout, Whole, Verified
<1>2. ASSUME NEW r \in Runs, Ends(r) \/ Stops(r) PROVE Inv'
  BY <1>2, IdleGood, BecomesGood DEF Ends, Stops
<1>3. ASSUME NEW r \in Runs, \/ Start(r) \/ Snapshot(r) \/ Archive(r) \/ Verify(r)
                             \/ Publish(r) \/ List(r) \/ Prune(r)
      PROVE Inv'
  BY <1>3, StartKeeps, SnapshotKeeps, ArchiveKeeps, VerifyKeeps, PublishKeeps, ListKeeps, PruneKeeps
<1> QED BY <1>1, <1>2, <1>3, MidnightKeeps, CommitKeeps DEF Next, Rests

LEMMA AlwaysInv == Spec => []Inv
BY InvStarts, InvStep, PTL DEF Spec

\* What _check_database accepted of a whole copy is one state, with its
\* references intact.
LEMMA WholeIsSound ==
    ASSUME NEW pages \in Content, Whole(pages)
    PROVE  Len(pages) = Pieces /\ Cardinality({pages[i] : i \in 1..Pieces}) = 1 /\ pages[1].sound
<1>1. DOMAIN pages = 1..Pieces BY DEF Whole, Content
<1>2. 1 \in 1..Pieces BY DEF Pieces
<1>3. \A i \in 1..Pieces : pages[i] = Head(pages) /\ pages[i].sound BY <1>1 DEF Whole, Verified
<1>4. {pages[i] : i \in 1..Pieces} = {Head(pages)} BY <1>2, <1>3
<1>5. Cardinality({Head(pages)}) = 1 BY FS_Singleton
<1> QED BY <1>2, <1>3, <1>4, <1>5 DEF Whole

\* An archive that can be seen is one committed state with its references intact.
THEOREM OnlySoundPublished == Spec => []PublishedIsSound
<1>1. Inv => PublishedIsSound
  BY WholeIsSound DEF Inv, StoreInv, Archived, PublishedIsSound
<1> QED BY AlwaysInv, <1>1, PTL

\* Concurrent runs never prune the last archive.
THEOREM ArchiveRemains == Spec => []NeverWithout
<1>1. Inv => NeverWithout BY DEF Inv, StoreInv
<1> QED BY AlwaysInv, <1>1, PTL
=============================================================================
