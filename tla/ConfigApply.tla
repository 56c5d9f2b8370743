----------------------------- MODULE ConfigApply -----------------------------
(* The configuration transaction of the panel's backend: protocol rows of    *)
(* the local node are committed to the database, and queued syncs bring the  *)
(* files of the two proxy cores (1 = Xray, 2 = sing-box) and the containers  *)
(* that run them up to date, one sync at a time, under APPLY_LOCK.           *)
(*                                                                           *)
(*   backend/app/core/config_apply.py   the transaction                      *)
(*   backend/app/core/config_writer.py  the sync that reads the database     *)
(*   backend/app/api/protocols.py       the requests that ask for syncs      *)
(*   backend/app/api/system.py          a core restarted outside the lock    *)
(*                                                                           *)
(* Abstractions.  The active protocol rows of the local node are a version   *)
(* number, db, which every change of them increases; a configuration is the  *)
(* version it was built from.  0 is the configuration the installer left,    *)
(* NoFile a missing file.  The temporary file a candidate is staged in is    *)
(* tx.cand.  The three inspections after a docker restart are one verdict.   *)
(* Between two awaits the event loop runs one task only: the steps that have *)
(* no await in between are separate here, because the process may die        *)
(* between them, and LoopFree keeps every other task out.                    *)
EXTENDS Integers

CONSTANTS NumCores,     \* cores in one transaction; the code has two
          Tasks,        \* asyncio tasks that may run a sync
          NoTask,       \* nobody holds the lock
          Unsupported,  \* versions that hold a protocol neither core serves
          MaxVersion,   \* bound: changes of the protocol rows
          MaxFaults,    \* bound: failures of commands and files, cancellations
          MaxCrashes    \* bound: deaths of the backend process

ASSUME ConstantsAssumption ==
    /\ NumCores \in Nat \ {0}
    /\ NoTask \notin Tasks
    /\ Unsupported \subseteq Nat \ {0}
    /\ MaxVersion \in Nat
    /\ MaxFaults \in Nat
    /\ MaxCrashes \in Nat

VARIABLES
    db,        \* version of the local node's active protocol rows
    pc,        \* task -> "idle", "waiting" for APPLY_LOCK or "holding" it
    target,    \* task -> the node it was asked to sync: "local", "remote", "none"
    holder,    \* the task that holds APPLY_LOCK
    tx,        \* the locals of the holder's transaction
    outcome,   \* status of the sync that ended last
    disk,      \* core -> version in its configuration file
    bak,       \* core -> version in the .bak file beside it
    run,       \* core -> version its container loaded, or Down
    accepted,  \* history: <<core, version>> its validator accepted
    faults, tears, crashes   \* counters of what the environment did

coreVars == <<disk, bak, run>>
envVars  == <<faults, tears, crashes>>
vars     == <<db, pc, target, holder, tx, outcome, disk, bak, run, accepted,
              faults, tears, crashes>>

Cores   == 1 .. NumCores
NoFile  == -1
Down    == -2
Content == {NoFile} \cup Nat

Phases == {"none", "read", "stage", "validate", "backup", "replace", "restart",
           "inspect", "restore", "recover", "reinspect"}
Outcomes == {"none", "applied", "manual_required", "unsupported_protocol",
             "validation_failed", "rolled_back", "rollback_failed",
             "apply_failed", "raised"}

\* The phases the code runs through without giving up the event loop.
LoopFree == tx.phase \notin {"stage", "backup", "replace", "restore"}

\* The locals of apply_configs_locked.  idx is the core the current loop is
\* at; replaced and touched are lists that only grow in core order, so their
\* lengths say what is in them.
NoTx == [phase |-> "none", idx |-> 1, cand |-> 0, valid |-> TRUE,
         orig |-> [c \in Cores |-> NoFile], replaced |-> 0, touched |-> 0,
         restored |-> TRUE, cancelled |-> FALSE]

\* What a container runs once it was started on the file it finds.
Loaded(c) == IF disk[c] = NoFile THEN Down ELSE disk[c]

Init == /\ db = 0
        /\ pc = [t \in Tasks |-> "idle"]
        /\ target = [t \in Tasks |-> "none"]
        /\ holder = NoTask
        /\ tx = NoTx
        /\ outcome = "none"
        /\ \E first \in {NoFile, 0} :
              /\ disk = [c \in Cores |-> first]
              /\ run = [c \in Cores |-> IF first = 0 THEN 0 ELSE Down]
        /\ bak = [c \in Cores |-> NoFile]
        /\ accepted = {}
        /\ faults = 0 /\ tears = 0 /\ crashes = 0

-----------------------------------------------------------------------------
(* Requests that end in a sync.                                              *)

Ask(t, node) == /\ pc[t] = "idle" /\ LoopFree
                /\ pc' = [pc EXCEPT ![t] = "waiting"]
                /\ target' = [target EXCEPT ![t] = node]
                /\ UNCHANGED <<holder, tx, outcome, coreVars, accepted, envVars>>

\* create_protocol, update_protocol, delete_protocol on the local node: the
\* rows are committed and a background task will sync.
ChangeProtocols(t) == /\ db < MaxVersion
                      /\ db' = db + 1
                      /\ Ask(t, "local")

\* The same on a remote node: the local node's rows do not change.
ChangeRemoteProtocols(t) == Ask(t, "remote") /\ UNCHANGED db

\* force_sync, complete_setup and the bootstrap sync with nothing new.
RequestSync(t) == Ask(t, "local") /\ UNCHANGED db

-----------------------------------------------------------------------------
(* sync_node_config, under the lock.                                         *)

AcquireLock(t) == /\ pc[t] = "waiting" /\ holder = NoTask
                  /\ pc' = [pc EXCEPT ![t] = "holding"]
                  /\ holder' = t
                  /\ tx' = [NoTx EXCEPT !.phase = "read"]
                  /\ UNCHANGED <<db, target, outcome, coreVars, accepted, envVars>>

\* Leaving the async with block, with a result or an exception.
Finish(result) == /\ pc' = [pc EXCEPT ![holder] = "idle"]
                  /\ target' = [target EXCEPT ![holder] = "none"]
                  /\ holder' = NoTask
                  /\ tx' = NoTx
                  /\ outcome' = result

Continue == UNCHANGED <<pc, target, holder, outcome>>

\* Mutant: the rows may have been read before the lock was taken.
ReadNodeUnlocked ==
    /\ tx.phase = "read"
    /\ \E v \in {0, db - 1, db} \cap Nat :
          tx' = [tx EXCEPT !.phase = "stage", !.cand = v]
    /\ Continue
    /\ UNCHANGED <<db, coreVars, accepted, envVars>>

ReadNode ==
    /\ tx.phase = "read"
    /\ IF target[holder] = "remote" THEN Finish("manual_required")
       ELSE IF db \in Unsupported THEN Finish("unsupported_protocol")
       ELSE /\ tx' = [tx EXCEPT !.phase = "stage", !.cand = db]
            /\ Continue
    /\ UNCHANGED <<db, coreVars, accepted, envVars>>

Fault == faults < MaxFaults /\ faults' = faults + 1 /\ UNCHANGED <<tears, crashes>>

\* The database read or the builder of a core's configuration raises.
ReadFails == /\ tx.phase = "read" /\ Fault
             /\ Finish("raised")
             /\ UNCHANGED <<db, coreVars, accepted>>

-----------------------------------------------------------------------------
(* apply_configs_locked: read the originals, stage, validate everywhere.     *)

Stage == /\ tx.phase = "stage"
         /\ tx' = [tx EXCEPT !.phase = "validate", !.orig = disk]
         /\ Continue
         /\ UNCHANGED <<db, coreVars, accepted, envVars>>

\* Mutant: the exception leaves the lock taken.
StageFailsLocked == /\ tx.phase = "stage" /\ Fault
                    /\ pc' = [pc EXCEPT ![holder] = "idle"]
                    /\ target' = [target EXCEPT ![holder] = "none"]
                    /\ tx' = NoTx
                    /\ UNCHANGED <<db, holder, outcome, coreVars, accepted>>

\* An original cannot be read or a temporary file cannot be written.
StageFails == /\ tx.phase = "stage" /\ Fault
              /\ Finish("apply_failed")
              /\ UNCHANGED <<db, coreVars, accepted>>

\* Mutant: one validation too many.
NextValidationPastEnd(valid) ==
    IF tx.idx <= NumCores
    THEN tx' = [tx EXCEPT !.idx = @ + 1, !.valid = valid] /\ Continue
    ELSE tx' = [tx EXCEPT !.phase = "backup", !.idx = 1] /\ Continue

\* After the last core the verdicts are looked at, not before.
NextValidation(valid) ==
    IF tx.idx < NumCores
    THEN tx' = [tx EXCEPT !.idx = @ + 1, !.valid = valid] /\ Continue
    ELSE IF valid
    THEN tx' = [tx EXCEPT !.phase = "backup", !.idx = 1] /\ Continue
    ELSE Finish("validation_failed")

\* Mutant: valid = ok instead of valid = ok and valid.
ValidateAcceptsLast == /\ tx.phase = "validate"
                       /\ accepted' = accepted \cup {<<tx.idx, tx.cand>>}
                       /\ NextValidation(TRUE)
                       /\ UNCHANGED <<db, coreVars, envVars>>

ValidateAccepts == /\ tx.phase = "validate"
                   /\ accepted' = accepted \cup {<<tx.idx, tx.cand>>}
                   /\ NextValidation(tx.valid)
                   /\ UNCHANGED <<db, coreVars, envVars>>

\* The core rejects the candidate, or its image is not available.
ValidateRejects == /\ tx.phase = "validate" /\ Fault
                   /\ NextValidation(FALSE)
                   /\ UNCHANGED <<db, coreVars, accepted>>

\* docker cannot be run, or the command hits COMMAND_TIMEOUT.
ValidateRaises == /\ tx.phase = "validate" /\ Fault
                  /\ Finish("apply_failed")
                  /\ UNCHANGED <<db, coreVars, accepted>>

-----------------------------------------------------------------------------
(* Replace every file, keeping a rollback copy, with no await in between.    *)

\* The except branch: restored files first, then the touched cores.  Without
\* a replaced file there is nothing to undo.
Abort(cancelled) ==
    IF tx.replaced > 0
    THEN tx' = [tx EXCEPT !.phase = "restore", !.idx = 1, !.cancelled = cancelled] /\ Continue
    ELSE Finish(IF cancelled THEN "raised" ELSE "apply_failed")

\* Mutant: no rollback copy.
BackupSkipped == /\ tx.phase = "backup"
                 /\ tx' = [tx EXCEPT !.phase = "replace"]
                 /\ Continue
                 /\ UNCHANGED <<db, coreVars, accepted, envVars>>

Backup == /\ tx.phase = "backup"
          /\ bak' = IF tx.orig[tx.idx] = NoFile THEN bak
                    ELSE [bak EXCEPT ![tx.idx] = tx.orig[tx.idx]]
          /\ tx' = [tx EXCEPT !.phase = "replace"]
          /\ Continue
          /\ UNCHANGED <<db, disk, run, accepted, envVars>>

\* Mutant: the cores are looked at, but not restarted.
ReplaceOnly == /\ tx.phase = "replace"
               /\ disk' = [disk EXCEPT ![tx.idx] = tx.cand]
               /\ tx' = IF tx.idx < NumCores
                        THEN [tx EXCEPT !.phase = "backup", !.idx = @ + 1, !.replaced = tx.idx]
                        ELSE [tx EXCEPT !.phase = "inspect", !.idx = 1, !.replaced = tx.idx,
                                        !.touched = 1]
               /\ Continue
               /\ UNCHANGED <<db, bak, run, accepted, envVars>>

Replace == /\ tx.phase = "replace"
           /\ disk' = [disk EXCEPT ![tx.idx] = tx.cand]
           /\ tx' = IF tx.idx < NumCores
                    THEN [tx EXCEPT !.phase = "backup", !.idx = @ + 1, !.replaced = tx.idx]
                    ELSE [tx EXCEPT !.phase = "restart", !.idx = 1, !.replaced = tx.idx,
                                    !.touched = 1]
           /\ Continue
           /\ UNCHANGED <<db, bak, run, accepted, envVars>>

ReplaceFails == /\ tx.phase \in {"backup", "replace"} /\ Fault
                /\ Abort(FALSE)
                /\ UNCHANGED <<db, coreVars, accepted>>

-----------------------------------------------------------------------------
(* Restart every core on its new file and look whether it stays up.          *)

Restart == /\ tx.phase = "restart"
           /\ run' = [run EXCEPT ![tx.idx] = Loaded(tx.idx)]
           /\ tx' = [tx EXCEPT !.phase = "inspect"]
           /\ Continue
           /\ UNCHANGED <<db, disk, bak, accepted, envVars>>

\* docker restart fails or times out: the container kept running, stopped or
\* was restarted all the same.
LeftAnyhow(c) == \E v \in {run[c], Loaded(c), Down} : run' = [run EXCEPT ![c] = v]

RestartFails == /\ tx.phase = "restart" /\ Fault
                /\ LeftAnyhow(tx.idx)
                /\ Abort(FALSE)
                /\ UNCHANGED <<db, disk, bak, accepted>>

InspectReady == /\ tx.phase = "inspect" /\ run[tx.idx] # Down
                /\ IF tx.idx < NumCores
                   THEN /\ tx' = [tx EXCEPT !.phase = "restart", !.idx = @ + 1,
                                            !.touched = tx.idx + 1]
                        /\ Continue
                   ELSE Finish("applied")
                /\ UNCHANGED <<db, coreVars, accepted, envVars>>

\* A core that is down is seen to be down; one that runs may still be
\* unhealthy, or the inspection may fail.
InspectDown == /\ tx.phase = "inspect" /\ run[tx.idx] = Down
               /\ Abort(FALSE)
               /\ UNCHANGED <<db, coreVars, accepted, envVars>>

InspectFails == /\ tx.phase = "inspect" /\ Fault
                /\ Abort(FALSE)
                /\ UNCHANGED <<db, coreVars, accepted>>

-----------------------------------------------------------------------------
(* Undo: write the originals back, then restart every touched core.          *)

Result(restored) == IF tx.cancelled THEN "raised"
                    ELSE IF restored THEN "rolled_back" ELSE "rollback_failed"

\* Mutant: the files are restored, the cores are not.
AfterRestoreDone(restored) ==
    IF tx.idx < tx.replaced
    THEN tx' = [tx EXCEPT !.idx = @ + 1, !.restored = restored] /\ Continue
    ELSE Finish(Result(restored))

\* The next step after restoring file tx.idx, or after looking at core tx.idx.
AfterRestore(restored) ==
    IF tx.idx < tx.replaced
    THEN tx' = [tx EXCEPT !.idx = @ + 1, !.restored = restored] /\ Continue
    ELSE IF tx.touched > 0
    THEN tx' = [tx EXCEPT !.phase = "recover", !.idx = 1, !.restored = restored] /\ Continue
    ELSE Finish(Result(restored))

Restore == /\ tx.phase = "restore"
           /\ disk' = [disk EXCEPT ![tx.idx] = tx.orig[tx.idx]]
           /\ AfterRestore(tx.restored)
           /\ UNCHANGED <<db, bak, run, accepted, envVars>>

RestoreFails == /\ tx.phase = "restore"
                /\ faults < MaxFaults /\ faults' = faults + 1
                /\ tears' = tears + 1
                /\ AfterRestore(FALSE)
                /\ UNCHANGED <<db, coreVars, accepted, crashes>>
AfterRecover(restored) ==
    IF tx.idx < tx.touched
    THEN tx' = [tx EXCEPT !.phase = "recover", !.idx = @ + 1, !.restored = restored] /\ Continue
    ELSE Finish(Result(restored))

Recover == /\ tx.phase = "recover"
           /\ run' = [run EXCEPT ![tx.idx] = Loaded(tx.idx)]
           /\ tx' = [tx EXCEPT !.phase = "reinspect"]
           /\ Continue
           /\ UNCHANGED <<db, disk, bak, accepted, envVars>>

RecoverFails == /\ tx.phase = "recover" /\ Fault
                /\ LeftAnyhow(tx.idx)
                /\ AfterRecover(FALSE)
                /\ UNCHANGED <<db, disk, bak, accepted>>

ReinspectReady == /\ tx.phase = "reinspect" /\ run[tx.idx] # Down
                  /\ AfterRecover(tx.restored)
                  /\ UNCHANGED <<db, coreVars, accepted, envVars>>

ReinspectDown == /\ tx.phase = "reinspect" /\ run[tx.idx] = Down
                 /\ AfterRecover(FALSE)
                 /\ UNCHANGED <<db, coreVars, accepted, envVars>>

ReinspectFails == /\ tx.phase = "reinspect" /\ Fault
                  /\ AfterRecover(FALSE)
                  /\ UNCHANGED <<db, coreVars, accepted>>

-----------------------------------------------------------------------------
(* What the environment does.                                                *)

\* CancelledError at an await.  In the undo's own restarts the handler does
\* not catch it: it leaves, and the touched cores after it are not restarted.
Cancel == /\ tx.phase \in {"read", "validate", "restart", "inspect", "recover", "reinspect"}
          /\ Fault
          /\ IF tx.phase \in {"recover", "reinspect"} THEN Finish("raised") ELSE Abort(TRUE)
          /\ UNCHANGED <<db, coreVars, accepted>>

CancelWaiting(t) == /\ pc[t] = "waiting" /\ LoopFree /\ Fault
                    /\ pc' = [pc EXCEPT ![t] = "idle"]
                    /\ target' = [target EXCEPT ![t] = "none"]
                    /\ UNCHANGED <<db, holder, tx, outcome, coreVars, accepted>>

\* restart_xray, restart_singbox, docker's restart policy, self_healing.sh and
\* a docker restart whose caller gave up: none of them takes APPLY_LOCK.
RestartOutsideLock(c) == /\ run' = [run EXCEPT ![c] = Loaded(c)]
                         /\ UNCHANGED <<db, pc, target, holder, tx, outcome, disk, bak,
                                        accepted, envVars>>

CoreStops(c) == /\ Fault
                /\ run' = [run EXCEPT ![c] = Down]
                /\ UNCHANGED <<db, pc, target, holder, tx, outcome, disk, bak, accepted>>

\* The backend process dies and comes back: every task and the lock are gone,
\* the files and the containers are not.  Once the bootstrap marker exists,
\* starting up syncs nothing.
Crash == /\ crashes < MaxCrashes
         /\ crashes' = crashes + 1
         /\ tears' = tears + 1
         /\ pc' = [t \in Tasks |-> "idle"]
         /\ target' = [t \in Tasks |-> "none"]
         /\ holder' = NoTask
         /\ tx' = NoTx
         /\ UNCHANGED <<db, outcome, coreVars, accepted, faults>>

-----------------------------------------------------------------------------
Requests(t) == ChangeProtocols(t) \/ ChangeRemoteProtocols(t) \/ RequestSync(t)

\* The steps of the task that holds the lock when nothing goes wrong around it.
Progress == \/ ReadNode \/ Stage \/ ValidateAccepts \/ Backup \/ Replace
            \/ Restart \/ InspectReady \/ InspectDown
            \/ Restore \/ Recover \/ ReinspectReady \/ ReinspectDown

Failure == \/ ReadFails \/ StageFails \/ ValidateRejects \/ ValidateRaises
           \/ ReplaceFails \/ RestartFails \/ InspectFails
           \/ RestoreFails \/ RecoverFails \/ ReinspectFails \/ Cancel

Environment == \/ \E t \in Tasks : CancelWaiting(t)
               \/ \E c \in Cores : RestartOutsideLock(c) \/ CoreStops(c)
               \/ Crash

Next == \/ \E t \in Tasks : Requests(t) \/ AcquireLock(t)
        \/ Progress \/ Failure \/ Environment

Spec == Init /\ [][Next]_vars

\* Every command is bounded by COMMAND_TIMEOUT, so the task that holds the lock
\* moves on; asyncio.Lock wakes its waiters in the order they came, so a waiter
\* is not passed over for ever.
FairSpec == /\ Spec
            /\ WF_vars(Progress)
            /\ \A t \in Tasks : SF_vars(AcquireLock(t))

-----------------------------------------------------------------------------
(* Properties.                                                               *)

TxType == [phase : Phases, idx : Cores, cand : Nat, valid : BOOLEAN,
           orig : [Cores -> Content], replaced : 0 .. NumCores,
           touched : 0 .. NumCores, restored : BOOLEAN, cancelled : BOOLEAN]

\* The state has the shape the definitions above rely on.
TypeOK == /\ db \in Nat
          /\ pc \in [Tasks -> {"idle", "waiting", "holding"}]
          /\ target \in [Tasks -> {"local", "remote", "none"}]
          /\ holder \in Tasks \cup {NoTask}
          /\ tx \in TxType
          /\ outcome \in Outcomes
          /\ disk \in [Cores -> Content] /\ bak \in [Cores -> Content]
          /\ run \in [Cores -> Nat \cup {Down}]
          /\ accepted \subseteq (Cores \X Nat)
          /\ faults \in Nat /\ tears \in Nat /\ crashes \in Nat

\* Whatever any core runs, has in its file or has in its rollback copy, the
\* installer left there or the validators of ALL cores accepted: validation of
\* every candidate ends before the first file is replaced, and no failure,
\* crash or restart from outside brings in anything else.
AcceptedByAll == \A c, d \in Cores : \A v \in {disk[c], bak[c], run[c]} :
                    v > 0 => <<d, v>> \in accepted

\* Until something is torn, at every instant there is one version that every
\* core has in its file or in its .bak: a process that dies right now leaves a
\* rollback copy from which the previous configuration can be put together.
\* Before a first file was ever written, that is to delete the new ones.
RollbackCopyUsable ==
    tears = 0 => \/ \E c \in Cores : disk[c] = NoFile
                 \/ \E v \in {disk[1], bak[1]} \ {NoFile} :
                       \A c \in Cores : v \in {disk[c], bak[c]}

\* A sync that ends with this result, in this step.
Ends(result) == holder # NoTask /\ holder' = NoTask /\ outcome' = result /\ UNCHANGED crashes

\* "applied" is reported only when every file holds the candidate and no core
\* runs anything else, whoever restarted cores meanwhile.
AppliedIsLive ==
    [][Ends("applied") => \A c \in Cores : disk'[c] = tx.cand /\ run'[c] \in {tx.cand, Down}]_vars

\* "rolled_back" is reported only when every file is the original again and
\* every core the transaction restarted runs it, or is down since.
RolledBackIsRestored ==
    [][Ends("rolled_back") => /\ disk' = tx.orig
                              /\ \A c \in 1 .. tx.touched : run'[c] \in {tx.orig[c], Down}]_vars

\* The same of every core, touched or not: README.md says of a failed
\* application that it restores the files and recovers the affected cores.
RolledBackEverywhere ==
    [][Ends("rolled_back") => \A c \in Cores : run'[c] \in {tx.orig[c], Down}]_vars

\* The version each core's file is committed to: while a transaction may still
\* be undone, the original it would put back.
Shown == [c \in Cores |->
            IF \/ tx.phase \in {"backup", "replace", "restart", "inspect"}
               \/ tx.phase = "restore" /\ tx.idx <= c /\ c <= tx.replaced
            THEN tx.orig[c] ELSE disk[c]]

\* The files switch together and never back to an older version than one
\* applied before, whatever the order queued syncs get the lock in.
Switch == INSTANCE ConfigSwitch WITH shown <- Shown
SwitchesTogether == Switch!Spec

\* A sync that was asked for ends, whatever fails on its way.
EverySyncEnds == \A t \in Tasks : pc[t] = "waiting" ~> pc[t] = "idle"

\* A committed change of the protocols reaches every file and every core,
\* unless something failed or a version neither core serves came after it.
CommitGoesLive ==
    \A v \in 1 .. MaxVersion :
        db = v ~> \/ \A c \in Cores : disk[c] >= v /\ run[c] >= v
                  \/ faults + crashes > 0
                  \/ db \in Unsupported
=============================================================================
