-------------------------- MODULE ConfigApplyProofs --------------------------
(* Theorems about ConfigApply, for any number of cores and tasks and any     *)
(* bounds: its type invariant, that nothing unvalidated is ever in a file or *)
(* in a container, that a usable rollback copy exists at every instant, what *)
(* "applied" and "rolled_back" mean when reported, and that it implements    *)
(* ConfigSwitch.                                                             *)
EXTENDS ConfigApply, TLAPS

-----------------------------------------------------------------------------
(* Types.                                                                    *)

\* What the tasks and the transaction know; the rest of TypeOK is the world's.
TaskTypeOK == /\ pc \in [Tasks -> {"idle", "waiting", "holding"}]
              /\ target \in [Tasks -> {"local", "remote", "none"}]
              /\ holder \in Tasks \cup {NoTask}
              /\ tx \in TxType
              /\ outcome \in Outcomes

\* The indices a loop over the cores takes.
LEMMA CoreIndex ==
  /\ 1 \in Cores /\ NumCores \in Cores
  /\ \A c \in Cores : c \in Nat /\ c \in 0 .. NumCores
  /\ \A c \in Cores : c < NumCores => c + 1 \in Cores /\ c + 1 \in 0 .. NumCores
  /\ \A n \in 0 .. NumCores : n \in Nat /\ n <= NumCores
  /\ \A c \in Cores, n \in 0 .. NumCores : c < n => c + 1 \in Cores
  /\ 0 \in 0 .. NumCores /\ 1 \in 0 .. NumCores
  BY ConstantsAssumption DEF Cores

LEMMA NoTxType == NoTx \in TxType
  BY CoreIndex DEF NoTx, TxType, Phases, Content

LEMMA FinishType ==
  ASSUME TypeOK, NEW result \in Outcomes, Finish(result)
  PROVE  TaskTypeOK'
  BY NoTxType DEF TypeOK, TaskTypeOK, Finish

LEMMA ContinueType ==
  ASSUME TypeOK, Continue, tx' \in TxType
  PROVE  TaskTypeOK'
  BY DEF TypeOK, TaskTypeOK, Continue

LEMMA ResultType ==
  ASSUME NEW restored \in BOOLEAN
  PROVE  Result(restored) \in Outcomes
  BY DEF Result, Outcomes

LEMMA AbortType ==
  ASSUME TypeOK, NEW cancelled \in BOOLEAN, Abort(cancelled)
  PROVE  TaskTypeOK'
<1>1. CASE tx.replaced > 0
  <2>1. tx' \in TxType
    BY ZenonT(60), <1>1, CoreIndex DEF TypeOK, Abort, TxType, Phases
  <2> QED
    BY <1>1, <2>1, ContinueType DEF Abort
<1>2. CASE ~(tx.replaced > 0)
  <2>1. (IF cancelled THEN "raised" ELSE "apply_failed") \in Outcomes
    BY DEF Outcomes
  <2> QED
    BY <1>2, <2>1, FinishType DEF Abort
<1> QED
  BY <1>1, <1>2

LEMMA NextValidationType ==
  ASSUME TypeOK, NEW valid \in BOOLEAN, NextValidation(valid)
  PROVE  TaskTypeOK'
<1>1. CASE tx.idx < NumCores
  <2>1. tx' \in TxType
    BY ZenonT(60), <1>1, CoreIndex DEF TypeOK, NextValidation, TxType, Phases
  <2> QED
    BY <1>1, <2>1, ContinueType DEF NextValidation
<1>2. CASE ~(tx.idx < NumCores) /\ valid
  <2>1. tx' \in TxType
    BY ZenonT(60), <1>2, CoreIndex DEF TypeOK, NextValidation, TxType, Phases
  <2> QED
    BY <1>2, <2>1, ContinueType DEF NextValidation
<1>3. CASE ~(tx.idx < NumCores) /\ ~valid
  BY <1>3, FinishType DEF NextValidation, Outcomes
<1> QED
  BY <1>1, <1>2, <1>3

LEMMA AfterRestoreType ==
  ASSUME TypeOK, NEW restored \in BOOLEAN, AfterRestore(restored)
  PROVE  TaskTypeOK'
<1>1. CASE tx.idx < tx.replaced
  <2>1. tx.idx + 1 \in Cores
    BY <1>1, CoreIndex DEF TypeOK, TxType
  <2>2. tx' \in TxType
    BY ZenonT(60), <1>1, <2>1 DEF TypeOK, AfterRestore, TxType
  <2> QED
    BY <1>1, <2>2, ContinueType DEF AfterRestore
<1>2. CASE ~(tx.idx < tx.replaced) /\ tx.touched > 0
  <2>1. tx' \in TxType
    BY ZenonT(60), <1>2, CoreIndex DEF TypeOK, AfterRestore, TxType, Phases
  <2> QED
    BY <1>2, <2>1, ContinueType DEF AfterRestore
<1>3. CASE ~(tx.idx < tx.replaced) /\ ~(tx.touched > 0)
  BY <1>3, FinishType, ResultType DEF AfterRestore
<1> QED
  BY <1>1, <1>2, <1>3

LEMMA AfterRecoverType ==
  ASSUME TypeOK, NEW restored \in BOOLEAN, AfterRecover(restored)
  PROVE  TaskTypeOK'
<1>1. CASE tx.idx < tx.touched
  <2>1. tx.idx + 1 \in Cores
    BY <1>1, CoreIndex DEF TypeOK, TxType
  <2>2. tx' \in TxType
    BY ZenonT(60), <1>1, <2>1 DEF TypeOK, AfterRecover, TxType, Phases
  <2> QED
    BY <1>1, <2>2, ContinueType DEF AfterRecover
<1>2. CASE ~(tx.idx < tx.touched)
  BY <1>2, FinishType, ResultType DEF AfterRecover
<1> QED
  BY <1>1, <1>2

LEMMA LoadedType ==
  ASSUME TypeOK, NEW c \in Cores
  PROVE  Loaded(c) \in Nat \cup {Down}
  BY DEF TypeOK, Loaded, Content

LEMMA ResultsType ==
  /\ "applied" \in Outcomes /\ "manual_required" \in Outcomes
  /\ "unsupported_protocol" \in Outcomes /\ "apply_failed" \in Outcomes
  /\ "raised" \in Outcomes
  BY DEF Outcomes

LEMMA FieldTypes ==
  ASSUME TypeOK
  PROVE  /\ tx.idx \in Cores /\ tx.cand \in Nat /\ tx.valid \in BOOLEAN
         /\ tx.orig \in [Cores -> Content] /\ tx.restored \in BOOLEAN
         /\ tx.replaced \in 0 .. NumCores /\ tx.touched \in 0 .. NumCores
         /\ tx.cancelled \in BOOLEAN /\ tx.phase \in Phases
  BY DEF TypeOK, TxType

-----------------------------------------------------------------------------
LEMMA ProgressType ==
  ASSUME TypeOK, Progress
  PROVE  TypeOK'
<1> USE DEF coreVars, envVars
<1>1. CASE ReadNode
  <2>1. TaskTypeOK'
    <3>1. CASE target[holder] = "remote" \/ db \in Unsupported
      BY <1>1, <3>1, FinishType, ResultsType DEF ReadNode
    <3>2. CASE ~(target[holder] = "remote" \/ db \in Unsupported)
      <4>1. tx' \in TxType
        BY ZenonT(60), <1>1, <3>2 DEF TypeOK, ReadNode, TxType, Phases
      <4> QED
        BY <1>1, <3>2, <4>1, ContinueType DEF ReadNode
    <3> QED
      BY <3>1, <3>2
  <2> QED
    BY <1>1, <2>1 DEF ReadNode, TypeOK, TaskTypeOK
<1>2. CASE Stage
  <2>1. tx' \in TxType
    BY <1>2 DEF TypeOK, Stage, TxType, Phases
  <2> QED
    BY <1>2, <2>1, ContinueType DEF Stage, TypeOK, TaskTypeOK
<1>3. CASE ValidateAccepts
  <2>1. TaskTypeOK'
    BY <1>3, NextValidationType, FieldTypes DEF ValidateAccepts
  <2> QED
    BY <1>3, <2>1, FieldTypes DEF ValidateAccepts, TypeOK, TaskTypeOK
<1>4. CASE Backup
  <2>1. tx' \in TxType
    BY <1>4 DEF TypeOK, Backup, TxType, Phases
  <2>2. bak' \in [Cores -> Content]
    BY <1>4, FieldTypes DEF TypeOK, Backup
  <2> QED
    BY <1>4, <2>1, <2>2, ContinueType DEF Backup, TypeOK, TaskTypeOK
<1>5. CASE Replace
  <2>1. tx' \in TxType
    <3>1. CASE tx.idx < NumCores
      <4>1. tx.idx + 1 \in Cores /\ tx.idx \in 0 .. NumCores
        BY <3>1, CoreIndex, FieldTypes
      <4> QED
        BY <1>5, <3>1, <4>1 DEF TypeOK, Replace, TxType, Phases
    <3>2. CASE ~(tx.idx < NumCores)
      <4>1. tx.idx \in 0 .. NumCores
        BY CoreIndex, FieldTypes
      <4> QED
        BY <1>5, <3>2, <4>1, CoreIndex DEF TypeOK, Replace, TxType, Phases
    <3> QED
      BY <3>1, <3>2
  <2>2. disk' \in [Cores -> Content]
    BY <1>5, FieldTypes DEF TypeOK, Replace, Content
  <2> QED
    BY <1>5, <2>1, <2>2, ContinueType DEF Replace, TypeOK, TaskTypeOK
<1>6. CASE Restart
  <2>1. tx' \in TxType
    BY <1>6 DEF TypeOK, Restart, TxType, Phases
  <2>2. run' \in [Cores -> Nat \cup {Down}]
    BY <1>6, FieldTypes, LoadedType DEF TypeOK, Restart
  <2> QED
    BY <1>6, <2>1, <2>2, ContinueType DEF Restart, TypeOK, TaskTypeOK
<1>7. CASE InspectReady
  <2>1. TaskTypeOK'
    <3>1. CASE tx.idx < NumCores
      <4>1. tx.idx + 1 \in Cores /\ tx.idx + 1 \in 0 .. NumCores
        BY <3>1, CoreIndex, FieldTypes
      <4>2. tx' \in TxType
        BY ZenonT(60), <1>7, <3>1, <4>1 DEF TypeOK, InspectReady, TxType, Phases
      <4> QED
        BY <1>7, <3>1, <4>2, ContinueType DEF InspectReady
    <3>2. CASE ~(tx.idx < NumCores)
      BY <1>7, <3>2, FinishType, ResultsType DEF InspectReady
    <3> QED
      BY <3>1, <3>2
  <2> QED
    BY <1>7, <2>1 DEF InspectReady, TypeOK, TaskTypeOK
<1>8. CASE InspectDown
  BY <1>8, AbortType DEF InspectDown, TypeOK, TaskTypeOK
<1>9. CASE Restore
  <2>1. disk' \in [Cores -> Content]
    BY <1>9, FieldTypes DEF TypeOK, Restore
  <2> QED
    BY <1>9, <2>1, AfterRestoreType, FieldTypes DEF Restore, TypeOK, TaskTypeOK
<1>10. CASE Recover
  <2>1. tx' \in TxType
    BY <1>10 DEF TypeOK, Recover, TxType, Phases
  <2>2. run' \in [Cores -> Nat \cup {Down}]
    BY <1>10, FieldTypes, LoadedType DEF TypeOK, Recover
  <2> QED
    BY <1>10, <2>1, <2>2, ContinueType DEF Recover, TypeOK, TaskTypeOK
<1>11. CASE ReinspectReady
  BY <1>11, AfterRecoverType, FieldTypes DEF ReinspectReady, TypeOK, TaskTypeOK
<1>12. CASE ReinspectDown
  BY <1>12, AfterRecoverType DEF ReinspectDown, TypeOK, TaskTypeOK
<1> QED
  BY <1>1, <1>2, <1>3, <1>4, <1>5, <1>6, <1>7, <1>8, <1>9, <1>10, <1>11, <1>12 DEF Progress

LEMMA FailureType ==
  ASSUME TypeOK, Failure
  PROVE  TypeOK'
<1> USE DEF coreVars, Fault
<1>1. CASE ReadFails
  BY <1>1, FinishType, ResultsType DEF ReadFails, TypeOK, TaskTypeOK
<1>2. CASE StageFails
  BY <1>2, FinishType, ResultsType DEF StageFails, TypeOK, TaskTypeOK
<1>3. CASE ValidateRejects
  <2>1. TaskTypeOK'
    BY <1>3, NextValidationType DEF ValidateRejects
  <2> QED
    BY <1>3, <2>1 DEF ValidateRejects, TypeOK, TaskTypeOK
<1>4. CASE ValidateRaises
  BY <1>4, FinishType, ResultsType DEF ValidateRaises, TypeOK, TaskTypeOK
<1>5. CASE ReplaceFails
  <2>1. TaskTypeOK'
    BY <1>5, AbortType DEF ReplaceFails
  <2> QED
    BY <1>5, <2>1 DEF ReplaceFails, TypeOK, TaskTypeOK
<1>6. CASE RestartFails
  <2>1. run' \in [Cores -> Nat \cup {Down}]
    BY <1>6, FieldTypes, LoadedType DEF TypeOK, RestartFails, LeftAnyhow
  <2>2. TaskTypeOK'
    BY <1>6, AbortType DEF RestartFails
  <2> QED
    BY <1>6, <2>1, <2>2 DEF RestartFails, TypeOK, TaskTypeOK
<1>7. CASE InspectFails
  <2>1. TaskTypeOK'
    BY <1>7, AbortType DEF InspectFails
  <2> QED
    BY <1>7, <2>1 DEF InspectFails, TypeOK, TaskTypeOK
<1>8. CASE RestoreFails
  <2>1. TaskTypeOK'
    BY <1>8, AfterRestoreType DEF RestoreFails
  <2> QED
    BY <1>8, <2>1 DEF RestoreFails, TypeOK, TaskTypeOK
<1>9. CASE RecoverFails
  <2>1. run' \in [Cores -> Nat \cup {Down}]
    BY <1>9, FieldTypes, LoadedType DEF TypeOK, RecoverFails, LeftAnyhow
  <2>2. TaskTypeOK'
    BY <1>9, AfterRecoverType DEF RecoverFails
  <2> QED
    BY <1>9, <2>1, <2>2 DEF RecoverFails, TypeOK, TaskTypeOK
<1>10. CASE ReinspectFails
  <2>1. TaskTypeOK'
    BY <1>10, AfterRecoverType DEF ReinspectFails
  <2> QED
    BY <1>10, <2>1 DEF ReinspectFails, TypeOK, TaskTypeOK
<1>11. CASE Cancel
  <2>1. TaskTypeOK'
    BY <1>11, AbortType, FinishType, ResultsType DEF Cancel
  <2> QED
    BY <1>11, <2>1 DEF Cancel, TypeOK, TaskTypeOK
<1> QED
  BY <1>1, <1>2, <1>3, <1>4, <1>5, <1>6, <1>7, <1>8, <1>9, <1>10, <1>11 DEF Failure

LEMMA EnvironmentType ==
  ASSUME TypeOK, Environment
  PROVE  TypeOK'
<1> USE DEF coreVars, envVars, Fault
<1>1. ASSUME NEW t \in Tasks, CancelWaiting(t)
      PROVE  TypeOK'
  BY <1>1 DEF CancelWaiting, TypeOK
<1>2. ASSUME NEW c \in Cores, RestartOutsideLock(c)
      PROVE  TypeOK'
  BY <1>2, LoadedType DEF RestartOutsideLock, TypeOK
<1>3. ASSUME NEW c \in Cores, CoreStops(c)
      PROVE  TypeOK'
  BY <1>3 DEF CoreStops, TypeOK
<1>4. CASE Crash
  BY <1>4, NoTxType DEF Crash, TypeOK
<1> QED
  BY <1>1, <1>2, <1>3, <1>4 DEF Environment

LEMMA TaskType ==
  ASSUME TypeOK, NEW t \in Tasks, Requests(t) \/ AcquireLock(t)
  PROVE  TypeOK'
<1> USE DEF coreVars, envVars
<1>1. CASE Requests(t)
  BY <1>1 DEF TypeOK, Requests, ChangeProtocols, ChangeRemoteProtocols, RequestSync, Ask
<1>2. CASE AcquireLock(t)
  <2>1. tx' \in TxType
    BY <1>2, NoTxType DEF AcquireLock, TxType, Phases
  <2> QED
    BY <1>2, <2>1 DEF TypeOK, AcquireLock
<1> QED
  BY <1>1, <1>2

LEMMA StutterType ==
  ASSUME TypeOK, UNCHANGED vars
  PROVE  TypeOK'
  BY DEF TypeOK, vars

\* TypeOK holds of every reachable state.
THEOREM TypeCorrect == Spec => []TypeOK
<1>1. Init => TypeOK
  BY NoTxType DEF Init, TypeOK, Content, NoFile, Down, Outcomes
<1>2. TypeOK /\ [Next]_vars => TypeOK'
  BY TaskType, ProgressType, FailureType, EnvironmentType, StutterType DEF Next
<1> QED
  BY <1>1, <1>2, PTL DEF Spec
-----------------------------------------------------------------------------
(* Nothing unvalidated.  The strengthening says what the transaction knows:  *)
(* which verdicts it has seen while validating, that all of them were good   *)
(* once it replaces files, and that what it would put back is vetted too.    *)

InFlight == {"backup", "replace", "restart", "inspect"}

Vetted(v) == v > 0 => \A d \in Cores : <<d, v>> \in accepted

AcceptInv ==
    /\ \A c \in Cores : Vetted(disk[c]) /\ Vetted(bak[c]) /\ Vetted(run[c])
                        /\ Vetted(tx.orig[c])
    /\ tx.phase \in {"none", "read", "stage"} => tx.idx = 1
    /\ tx.phase = "validate" /\ tx.valid =>
          \A d \in Cores : d < tx.idx => <<d, tx.cand>> \in accepted
    /\ tx.phase \in InFlight => \A d \in Cores : <<d, tx.cand>> \in accepted

(* The files.  Nothing is newer than the database; while a transaction may   *)
(* still be undone, the cores it has replaced hold the candidate and the     *)
(* others the original.                                                      *)
FileInv ==
    /\ tx.cand <= db
    /\ \A c \in Cores : disk[c] <= db
    /\ tx.phase = "stage" => \A c \in Cores : disk[c] <= tx.cand
    /\ tx.phase \in {"validate"} \cup InFlight =>
          \A c \in Cores : /\ tx.orig[c] <= tx.cand
                           /\ disk[c] = IF c <= tx.replaced THEN tx.cand ELSE tx.orig[c]
    /\ tx.phase \in {"none", "read", "stage", "validate"} => tx.replaced = 0
    /\ tx.phase \in {"backup", "replace"} => tx.replaced = tx.idx - 1
    /\ tx.phase \in {"restart", "inspect"} => tx.replaced = NumCores
    /\ tx.phase = "restore" => tx.idx <= tx.replaced
    /\ \A c \in Cores : tx.orig[c] <= db

(* The cores.  One the transaction has started runs the file it was started  *)
(* on; one it has recovered, the original, as long as no restore failed.     *)
CoreInv ==
    /\ tx.phase = "restart" =>
          \A c \in Cores : c < tx.idx => run[c] \in {tx.cand, Down}
    /\ tx.phase = "inspect" =>
          \A c \in Cores : c <= tx.idx => run[c] \in {tx.cand, Down}
    /\ tx.phase = "restore" /\ tx.restored =>
          \A c \in Cores : c < tx.idx \/ tx.replaced < c => disk[c] = tx.orig[c]
    /\ tx.phase \in {"recover", "reinspect"} /\ tx.restored => disk = tx.orig
    /\ tx.phase = "recover" /\ tx.restored =>
          \A c \in Cores : c < tx.idx => run[c] \in {tx.orig[c], Down}
    /\ tx.phase = "reinspect" /\ tx.restored =>
          \A c \in Cores : c <= tx.idx => run[c] \in {tx.orig[c], Down}
-----------------------------------------------------------------------------
(* AcceptInv is inductive.                                                   *)

\* What most steps do: contents move between the files and the containers
\* that already hold vetted ones, and no phase is entered that needs more.
Quiet == /\ accepted \subseteq accepted'
         /\ \A c \in Cores : /\ disk'[c] \in {disk[c], tx.orig[c]}
                            /\ bak'[c] \in {bak[c], tx.orig[c]}
                            /\ run'[c] \in {run[c], disk[c], Down}
                            /\ tx'.orig[c] \in {NoFile, tx.orig[c], disk[c]}
         /\ tx'.phase \in {"none", "read", "stage"} => tx'.idx = 1
         /\ tx'.phase = "validate" => tx'.idx = 1 \/ tx' = tx
         /\ tx'.phase \in InFlight => tx.phase \in InFlight /\ tx'.cand = tx.cand

LEMMA QuietAccept ==
  ASSUME TypeOK, AcceptInv, Quiet
  PROVE  AcceptInv'
<1>1. ASSUME NEW c \in Cores
      PROVE  Vetted(disk[c])' /\ Vetted(bak[c])' /\ Vetted(run[c])' /\ Vetted(tx.orig[c])'
  BY <1>1 DEF AcceptInv, Quiet, Vetted, NoFile, Down
<1>2. ASSUME tx'.phase = "validate", tx'.valid, NEW d \in Cores, d < tx'.idx
      PROVE  <<d, tx'.cand>> \in accepted'
  <2>1. CASE tx'.idx = 1
    BY <1>2, <2>1, CoreIndex DEF Cores
  <2>2. CASE tx' = tx
    BY <1>2, <2>2 DEF AcceptInv, Quiet
  <2> QED
    BY <1>2, <2>1, <2>2 DEF Quiet
<1>3. ASSUME tx'.phase \in InFlight, NEW d \in Cores
      PROVE  <<d, tx'.cand>> \in accepted'
  BY <1>3 DEF AcceptInv, Quiet
<1> QED
  BY <1>1, <1>2, <1>3 DEF AcceptInv, Quiet

LEMMA FinishQuiet ==
  ASSUME TypeOK, NEW result, Finish(result)
  PROVE  /\ tx'.phase = "none" /\ tx'.idx = 1
         /\ \A c \in Cores : tx'.orig[c] = NoFile
  BY DEF Finish, NoTx

LEMMA AbortQuiet ==
  ASSUME TypeOK, NEW cancelled \in BOOLEAN, Abort(cancelled)
  PROVE  /\ tx'.phase \in {"none", "restore"}
         /\ tx'.phase = "none" => tx'.idx = 1
         /\ \A c \in Cores : tx'.orig[c] \in {NoFile, tx.orig[c]}
<1>1. CASE tx.replaced > 0
  BY <1>1 DEF Abort, TypeOK, TxType
<1>2. CASE ~(tx.replaced > 0)
  BY <1>2, FinishQuiet DEF Abort
<1> QED
  BY <1>1, <1>2

LEMMA AfterRestoreQuiet ==
  ASSUME TypeOK, NEW restored \in BOOLEAN, AfterRestore(restored), tx.phase = "restore"
  PROVE  /\ tx'.phase \in {"none", "restore", "recover"}
         /\ tx'.phase = "none" => tx'.idx = 1
         /\ \A c \in Cores : tx'.orig[c] \in {NoFile, tx.orig[c]}
<1>1. CASE tx.idx < tx.replaced \/ tx.touched > 0
  BY <1>1 DEF AfterRestore, TypeOK, TxType
<1>2. CASE ~(tx.idx < tx.replaced \/ tx.touched > 0)
  BY <1>2, FinishQuiet DEF AfterRestore
<1> QED
  BY <1>1, <1>2

LEMMA AfterRecoverQuiet ==
  ASSUME TypeOK, NEW restored \in BOOLEAN, AfterRecover(restored)
  PROVE  /\ tx'.phase \in {"none", "recover"}
         /\ tx'.phase = "none" => tx'.idx = 1
         /\ \A c \in Cores : tx'.orig[c] \in {NoFile, tx.orig[c]}
<1>1. CASE tx.idx < tx.touched
  BY <1>1 DEF AfterRecover, TypeOK, TxType
<1>2. CASE ~(tx.idx < tx.touched)
  BY <1>2, FinishQuiet DEF AfterRecover
<1> QED
  BY <1>1, <1>2

LEMMA ProgressAccept ==
  ASSUME TypeOK, AcceptInv, Progress
  PROVE  AcceptInv'
<1> USE DEF coreVars, envVars
<1>1. CASE ReadNode
  <2>1. CASE Continue /\ tx' = [tx EXCEPT !.phase = "stage", !.cand = db]
    BY <1>1, <2>1, QuietAccept DEF ReadNode, Quiet, InFlight, TypeOK, TxType, AcceptInv
  <2>2. CASE Finish("manual_required") \/ Finish("unsupported_protocol")
    BY <1>1, <2>2, QuietAccept, FinishQuiet DEF ReadNode, Quiet, InFlight
  <2> QED
    BY <1>1, <2>1, <2>2 DEF ReadNode
<1>2. CASE Stage
  BY <1>2, QuietAccept DEF Stage, Quiet, InFlight, TypeOK, TxType, AcceptInv
<1>3. CASE ValidateAccepts
  <2>1. \A c \in Cores : Vetted(disk[c])' /\ Vetted(bak[c])' /\ Vetted(run[c])'
    BY <1>3 DEF ValidateAccepts, AcceptInv, Vetted
  <2>2. \A d \in Cores : tx.valid /\ d <= tx.idx => <<d, tx.cand>> \in accepted'
    BY <1>3, FieldTypes, CoreIndex DEF ValidateAccepts, AcceptInv
  <2>3. CASE tx.idx < NumCores
    <3>1. /\ tx'.phase = "validate" /\ tx'.idx = tx.idx + 1 /\ tx'.valid = tx.valid
          /\ tx'.cand = tx.cand /\ tx'.orig = tx.orig
      BY <1>3, <2>3 DEF ValidateAccepts, NextValidation, TypeOK, TxType
    <3>2. \A d \in Cores : d < tx.idx + 1 => d <= tx.idx
      BY FieldTypes, CoreIndex
    <3>3. \A c \in Cores : Vetted(tx.orig[c])'
      BY <1>3, <3>1 DEF ValidateAccepts, AcceptInv, Vetted
    <3>4. \A d \in Cores : tx'.valid /\ d < tx'.idx => <<d, tx'.cand>> \in accepted'
      BY <2>2, <3>1, <3>2
    <3>5. tx'.phase \notin InFlight /\ tx'.phase \notin {"none", "read", "stage"}
      BY <3>1 DEF InFlight
    <3> QED
      BY <2>1, <3>3, <3>4, <3>5, Zenon DEF AcceptInv
  <2>4. CASE ~(tx.idx < NumCores) /\ tx.valid
    <3>1. \A d \in Cores : d <= tx.idx
      BY <2>4, FieldTypes, ConstantsAssumption DEF Cores
    <3>2. tx'.phase = "backup" /\ tx'.cand = tx.cand /\ tx'.orig = tx.orig
      BY <1>3, <2>4 DEF ValidateAccepts, NextValidation, TypeOK, TxType
    <3>3. \A c \in Cores : Vetted(tx.orig[c])'
      BY <1>3, <3>2 DEF ValidateAccepts, AcceptInv, Vetted
    <3>4. \A d \in Cores : <<d, tx'.cand>> \in accepted'
      BY <2>2, <2>4, <3>1, <3>2
    <3> QED
      BY <2>1, <3>2, <3>3, <3>4 DEF AcceptInv, InFlight
  <2>5. CASE ~(tx.idx < NumCores) /\ ~tx.valid
    BY <1>3, <2>5, QuietAccept, FinishQuiet
       DEF ValidateAccepts, NextValidation, Quiet, InFlight
  <2> QED
    BY <2>3, <2>4, <2>5, FieldTypes
<1>4. CASE Backup
  <2>1. \A c \in Cores : bak'[c] \in {bak[c], tx.orig[c]}
    BY <1>4, FieldTypes DEF Backup, TypeOK
  <2> QED
    BY <1>4, <2>1, QuietAccept DEF Backup, Quiet, InFlight, TypeOK, TxType
<1>5. CASE Replace
  <2>1. \A c \in Cores : disk'[c] \in {disk[c], tx.cand}
    BY <1>5, FieldTypes DEF Replace, TypeOK
  <2>2. tx'.phase \in {"backup", "restart"} /\ tx'.cand = tx.cand /\ tx'.orig = tx.orig
    BY <1>5 DEF Replace, TypeOK, TxType
  <2>3. Vetted(tx.cand)
    BY <1>5 DEF Replace, AcceptInv, InFlight, Vetted
  <2> QED
    BY <1>5, <2>1, <2>2, <2>3 DEF Replace, AcceptInv, Vetted, InFlight
<1>6. CASE Restart
  <2>1. \A c \in Cores : run'[c] \in {run[c], disk[c], Down}
    BY <1>6, FieldTypes DEF Restart, Loaded, TypeOK
  <2> QED
    BY <1>6, <2>1, QuietAccept DEF Restart, Quiet, InFlight, TypeOK, TxType
<1>7. CASE InspectReady
  <2>1. CASE tx.idx < NumCores
    BY ZenonT(60), <1>7, <2>1, QuietAccept DEF InspectReady, Quiet, InFlight, TypeOK, TxType
  <2>2. CASE ~(tx.idx < NumCores)
    BY <1>7, <2>2, QuietAccept, FinishQuiet DEF InspectReady, Quiet, InFlight
  <2> QED
    BY <2>1, <2>2
<1>8. CASE InspectDown
  <2>1. Abort(FALSE) /\ FALSE \in BOOLEAN
    BY <1>8 DEF InspectDown
  <2> QED
    BY <1>8, <2>1, QuietAccept, AbortQuiet DEF InspectDown, Quiet, InFlight
<1>9. CASE Restore
  <2>1. \A c \in Cores : disk'[c] \in {disk[c], tx.orig[c]}
    BY <1>9, FieldTypes DEF Restore, TypeOK
  <2> QED
    BY <1>9, <2>1, QuietAccept, AfterRestoreQuiet, FieldTypes DEF Restore, Quiet, InFlight
<1>10. CASE Recover
  <2>1. \A c \in Cores : run'[c] \in {run[c], disk[c], Down}
    BY <1>10, FieldTypes DEF Recover, Loaded, TypeOK
  <2> QED
    BY <1>10, <2>1, QuietAccept DEF Recover, Quiet, InFlight, TypeOK, TxType
<1>11. CASE ReinspectReady
  BY <1>11, QuietAccept, AfterRecoverQuiet, FieldTypes DEF ReinspectReady, Quiet, InFlight
<1>12. CASE ReinspectDown
  <2>1. AfterRecover(FALSE) /\ FALSE \in BOOLEAN
    BY <1>12 DEF ReinspectDown
  <2> QED
    BY <1>12, <2>1, QuietAccept, AfterRecoverQuiet DEF ReinspectDown, Quiet, InFlight
<1> QED
  BY <1>1, <1>2, <1>3, <1>4, <1>5, <1>6, <1>7, <1>8, <1>9, <1>10, <1>11, <1>12 DEF Progress

LEMMA FailureAccept ==
  ASSUME TypeOK, AcceptInv, Failure
  PROVE  AcceptInv'
<1> USE DEF coreVars, Fault
<1>1. CASE ReadFails \/ StageFails \/ ValidateRaises
  <2>1. CASE Finish("raised") \/ Finish("apply_failed")
    BY <1>1, <2>1, QuietAccept, FinishQuiet
       DEF ReadFails, StageFails, ValidateRaises, Quiet, InFlight
  <2> QED
    BY <1>1, <2>1 DEF ReadFails, StageFails, ValidateRaises
<1>2. CASE ValidateRejects
  <2>1. CASE tx.idx < NumCores
    <3>1. tx'.phase = "validate" /\ tx'.valid = FALSE /\ tx'.orig = tx.orig
      BY <1>2, <2>1 DEF ValidateRejects, NextValidation, TypeOK, TxType
    <3> QED
      BY <1>2, <3>1 DEF ValidateRejects, AcceptInv, Vetted, InFlight
  <2>2. CASE ~(tx.idx < NumCores)
    BY <1>2, <2>2, QuietAccept, FinishQuiet
       DEF ValidateRejects, NextValidation, Quiet, InFlight
  <2> QED
    BY <2>1, <2>2
<1>3. CASE ReplaceFails \/ InspectFails \/ RestartFails
  <2>1. Abort(FALSE) /\ FALSE \in BOOLEAN
    BY <1>3 DEF ReplaceFails, InspectFails, RestartFails
  <2>2. \A c \in Cores : run'[c] \in {run[c], disk[c], Down}
    BY <1>3, FieldTypes
       DEF ReplaceFails, InspectFails, RestartFails, LeftAnyhow, Loaded, TypeOK
  <2> QED
    BY <1>3, <2>1, <2>2, QuietAccept, AbortQuiet
       DEF ReplaceFails, InspectFails, RestartFails, Quiet, InFlight
<1>4. CASE RestoreFails
  <2>1. AfterRestore(FALSE) /\ FALSE \in BOOLEAN
    BY <1>4 DEF RestoreFails
  <2> QED
    BY <1>4, <2>1, QuietAccept, AfterRestoreQuiet DEF RestoreFails, Quiet, InFlight
<1>5. CASE RecoverFails \/ ReinspectFails
  <2>1. AfterRecover(FALSE) /\ FALSE \in BOOLEAN
    BY <1>5 DEF RecoverFails, ReinspectFails
  <2>2. \A c \in Cores : run'[c] \in {run[c], disk[c], Down}
    BY <1>5, FieldTypes DEF RecoverFails, ReinspectFails, LeftAnyhow, Loaded, TypeOK
  <2> QED
    BY <1>5, <2>1, <2>2, QuietAccept, AfterRecoverQuiet
       DEF RecoverFails, ReinspectFails, Quiet, InFlight
<1>6. CASE Cancel
  <2>1. CASE Finish("raised")
    BY <1>6, <2>1, QuietAccept, FinishQuiet DEF Cancel, Quiet, InFlight
  <2>2. CASE Abort(TRUE) /\ TRUE \in BOOLEAN
    BY <1>6, <2>2, QuietAccept, AbortQuiet DEF Cancel, Quiet, InFlight
  <2> QED
    BY <1>6, <2>1, <2>2 DEF Cancel
<1> QED
  BY <1>1, <1>2, <1>3, <1>4, <1>5, <1>6 DEF Failure

LEMMA OthersAccept ==
  ASSUME TypeOK, AcceptInv,
         Environment \/ UNCHANGED vars \/ \E t \in Tasks : Requests(t) \/ AcquireLock(t)
  PROVE  AcceptInv'
<1> USE DEF coreVars, envVars, Fault, Quiet, InFlight
<1>1. ASSUME NEW c \in Cores, RestartOutsideLock(c) \/ CoreStops(c)
      PROVE  AcceptInv'
  <2>1. \A d \in Cores : run'[d] \in {run[d], disk[d], Down}
    BY <1>1 DEF RestartOutsideLock, CoreStops, Loaded, TypeOK
  <2> QED
    BY <1>1, <2>1, QuietAccept DEF RestartOutsideLock, CoreStops, AcceptInv
<1>2. CASE Crash
  BY <1>2, QuietAccept DEF Crash, NoTx
<1>3. ASSUME NEW t \in Tasks, Requests(t) \/ CancelWaiting(t)
      PROVE  AcceptInv'
  BY <1>3, QuietAccept DEF Requests, ChangeProtocols, ChangeRemoteProtocols, RequestSync,
                           Ask, CancelWaiting, AcceptInv
<1>4. ASSUME NEW t \in Tasks, AcquireLock(t)
      PROVE  AcceptInv'
  BY <1>4, QuietAccept DEF AcquireLock, NoTx
<1>5. CASE UNCHANGED vars
  BY <1>5, QuietAccept DEF vars, AcceptInv
<1> QED
  BY <1>1, <1>2, <1>3, <1>4, <1>5 DEF Environment

\* AcceptedByAll: no file, rollback copy or running core ever holds a version
\* that some core's validator did not accept.
THEOREM NothingUnvalidated == Spec => []AcceptedByAll
<1>1. Init => AcceptInv
  BY DEF Init, AcceptInv, Vetted, NoTx, InFlight, NoFile, Down
<1>2. TypeOK /\ AcceptInv /\ [Next]_vars => AcceptInv'
  BY ProgressAccept, FailureAccept, OthersAccept DEF Next
<1>3. AcceptInv => AcceptedByAll
  BY DEF AcceptInv, AcceptedByAll, Vetted
<1> QED
  BY <1>1, <1>2, <1>3, TypeCorrect, PTL DEF Spec

-----------------------------------------------------------------------------
(* Without a holder there is no transaction.                                 *)

LockInv == holder = NoTask => tx.phase = "none"

LEMMA LockStep ==
  ASSUME TypeOK, LockInv, [Next]_vars
  PROVE  LockInv'
<1>1. CASE tx' = NoTx
  BY <1>1 DEF LockInv, NoTx
<1>2. CASE UNCHANGED <<holder, tx>>
  BY <1>2 DEF LockInv
<1>3. CASE UNCHANGED holder /\ tx.phase # "none"
  BY <1>3 DEF LockInv
<1>4. ASSUME NEW t \in Tasks, AcquireLock(t)
      PROVE  LockInv'
  BY <1>4, ConstantsAssumption DEF AcquireLock, LockInv
<1>5. CASE Progress
  BY <1>1, <1>3, <1>5 DEF Progress, ReadNode, Stage, ValidateAccepts, Backup, Replace, Restart,
     InspectReady, InspectDown, Restore, Recover, ReinspectReady, ReinspectDown,
     Continue, Finish, NextValidation, Abort, AfterRestore, AfterRecover
<1>6. CASE Failure
  BY <1>1, <1>3, <1>6 DEF Failure, ReadFails, StageFails, ValidateRejects, ValidateRaises,
     ReplaceFails, RestartFails, InspectFails, RestoreFails, RecoverFails, ReinspectFails,
     Cancel, Continue, Finish, NextValidation, Abort, AfterRestore, AfterRecover
<1>7. CASE Environment
  BY <1>1, <1>2, <1>7 DEF Environment, CancelWaiting, RestartOutsideLock, CoreStops, Crash
<1>8. ASSUME NEW t \in Tasks, Requests(t)
      PROVE  LockInv'
  BY <1>2, <1>8 DEF Requests, ChangeProtocols, ChangeRemoteProtocols, RequestSync, Ask
<1>9. CASE UNCHANGED vars
  BY <1>2, <1>9 DEF vars
<1> QED
  BY <1>4, <1>5, <1>6, <1>7, <1>8, <1>9 DEF Next

-----------------------------------------------------------------------------
(* FileInv is inductive, and the files ConfigSwitch sees move as it says.    *)

\* The fields a step keeps.
Keeps(phase, idx) == /\ tx'.phase = phase /\ tx'.idx = idx
                     /\ tx'.orig = tx.orig /\ tx'.cand = tx.cand
                     /\ tx'.replaced = tx.replaced /\ tx'.touched = tx.touched

LEMMA NoTxFields ==
  /\ NoTx.phase = "none" /\ NoTx.replaced = 0 /\ NoTx.cand = 0
  /\ \A c \in Cores : NoTx.orig[c] = NoFile
  BY DEF NoTx

LEMMA AbortShape ==
  ASSUME TypeOK, NEW cancelled \in BOOLEAN, Abort(cancelled)
  PROVE  \/ tx.replaced > 0 /\ Keeps("restore", 1) /\ tx'.restored = tx.restored
         \/ tx.replaced = 0 /\ tx' = NoTx
<1>1. CASE tx.replaced > 0
  BY <1>1 DEF Abort, Keeps, TypeOK, TxType
<1>2. CASE ~(tx.replaced > 0)
  BY <1>2, FieldTypes DEF Abort, Finish
<1> QED
  BY <1>1, <1>2

LEMMA AfterRestoreShape ==
  ASSUME TypeOK, NEW restored \in BOOLEAN, AfterRestore(restored), tx.phase = "restore"
  PROVE  \/ tx.idx < tx.replaced /\ Keeps("restore", tx.idx + 1) /\ tx'.restored = restored
         \/ ~(tx.idx < tx.replaced) /\ Keeps("recover", 1) /\ tx'.restored = restored
         \/ ~(tx.idx < tx.replaced) /\ tx' = NoTx /\ tx.touched = 0 /\ Finish(Result(restored))
<1>1. CASE tx.idx < tx.replaced
  BY <1>1, ZenonT(60) DEF AfterRestore, Keeps, TypeOK, TxType
<1>2. CASE ~(tx.idx < tx.replaced) /\ tx.touched > 0
  BY <1>2, ZenonT(60) DEF AfterRestore, Keeps, TypeOK, TxType
<1>3. CASE ~(tx.idx < tx.replaced) /\ ~(tx.touched > 0)
  BY <1>3, FieldTypes DEF AfterRestore, Finish
<1> QED
  BY <1>1, <1>2, <1>3

LEMMA AfterRecoverShape ==
  ASSUME TypeOK, NEW restored \in BOOLEAN, AfterRecover(restored)
  PROVE  \/ Keeps("recover", tx.idx + 1) /\ tx'.restored = restored
         \/ tx' = NoTx /\ ~(tx.idx < tx.touched) /\ Finish(Result(restored))
<1>1. CASE tx.idx < tx.touched
  BY <1>1 DEF AfterRecover, Keeps, TypeOK, TxType
<1>2. CASE ~(tx.idx < tx.touched)
  BY <1>2 DEF AfterRecover, Finish
<1> QED
  BY <1>1, <1>2

-----------------------------------------------------------------------------
ShownSame == \A c \in Cores : Shown'[c] = Shown[c]

\* The transaction ends and the files are what they were committed to.
LEMMA EndFiles ==
  ASSUME TypeOK, FileInv, tx' = NoTx, UNCHANGED db,
         \A c \in Cores : disk'[c] = Shown[c]
  PROVE  FileInv' /\ ShownSame
<1>1. \A c \in Cores : Shown[c] <= db
  BY DEF FileInv, Shown
<1>2. ShownSame
  BY NoTxFields DEF ShownSame, Shown
<1> QED
  BY <1>1, <1>2, NoTxFields DEF FileInv, TypeOK, NoFile, InFlight

LEMMA AbortFiles ==
  ASSUME TypeOK, FileInv, NEW cancelled \in BOOLEAN, Abort(cancelled), UNCHANGED <<db, disk>>,
         tx.phase \in {"read", "validate"} \cup InFlight
  PROVE  FileInv' /\ ShownSame
<1>1. CASE tx.replaced = 0 /\ tx' = NoTx
  <2>1. \A c \in Cores : disk[c] = Shown[c]
    BY <1>1, CoreIndex DEF FileInv, Shown, InFlight, Cores
  <2> QED
    BY <1>1, <2>1, EndFiles
<1>2. CASE tx.replaced > 0 /\ Keeps("restore", 1)
  <2>1. tx.phase \in InFlight
    BY <1>2 DEF FileInv
  <2>2. \A c \in Cores : 1 <= c /\ c \in Nat
    BY DEF Cores
  <2>3. ShownSame
    BY <1>2, <2>1, <2>2, FieldTypes, CoreIndex
       DEF ShownSame, Shown, FileInv, Keeps, InFlight
  <2> QED
    BY <1>2, <2>1, <2>3, FieldTypes, CoreIndex DEF FileInv, Keeps, InFlight
<1> QED
  BY <1>1, <1>2, AbortShape

LEMMA RestoreInv ==
  ASSUME TypeOK, FileInv, NEW restored \in BOOLEAN, AfterRestore(restored),
         tx.phase = "restore", UNCHANGED db,
         \A c \in Cores : disk'[c] \in {disk[c], tx.orig[c]}
  PROVE  FileInv'
<1>1. \A c \in Cores : disk'[c] <= db
  BY DEF FileInv
<1>2. CASE tx' = NoTx
  BY <1>1, <1>2, NoTxFields DEF FileInv, TypeOK, NoFile, InFlight
<1>3. CASE tx.idx < tx.replaced /\ Keeps("restore", tx.idx + 1)
  BY <1>1, <1>3, FieldTypes, CoreIndex DEF FileInv, Keeps, InFlight
<1>4. CASE Keeps("recover", 1)
  BY <1>1, <1>4 DEF FileInv, Keeps, InFlight
<1> QED
  BY <1>2, <1>3, <1>4, AfterRestoreShape

LEMMA RestoreShown ==
  ASSUME TypeOK, FileInv, Restore
  PROVE  ShownSame
<1>1. AfterRestore(tx.restored) /\ tx.phase = "restore" /\ tx.idx <= tx.replaced
  BY DEF Restore, FileInv
<1>2. \A c \in Cores : disk'[c] = IF c = tx.idx THEN tx.orig[c] ELSE disk[c]
  BY DEF Restore, TypeOK
<1>3. \A c \in Cores : c \in Nat
  BY CoreIndex
<1>4. tx.idx \in Nat /\ tx.replaced \in Nat
  BY FieldTypes, CoreIndex
<1>5. CASE tx.idx < tx.replaced /\ Keeps("restore", tx.idx + 1)
  BY <1>1, <1>2, <1>3, <1>4, <1>5 DEF ShownSame, Shown, Keeps
<1>6. CASE ~(tx.idx < tx.replaced) /\ (Keeps("recover", 1) \/ tx' = NoTx)
  BY <1>1, <1>2, <1>3, <1>4, <1>6, NoTxFields DEF ShownSame, Shown, Keeps
<1> QED
  BY <1>1, <1>5, <1>6, FieldTypes, AfterRestoreShape

LEMMA RecoverFiles ==
  ASSUME TypeOK, FileInv, NEW restored \in BOOLEAN, AfterRecover(restored),
         tx.phase \in {"recover", "reinspect"}, UNCHANGED <<db, disk>>
  PROVE  FileInv' /\ ShownSame
<1>1. CASE tx' = NoTx
  <2>1. \A c \in Cores : disk[c] = Shown[c]
    BY DEF Shown
  <2> QED
    BY <1>1, <2>1, EndFiles
<1>2. CASE Keeps("recover", tx.idx + 1)
  BY <1>2 DEF FileInv, Keeps, InFlight, ShownSame, Shown
<1> QED
  BY <1>1, <1>2, AfterRecoverShape

\* A step that leaves the files and the transaction's part in them alone.
LEMMA IdleFiles ==
  ASSUME TypeOK, TypeOK', FileInv, UNCHANGED <<tx, disk>>, db <= db'
  PROVE  FileInv' /\ ShownSame
<1>1. \A c \in Cores : disk[c] <= db' /\ tx.orig[c] <= db'
  <2> SUFFICES ASSUME NEW c \in Cores
               PROVE  disk[c] <= db' /\ tx.orig[c] <= db'
    OBVIOUS
  <2>1. disk[c] \in Int /\ tx.orig[c] \in Int /\ db \in Int /\ db' \in Int
    BY FieldTypes DEF TypeOK, Content, NoFile
  <2> QED
    BY <2>1 DEF FileInv
<1>2. tx.cand <= db'
  BY FieldTypes DEF FileInv, TypeOK
<1> QED
  BY <1>1, <1>2 DEF FileInv, ShownSame, Shown

\* The last inspection commits: every file shows the candidate from now on.
LEMMA CommitFiles ==
  ASSUME TypeOK, FileInv, InspectReady, ~(tx.idx < NumCores)
  PROVE  FileInv' /\ \A c \in Cores : Shown'[c] = tx.cand /\ Shown[c] <= tx.cand
<1>1. tx' = NoTx /\ UNCHANGED <<db, disk>> /\ tx.phase = "inspect"
  BY DEF InspectReady, Finish, coreVars
<1>2. \A c \in Cores : c <= NumCores
  BY CoreIndex, ConstantsAssumption DEF Cores
<1>3. \A c \in Cores : disk[c] = tx.cand /\ tx.orig[c] <= tx.cand
  BY <1>1, <1>2 DEF FileInv, InFlight
<1>4. FileInv'
  BY <1>1, NoTxFields DEF FileInv, TypeOK, NoFile, InFlight
<1> QED
  BY <1>1, <1>3, <1>4, NoTxFields DEF Shown

\* Steps inside a transaction that succeed without ending it.
LEMMA ForwardFiles ==
  ASSUME TypeOK, FileInv, Stage \/ Backup \/ Replace \/ Restart \/ Recover
  PROVE  FileInv' /\ ShownSame
<1> USE DEF coreVars, envVars
<1>1. CASE Stage
  <2>1. /\ tx'.phase = "validate" /\ tx'.orig = disk /\ tx'.cand = tx.cand
        /\ tx'.replaced = tx.replaced /\ UNCHANGED <<db, disk>> /\ tx.phase = "stage"
    BY <1>1 DEF Stage, TypeOK, TxType
  <2>2. \A c \in Cores : ~(c <= 0)
    BY CoreIndex DEF Cores
  <2> QED
    BY <2>1, <2>2 DEF FileInv, InFlight, ShownSame, Shown
<1>2. CASE Backup
  <2>1. Keeps("replace", tx.idx) /\ UNCHANGED <<db, disk>> /\ tx.phase = "backup"
    BY <1>2 DEF Backup, Keeps, TypeOK, TxType
  <2> QED
    BY <2>1 DEF FileInv, InFlight, ShownSame, Shown, Keeps
<1>3. CASE Replace
  <2>1. /\ tx.phase = "replace" /\ UNCHANGED db /\ tx'.orig = tx.orig /\ tx'.cand = tx.cand
        /\ tx'.replaced = tx.idx
        /\ \/ tx'.phase = "backup" /\ tx'.idx = tx.idx + 1 /\ tx.idx < NumCores
           \/ tx'.phase = "restart" /\ ~(tx.idx < NumCores)
    BY <1>3 DEF Replace, TypeOK, TxType
  <2>2. \A c \in Cores : disk'[c] = IF c = tx.idx THEN tx.cand ELSE disk[c]
    BY <1>3 DEF Replace, TypeOK
  <2>3. \A c \in Cores : disk'[c] = IF c <= tx.idx THEN tx.cand ELSE tx.orig[c]
    BY <2>1, <2>2, FieldTypes, CoreIndex DEF FileInv, InFlight
  <2>4. tx.idx \in Nat /\ tx.idx <= NumCores /\ NumCores \in Nat
    BY FieldTypes, ConstantsAssumption DEF Cores
  <2>5. \A c \in Cores : tx.orig[c] <= tx.cand
    BY <2>1 DEF FileInv, InFlight
  <2>6. ShownSame
    BY <2>1 DEF ShownSame, Shown
  <2>7. \A c \in Cores : disk'[c] <= db
    BY <2>3, <2>5 DEF FileInv
  <2> QED
    BY <2>1, <2>3, <2>4, <2>5, <2>6, <2>7 DEF FileInv, InFlight
<1>4. CASE Restart
  <2>1. Keeps("inspect", tx.idx) /\ UNCHANGED <<db, disk>> /\ tx.phase = "restart"
    BY <1>4 DEF Restart, Keeps, TypeOK, TxType
  <2> QED
    BY <2>1 DEF FileInv, InFlight, ShownSame, Shown, Keeps
<1>5. CASE Recover
  <2>1. Keeps("reinspect", tx.idx) /\ UNCHANGED <<db, disk>> /\ tx.phase = "recover"
    BY <1>5 DEF Recover, Keeps, TypeOK, TxType
  <2> QED
    BY <2>1 DEF FileInv, InFlight, ShownSame, Shown, Keeps
<1> QED
  BY <1>1, <1>2, <1>3, <1>4, <1>5

LEMMA ValidateFiles ==
  ASSUME TypeOK, FileInv, tx.phase = "validate", NEW valid \in BOOLEAN,
         NextValidation(valid), UNCHANGED <<db, disk>>
  PROVE  FileInv' /\ ShownSame
<1>1. \A c \in Cores : Shown[c] = disk[c] /\ disk[c] = tx.orig[c]
  BY CoreIndex DEF Shown, FileInv, Cores
<1>2. CASE tx.idx < NumCores
  <2>1. Keeps("validate", tx.idx + 1)
    BY <1>2 DEF NextValidation, Keeps, TypeOK, TxType
  <2> QED
    BY <2>1 DEF FileInv, InFlight, ShownSame, Shown, Keeps
<1>3. CASE ~(tx.idx < NumCores) /\ valid
  <2>1. Keeps("backup", 1)
    BY <1>3 DEF NextValidation, Keeps, TypeOK, TxType
  <2> QED
    BY <1>1, <2>1 DEF FileInv, InFlight, ShownSame, Shown, Keeps
<1>4. CASE ~(tx.idx < NumCores) /\ ~valid
  BY <1>1, <1>4, EndFiles DEF NextValidation, Finish
<1> QED
  BY <1>2, <1>3, <1>4

LEMMA ReadFiles ==
  ASSUME TypeOK, FileInv, ReadNode
  PROVE  FileInv' /\ ShownSame
<1>1. tx.phase = "read" /\ UNCHANGED <<db, disk>>
  BY DEF ReadNode, coreVars
<1>2. CASE tx' = [tx EXCEPT !.phase = "stage", !.cand = db]
  <2>1. /\ tx'.phase = "stage" /\ tx'.cand = db /\ tx'.orig = tx.orig
        /\ tx'.replaced = tx.replaced
    BY <1>2 DEF TypeOK, TxType
  <2> QED
    BY <1>1, <2>1 DEF FileInv, InFlight, ShownSame, Shown, TypeOK
<1>3. CASE tx' = NoTx
  BY <1>1, <1>3, EndFiles DEF Shown
<1> QED
  BY <1>2, <1>3 DEF ReadNode, Finish

\* What ConfigSwitch lets a step do to the files it sees.
ShownStep == \/ ShownSame /\ UNCHANGED tears
             \/ /\ \A c \in Cores : Shown'[c] = tx.cand /\ Shown[c] <= tx.cand
                /\ UNCHANGED tears
             \/ tears' = tears + 1

LEMMA ProgressFiles ==
  ASSUME TypeOK, FileInv, Progress
  PROVE  FileInv' /\ ShownStep
<1> USE DEF coreVars, envVars
<1>1. CASE Stage \/ Backup \/ Replace \/ Restart \/ Recover
  BY <1>1, ForwardFiles DEF ShownStep, Stage, Backup, Replace, Restart, Recover
<1>2. CASE ReadNode
  BY <1>2, ReadFiles DEF ShownStep, ReadNode
<1>3. CASE ValidateAccepts
  BY <1>3, ValidateFiles, FieldTypes DEF ShownStep, ValidateAccepts
<1>4. CASE InspectReady
  <2>1. CASE tx.idx < NumCores
    <3>1. /\ tx.phase = "inspect" /\ tx'.phase = "restart" /\ tx'.orig = tx.orig
          /\ tx'.cand = tx.cand /\ tx'.replaced = tx.replaced
          /\ UNCHANGED <<db, disk, tears>>
      BY <1>4, <2>1 DEF InspectReady, TypeOK, TxType
    <3> QED
      BY <3>1 DEF FileInv, InFlight, ShownStep, ShownSame, Shown
  <2>2. CASE ~(tx.idx < NumCores)
    BY <1>4, <2>2, CommitFiles DEF ShownStep, InspectReady
  <2> QED
    BY <2>1, <2>2
<1>5. CASE InspectDown
  <2>1. Abort(FALSE) /\ FALSE \in BOOLEAN /\ tx.phase = "inspect"
        /\ UNCHANGED <<db, disk, tears>>
    BY <1>5 DEF InspectDown
  <2> QED
    BY <2>1, AbortFiles DEF ShownStep, InFlight
<1>6. CASE Restore
  <2>1. \A c \in Cores : disk'[c] \in {disk[c], tx.orig[c]}
    BY <1>6, FieldTypes DEF Restore, TypeOK
  <2>2. AfterRestore(tx.restored) /\ tx.phase = "restore" /\ UNCHANGED <<db, tears>>
    BY <1>6 DEF Restore
  <2> QED
    BY <1>6, <2>1, <2>2, FieldTypes, RestoreInv, RestoreShown DEF ShownStep
<1>7. CASE ReinspectReady \/ ReinspectDown
  <2>1. /\ AfterRecover(tx.restored) \/ AfterRecover(FALSE)
        /\ FALSE \in BOOLEAN /\ tx.restored \in BOOLEAN
        /\ tx.phase = "reinspect" /\ UNCHANGED <<db, disk, tears>>
    BY <1>7, FieldTypes DEF ReinspectReady, ReinspectDown
  <2> QED
    BY <2>1, RecoverFiles DEF ShownStep
<1> QED
  BY <1>1, <1>2, <1>3, <1>4, <1>5, <1>6, <1>7 DEF Progress

LEMMA FailureFiles ==
  ASSUME TypeOK, FileInv, Failure
  PROVE  FileInv' /\ ShownStep
<1> USE DEF coreVars, Fault
<1>1. CASE ReadFails \/ StageFails \/ ValidateRaises
  <2>1. /\ tx' = NoTx /\ tx.phase \in {"read", "stage", "validate"}
        /\ UNCHANGED <<db, disk, tears>>
    BY <1>1 DEF ReadFails, StageFails, ValidateRaises, Finish
  <2>2. \A c \in Cores : disk'[c] = Shown[c]
    BY <2>1 DEF Shown
  <2> QED
    BY <2>1, <2>2, EndFiles DEF ShownStep
<1>2. CASE ValidateRejects
  <2>1. /\ NextValidation(FALSE) /\ FALSE \in BOOLEAN /\ tx.phase = "validate"
        /\ UNCHANGED <<db, disk, tears>>
    BY <1>2 DEF ValidateRejects
  <2> QED
    BY <2>1, ValidateFiles DEF ShownStep
<1>3. CASE ReplaceFails \/ RestartFails \/ InspectFails
  <2>1. /\ Abort(FALSE) /\ FALSE \in BOOLEAN /\ tx.phase \in InFlight
        /\ UNCHANGED <<db, disk, tears>>
    BY <1>3 DEF ReplaceFails, RestartFails, InspectFails, InFlight
  <2> QED
    BY <2>1, AbortFiles DEF ShownStep
<1>4. CASE RestoreFails
  <2>1. /\ AfterRestore(FALSE) /\ FALSE \in BOOLEAN /\ tx.phase = "restore"
        /\ UNCHANGED <<db, disk>> /\ tears' = tears + 1
    BY <1>4 DEF RestoreFails
  <2> QED
    BY <2>1, RestoreInv DEF ShownStep
<1>5. CASE RecoverFails \/ ReinspectFails
  <2>1. /\ AfterRecover(FALSE) /\ FALSE \in BOOLEAN
        /\ tx.phase \in {"recover", "reinspect"} /\ UNCHANGED <<db, disk, tears>>
    BY <1>5 DEF RecoverFails, ReinspectFails
  <2> QED
    BY <2>1, RecoverFiles DEF ShownStep
<1>6. CASE Cancel
  <2>1. UNCHANGED <<db, disk, tears>>
    BY <1>6 DEF Cancel
  <2>2. CASE tx' = NoTx /\ tx.phase \in {"recover", "reinspect"}
    <3>1. \A c \in Cores : disk'[c] = Shown[c]
      BY <2>1, <2>2 DEF Shown
    <3> QED
      BY <2>1, <2>2, <3>1, EndFiles DEF ShownStep
  <2>3. CASE Abort(TRUE) /\ TRUE \in BOOLEAN /\ tx.phase \in {"read", "validate"} \cup InFlight
    BY <2>1, <2>3, AbortFiles DEF ShownStep
  <2> QED
    BY <1>6, <2>2, <2>3 DEF Cancel, Finish, InFlight
<1> QED
  BY <1>1, <1>2, <1>3, <1>4, <1>5, <1>6 DEF Failure

LEMMA OthersFiles ==
  ASSUME TypeOK, TypeOK', FileInv, LockInv,
         Environment \/ UNCHANGED vars \/ \E t \in Tasks : Requests(t) \/ AcquireLock(t)
  PROVE  FileInv' /\ ShownStep
<1> USE DEF coreVars, envVars, Fault
<1>1. CASE UNCHANGED <<tx, disk, tears>> /\ db <= db'
  BY <1>1, IdleFiles DEF ShownStep
<1>2. CASE Crash
  BY <1>2, NoTxFields DEF Crash, FileInv, InFlight, TypeOK, NoFile, ShownStep
<1>3. ASSUME NEW t \in Tasks, AcquireLock(t)
      PROVE  FileInv' /\ ShownStep
  <2>1. /\ tx'.phase = "read" /\ tx'.cand = 0 /\ tx'.replaced = 0
        /\ \A c \in Cores : tx'.orig[c] = NoFile
    BY <1>3 DEF AcquireLock, NoTx
  <2>2. FileInv'
    BY <1>3, <2>1 DEF AcquireLock, FileInv, InFlight, TypeOK, NoFile
  <2> QED
    BY <1>3, <2>1, <2>2 DEF AcquireLock, ShownStep, ShownSame, Shown, InFlight, LockInv
<1>4. ASSUME NEW t \in Tasks, Requests(t) \/ CancelWaiting(t)
      PROVE  UNCHANGED <<tx, disk, tears>> /\ db <= db'
  BY <1>4 DEF Requests, ChangeProtocols, ChangeRemoteProtocols, RequestSync, Ask,
              CancelWaiting, TypeOK
<1>5. ASSUME NEW c \in Cores, RestartOutsideLock(c) \/ CoreStops(c)
      PROVE  UNCHANGED <<tx, disk, tears>> /\ db <= db'
  BY <1>5 DEF RestartOutsideLock, CoreStops, TypeOK
<1>6. CASE UNCHANGED vars
  BY <1>1, <1>6 DEF vars, TypeOK
<1> QED
  BY <1>1, <1>2, <1>3, <1>4, <1>5, <1>6 DEF Environment

\* ConfigSwitch: files move together and forward, except where something is
\* torn.
THEOREM ImplementsConfigSwitch == Spec => SwitchesTogether
<1>1. Init => FileInv /\ LockInv /\ Switch!Init
  BY NoTxFields DEF Init, FileInv, LockInv, InFlight, NoFile, Switch!Init, Switch!Cores, Shown, Cores
<1>2. TypeOK /\ TypeOK' /\ FileInv /\ LockInv /\ [Next]_vars => FileInv' /\ LockInv'
  BY ProgressFiles, FailureFiles, OthersFiles, LockStep DEF Next
<1>3. TypeOK /\ TypeOK' /\ FileInv /\ LockInv /\ [Next]_vars
        => [Switch!Switch \/ Switch!Tear]_<<Shown, tears>>
  <2> SUFFICES ASSUME TypeOK, TypeOK', FileInv, LockInv, [Next]_vars
               PROVE  [Switch!Switch \/ Switch!Tear]_<<Shown, tears>>
    OBVIOUS
  <2>1. ShownStep
    BY ProgressFiles, FailureFiles, OthersFiles DEF Next
  <2>2. CASE ShownSame /\ UNCHANGED tears
    <3>1. Shown' = Shown
      BY <2>2 DEF ShownSame, Shown
    <3> QED
      BY <2>2, <3>1
  <2>3. CASE /\ \A c \in Cores : Shown'[c] = tx.cand /\ Shown[c] <= tx.cand
             /\ UNCHANGED tears
    BY <2>3 DEF Switch!Switch, Switch!Cores, Cores
  <2>4. CASE tears' = tears + 1
    <3>1. Shown' \in [Cores -> Int]
      BY FieldTypes DEF Shown, TypeOK, TxType, Content, NoFile
    <3> QED
      BY <2>4, <3>1 DEF Switch!Tear, Switch!Cores, Cores
  <2> QED
    BY <2>1, <2>2, <2>3, <2>4 DEF ShownStep
<1> QED
  BY <1>1, <1>2, <1>3, TypeCorrect, PTL DEF Spec, SwitchesTogether, Switch!Spec

-----------------------------------------------------------------------------
(* CoreInv is inductive, given what FileInv says of the files.               *)

\* What an aborted or committed transaction leaves holds trivially.
LEMMA NoTxCores ==
  ASSUME tx' = NoTx
  PROVE  CoreInv'
  BY NoTxFields DEF CoreInv

\* A core started now, by anybody, runs what the transaction wants it to.
LEMMA LoadedCore ==
  ASSUME TypeOK, FileInv, CoreInv, NEW c \in Cores
  PROVE  /\ tx.phase \in {"restart", "inspect"} => Loaded(c) = tx.cand
         /\ tx.phase \in {"recover", "reinspect"} /\ tx.restored =>
               Loaded(c) \in {tx.orig[c], Down}
<1>1. CASE tx.phase \in {"restart", "inspect"}
  <2>1. c <= NumCores
    BY CoreIndex
  <2>2. disk[c] = tx.cand
    BY <1>1, <2>1 DEF FileInv, InFlight
  <2> QED
    BY <1>1, <2>2, FieldTypes DEF Loaded, NoFile
<1>2. CASE tx.phase \in {"recover", "reinspect"}
  BY <1>2 DEF CoreInv, Loaded
<1> QED
  BY <1>1, <1>2

\* Cores started or stopped by others while the transaction stands still.
LEMMA OutsideCores ==
  ASSUME TypeOK, FileInv, CoreInv, UNCHANGED <<tx, disk>>,
         \A c \in Cores : run'[c] \in {run[c], Loaded(c), Down}
  PROVE  CoreInv'
<1>1. ASSUME NEW c \in Cores, tx.phase \in {"restart", "inspect"}, run[c] \in {tx.cand, Down}
      PROVE  run'[c] \in {tx.cand, Down}
  BY <1>1, LoadedCore
<1>2. ASSUME NEW c \in Cores, tx.phase \in {"recover", "reinspect"}, tx.restored,
             run[c] \in {tx.orig[c], Down}
      PROVE  run'[c] \in {tx.orig[c], Down}
  BY <1>2, LoadedCore
<1> QED
  BY <1>1, <1>2 DEF CoreInv

LEMMA AbortCores ==
  ASSUME TypeOK, FileInv, NEW cancelled \in BOOLEAN, Abort(cancelled), UNCHANGED disk,
         tx.phase \in {"read", "validate"} \cup InFlight
  PROVE  CoreInv'
<1>1. CASE tx.replaced > 0 /\ Keeps("restore", 1)
  <2>1. tx.phase \in InFlight
    BY <1>1 DEF FileInv
  <2>2. \A c \in Cores : ~(c < 1) /\ (tx.replaced < c => disk[c] = tx.orig[c])
    BY <2>1, FieldTypes, CoreIndex DEF FileInv, Cores
  <2> QED
    BY <1>1, <2>2 DEF CoreInv, Keeps
<1> QED
  BY <1>1, AbortShape, NoTxCores

LEMMA ProgressCores ==
  ASSUME TypeOK, FileInv, CoreInv, Progress
  PROVE  CoreInv'
<1> USE DEF coreVars, envVars
<1>1. CASE Stage \/ Backup
  <2>1. tx'.phase \in {"validate", "replace"}
    BY <1>1 DEF Stage, Backup, TypeOK, TxType
  <2> QED
    BY <2>1 DEF CoreInv
<1>2. CASE ReadNode
  <2>1. CASE tx'.phase = "stage"
    BY <2>1 DEF CoreInv
  <2> QED
    BY <1>2, <2>1, NoTxCores DEF ReadNode, Finish, TypeOK, TxType
<1>3. CASE ValidateAccepts
  <2>1. CASE tx'.phase \in {"validate", "backup"}
    BY <2>1 DEF CoreInv
  <2>2. CASE tx.idx < NumCores
    <3>1. tx'.phase = "validate"
      BY <1>3, <2>2 DEF ValidateAccepts, NextValidation, TypeOK, TxType
    <3> QED
      BY <2>1, <3>1
  <2>3. CASE ~(tx.idx < NumCores) /\ tx.valid
    <3>1. tx'.phase = "backup"
      BY <1>3, <2>3 DEF ValidateAccepts, NextValidation, TypeOK, TxType
    <3> QED
      BY <2>1, <3>1
  <2>4. CASE ~(tx.idx < NumCores) /\ ~tx.valid
    BY <1>3, <2>4, NoTxCores DEF ValidateAccepts, NextValidation, Finish
  <2> QED
    BY <2>2, <2>3, <2>4
<1>4. CASE Replace
  <2>1. \/ tx'.phase = "backup" /\ tx'.idx = tx.idx + 1
        \/ tx'.phase = "restart" /\ tx'.idx = 1
    BY <1>4 DEF Replace, TypeOK, TxType
  <2>2. \A c \in Cores : ~(c < 1)
    BY DEF Cores
  <2> QED
    BY <2>1, <2>2 DEF CoreInv
<1>5. CASE Restart
  <2>1. Keeps("inspect", tx.idx) /\ tx.phase = "restart"
    BY <1>5 DEF Restart, Keeps, TypeOK, TxType
  <2>2. \A c \in Cores : c <= tx.idx => run'[c] \in {tx.cand, Down}
    <3> SUFFICES ASSUME NEW c \in Cores, c <= tx.idx
                 PROVE  run'[c] \in {tx.cand, Down}
      OBVIOUS
    <3>1. CASE c = tx.idx
      BY <1>5, <2>1, <3>1, LoadedCore DEF Restart, TypeOK
    <3>2. CASE c < tx.idx
      <4>1. run'[c] = run[c]
        BY <1>5, <3>2, FieldTypes, CoreIndex DEF Restart, TypeOK
      <4> QED
        BY <2>1, <3>2, <4>1 DEF CoreInv
    <3> QED
      BY <3>1, <3>2, FieldTypes, CoreIndex
  <2> QED
    BY <2>1, <2>2 DEF CoreInv, Keeps
<1>6. CASE InspectReady
  <2>1. CASE tx.idx < NumCores
    <3>1. /\ tx.phase = "inspect" /\ tx'.phase = "restart" /\ tx'.idx = tx.idx + 1
          /\ tx'.cand = tx.cand /\ UNCHANGED run
      BY <1>6, <2>1 DEF InspectReady, TypeOK, TxType
    <3>2. \A c \in Cores : c < tx.idx + 1 => c <= tx.idx
      BY FieldTypes, CoreIndex
    <3> QED
      BY <3>1, <3>2 DEF CoreInv
  <2>2. CASE ~(tx.idx < NumCores)
    BY <1>6, <2>2, NoTxCores DEF InspectReady, Finish
  <2> QED
    BY <2>1, <2>2
<1>7. CASE InspectDown
  <2>1. Abort(FALSE) /\ FALSE \in BOOLEAN /\ tx.phase \in InFlight /\ UNCHANGED disk
    BY <1>7 DEF InspectDown, InFlight
  <2> QED
    BY <2>1, AbortCores
<1>8. CASE Restore
  <2>1. AfterRestore(tx.restored) /\ tx.phase = "restore"
    BY <1>8 DEF Restore
  <2>2. \A c \in Cores : disk'[c] = IF c = tx.idx THEN tx.orig[c] ELSE disk[c]
    BY <1>8 DEF Restore, TypeOK
  <2>3. tx.restored => \A c \in Cores : c <= tx.idx \/ tx.replaced < c => disk'[c] = tx.orig[c]
    BY <2>1, <2>2, FieldTypes, CoreIndex DEF CoreInv
  <2>4. \A c \in Cores : c < tx.idx + 1 => c <= tx.idx
    BY FieldTypes, CoreIndex
  <2>5. CASE Keeps("restore", tx.idx + 1) /\ tx'.restored = tx.restored
    BY <2>3, <2>4, <2>5 DEF CoreInv, Keeps
  <2>6. CASE ~(tx.idx < tx.replaced) /\ Keeps("recover", 1) /\ tx'.restored = tx.restored
    <3>1. \A c \in Cores : c <= tx.idx \/ tx.replaced < c
      BY <2>6, FieldTypes, CoreIndex
    <3>2. tx.restored => disk' = tx.orig
      BY <1>8, <2>3, <3>1, FieldTypes DEF Restore, TypeOK
    <3>3. \A c \in Cores : ~(c < 1)
      BY DEF Cores
    <3> QED
      BY <2>6, <3>2, <3>3 DEF CoreInv, Keeps
  <2> QED
    BY <2>1, <2>5, <2>6, FieldTypes, AfterRestoreShape, NoTxCores
<1>9. CASE Recover
  <2>1. Keeps("reinspect", tx.idx) /\ tx'.restored = tx.restored /\ tx.phase = "recover"
        /\ UNCHANGED disk
    BY <1>9 DEF Recover, Keeps, TypeOK, TxType
  <2>2. tx.restored => \A c \in Cores : c <= tx.idx => run'[c] \in {tx.orig[c], Down}
    <3> SUFFICES ASSUME tx.restored, NEW c \in Cores, c <= tx.idx
                 PROVE  run'[c] \in {tx.orig[c], Down}
      OBVIOUS
    <3>1. CASE c = tx.idx
      BY <1>9, <2>1, <3>1, LoadedCore DEF Recover, TypeOK
    <3>2. CASE c < tx.idx
      <4>1. run'[c] = run[c]
        BY <1>9, <3>2, FieldTypes, CoreIndex DEF Recover, TypeOK
      <4> QED
        BY <2>1, <3>2, <4>1 DEF CoreInv
    <3> QED
      BY <3>1, <3>2, FieldTypes, CoreIndex
  <2> QED
    BY <2>1, <2>2 DEF CoreInv, Keeps
<1>10. CASE ReinspectReady
  <2>1. AfterRecover(tx.restored) /\ tx.phase = "reinspect" /\ UNCHANGED <<disk, run>>
    BY <1>10 DEF ReinspectReady
  <2>2. CASE Keeps("recover", tx.idx + 1) /\ tx'.restored = tx.restored
    <3>1. \A c \in Cores : c < tx.idx + 1 => c <= tx.idx
      BY FieldTypes, CoreIndex
    <3> QED
      BY <2>1, <2>2, <3>1 DEF CoreInv, Keeps
  <2> QED
    BY <2>1, <2>2, FieldTypes, AfterRecoverShape, NoTxCores
<1>11. CASE ReinspectDown
  <2>1. AfterRecover(FALSE) /\ FALSE \in BOOLEAN
    BY <1>11 DEF ReinspectDown
  <2>2. CASE tx'.phase = "recover" /\ tx'.restored = FALSE
    BY <2>2 DEF CoreInv
  <2> QED
    BY <2>1, <2>2, AfterRecoverShape, NoTxCores DEF Keeps
<1> QED
  BY <1>1, <1>2, <1>3, <1>4, <1>5, <1>6, <1>7, <1>8, <1>9, <1>10, <1>11 DEF Progress

LEMMA FailureCores ==
  ASSUME TypeOK, FileInv, CoreInv, Failure
  PROVE  CoreInv'
<1> USE DEF coreVars, Fault
<1>1. CASE ReadFails \/ StageFails \/ ValidateRaises
  BY <1>1, NoTxCores DEF ReadFails, StageFails, ValidateRaises, Finish
<1>2. CASE ValidateRejects
  <2>1. CASE tx.idx < NumCores
    <3>1. tx'.phase = "validate"
      BY <1>2, <2>1 DEF ValidateRejects, NextValidation, TypeOK, TxType
    <3> QED
      BY <3>1 DEF CoreInv
  <2>2. CASE ~(tx.idx < NumCores)
    BY <1>2, <2>2, NoTxCores DEF ValidateRejects, NextValidation, Finish
  <2> QED
    BY <2>1, <2>2
<1>3. CASE ReplaceFails \/ RestartFails \/ InspectFails
  <2>1. Abort(FALSE) /\ FALSE \in BOOLEAN /\ tx.phase \in InFlight /\ UNCHANGED disk
    BY <1>3 DEF ReplaceFails, RestartFails, InspectFails, InFlight
  <2> QED
    BY <2>1, AbortCores
<1>4. CASE RestoreFails
  <2>1. AfterRestore(FALSE) /\ FALSE \in BOOLEAN /\ tx.phase = "restore"
    BY <1>4 DEF RestoreFails
  <2>2. CASE tx'.phase \in {"restore", "recover"} /\ tx'.restored = FALSE
    BY <2>2 DEF CoreInv
  <2> QED
    BY <2>1, <2>2, AfterRestoreShape, NoTxCores DEF Keeps
<1>5. CASE RecoverFails \/ ReinspectFails
  <2>1. AfterRecover(FALSE) /\ FALSE \in BOOLEAN
    BY <1>5 DEF RecoverFails, ReinspectFails
  <2>2. CASE tx'.phase = "recover" /\ tx'.restored = FALSE
    BY <2>2 DEF CoreInv
  <2> QED
    BY <2>1, <2>2, AfterRecoverShape, NoTxCores DEF Keeps
<1>6. CASE Cancel
  <2>1. CASE Finish("raised")
    BY <2>1, NoTxCores DEF Finish
  <2>2. CASE /\ Abort(TRUE) /\ TRUE \in BOOLEAN /\ UNCHANGED disk
             /\ tx.phase \in {"read", "validate"} \cup InFlight
    BY <2>2, AbortCores
  <2> QED
    BY <1>6, <2>1, <2>2 DEF Cancel, InFlight
<1> QED
  BY <1>1, <1>2, <1>3, <1>4, <1>5, <1>6 DEF Failure

LEMMA OthersCores ==
  ASSUME TypeOK, FileInv, CoreInv,
         Environment \/ UNCHANGED vars \/ \E t \in Tasks : Requests(t) \/ AcquireLock(t)
  PROVE  CoreInv'
<1> USE DEF coreVars, envVars, Fault
<1>1. ASSUME NEW c \in Cores, RestartOutsideLock(c) \/ CoreStops(c)
      PROVE  CoreInv'
  <2>1. \A d \in Cores : run'[d] \in {run[d], Loaded(d), Down}
    BY <1>1 DEF RestartOutsideLock, CoreStops, TypeOK
  <2> QED
    BY <1>1, <2>1, OutsideCores DEF RestartOutsideLock, CoreStops
<1>2. CASE Crash
  BY <1>2, NoTxCores DEF Crash
<1>3. ASSUME NEW t \in Tasks, AcquireLock(t)
      PROVE  CoreInv'
  <2>1. tx'.phase = "read"
    BY <1>3 DEF AcquireLock, NoTx
  <2> QED
    BY <2>1 DEF CoreInv
<1>4. CASE UNCHANGED <<tx, disk, run>>
  BY <1>4, OutsideCores
<1>5. ASSUME NEW t \in Tasks, Requests(t) \/ CancelWaiting(t)
      PROVE  UNCHANGED <<tx, disk, run>>
  BY <1>5 DEF Requests, ChangeProtocols, ChangeRemoteProtocols, RequestSync, Ask, CancelWaiting
<1>6. CASE UNCHANGED vars
  BY <1>4, <1>6 DEF vars
<1> QED
  BY <1>1, <1>2, <1>3, <1>4, <1>5, <1>6 DEF Environment

-----------------------------------------------------------------------------
(* What the results mean when they are reported.                             *)

\* Only the transaction itself ends a sync, short of the process dying.
LEMMA WhoEnds ==
  ASSUME TypeOK, [Next]_vars, NEW result, Ends(result)
  PROVE  Progress \/ Failure
<1>1. holder' # holder /\ holder # NoTask /\ crashes' = crashes /\ crashes \in Nat
  BY DEF Ends, TypeOK
<1>2. ASSUME NEW t \in Tasks, Requests(t) \/ AcquireLock(t) \/ CancelWaiting(t)
      PROVE  FALSE
  BY <1>1, <1>2 DEF Requests, ChangeProtocols, ChangeRemoteProtocols, RequestSync, Ask,
                    AcquireLock, CancelWaiting
<1>3. ASSUME NEW c \in Cores, RestartOutsideLock(c) \/ CoreStops(c)
      PROVE  FALSE
  BY <1>1, <1>3 DEF RestartOutsideLock, CoreStops
<1>4. ~Crash
  BY <1>1 DEF Crash
<1>5. vars' # vars
  BY <1>1 DEF vars
<1> QED
  BY <1>2, <1>3, <1>4, <1>5 DEF Next, Environment

\* Results that are neither "applied" nor "rolled_back".
LEMMA AbortEnds ==
  ASSUME NEW cancelled \in BOOLEAN, Abort(cancelled), NEW result, Ends(result)
  PROVE  result \in {"raised", "apply_failed"}
  BY DEF Abort, Finish, Continue, Ends

LEMMA ValidationEnds ==
  ASSUME NEW valid \in BOOLEAN, NextValidation(valid), NEW result, Ends(result)
  PROVE  result = "validation_failed"
  BY DEF NextValidation, Finish, Continue, Ends

LEMMA RestoreEnds ==
  ASSUME NEW restored \in BOOLEAN, AfterRestore(restored), NEW result, Ends(result)
  PROVE  /\ result \in {"raised", "rolled_back", "rollback_failed"}
         /\ result = "rolled_back" => restored
         /\ ~(tx.idx < tx.replaced) /\ ~(tx.touched > 0)
  BY DEF AfterRestore, Finish, Continue, Ends, Result

LEMMA RecoverEnds ==
  ASSUME NEW restored \in BOOLEAN, AfterRecover(restored), NEW result, Ends(result)
  PROVE  /\ result \in {"raised", "rolled_back", "rollback_failed"}
         /\ result = "rolled_back" => restored
         /\ ~(tx.idx < tx.touched)
  BY DEF AfterRecover, Finish, Continue, Ends, Result

\* The steps that can report each of the two.
LEMMA HowEnds ==
  ASSUME TypeOK, Progress \/ Failure, NEW result \in {"applied", "rolled_back"}, Ends(result)
  PROVE  \/ result = "applied" /\ InspectReady /\ ~(tx.idx < NumCores)
         \/ result = "rolled_back" /\ Restore /\ AfterRestore(tx.restored)
         \/ result = "rolled_back" /\ ReinspectReady /\ AfterRecover(tx.restored)
<1>1. holder' # holder /\ outcome' = result
  BY DEF Ends
<1>2. ~Stage /\ ~Backup /\ ~Replace /\ ~Restart /\ ~Recover
  BY <1>1 DEF Stage, Backup, Replace, Restart, Recover, Continue
<1>3. ~ReadNode /\ ~ReadFails /\ ~StageFails /\ ~ValidateRaises
  BY <1>1 DEF ReadNode, ReadFails, StageFails, ValidateRaises, Finish, Continue
<1>4. ~ValidateAccepts /\ ~ValidateRejects
  <2>1. \A valid \in BOOLEAN : ~NextValidation(valid)
    BY ValidationEnds
  <2> QED
    BY <2>1, FieldTypes DEF ValidateAccepts, ValidateRejects
<1>5. ~InspectDown /\ ~ReplaceFails /\ ~RestartFails /\ ~InspectFails
  <2>1. \A cancelled \in BOOLEAN : ~Abort(cancelled)
    BY AbortEnds
  <2> QED
    BY <2>1 DEF InspectDown, ReplaceFails, RestartFails, InspectFails
<1>6. ~Cancel
  <2>1. ~Abort(TRUE)
    BY AbortEnds
  <2>2. ~Finish("raised")
    BY <1>1 DEF Finish
  <2> QED
    BY <2>1, <2>2 DEF Cancel
<1>7. ~RestoreFails
  <2>1. ~AfterRestore(FALSE)
    BY RestoreEnds
  <2> QED
    BY <2>1 DEF RestoreFails
<1>8. ~ReinspectDown /\ ~RecoverFails /\ ~ReinspectFails
  <2>1. ~AfterRecover(FALSE)
    BY RecoverEnds
  <2> QED
    BY <2>1 DEF ReinspectDown, RecoverFails, ReinspectFails
<1>9. CASE InspectReady
  BY <1>1, <1>9 DEF InspectReady, Finish, Continue
<1>10. CASE Restore
  <2>1. AfterRestore(tx.restored) /\ tx.restored \in BOOLEAN
    BY <1>10, FieldTypes DEF Restore
  <2> QED
    BY <1>10, <2>1, RestoreEnds
<1>11. CASE ReinspectReady
  <2>1. AfterRecover(tx.restored) /\ tx.restored \in BOOLEAN
    BY <1>11, FieldTypes DEF ReinspectReady
  <2> QED
    BY <1>11, <2>1, RecoverEnds
<1> QED
  BY <1>2, <1>3, <1>4, <1>5, <1>6, <1>7, <1>8, <1>9, <1>10, <1>11 DEF Progress, Failure

\* FileInv, LockInv and CoreInv hold together.
LEMMA FilesAndCores == Spec => [](FileInv /\ LockInv /\ CoreInv)
<1>1. Init => FileInv /\ LockInv /\ CoreInv
  BY NoTxFields DEF Init, FileInv, LockInv, CoreInv, InFlight, NoFile
<1>2. TypeOK /\ TypeOK' /\ FileInv /\ LockInv /\ CoreInv /\ [Next]_vars
        => FileInv' /\ LockInv' /\ CoreInv'
  <2> SUFFICES ASSUME TypeOK, TypeOK', FileInv, LockInv, CoreInv, [Next]_vars
               PROVE  FileInv' /\ LockInv' /\ CoreInv'
    OBVIOUS
  <2>1. FileInv' /\ LockInv'
    BY ProgressFiles, FailureFiles, OthersFiles, LockStep DEF Next
  <2>2. CoreInv'
    BY ProgressCores, FailureCores, OthersCores DEF Next
  <2> QED
    BY <2>1, <2>2
<1> QED
  BY <1>1, <1>2, TypeCorrect, PTL DEF Spec

\* A sync reports "applied" only when every file holds its candidate and no
\* core runs anything else, whoever restarted cores meanwhile.
THEOREM AppliedMeansLive == Spec => AppliedIsLive
<1>1. TypeOK /\ FileInv /\ CoreInv /\ [Next]_vars
        => [Ends("applied") =>
              \A c \in Cores : disk'[c] = tx.cand /\ run'[c] \in {tx.cand, Down}]_vars
  <2> SUFFICES ASSUME TypeOK, FileInv, CoreInv, [Next]_vars, Ends("applied"), NEW c \in Cores
               PROVE  disk'[c] = tx.cand /\ run'[c] \in {tx.cand, Down}
    OBVIOUS
  <2>1. InspectReady /\ ~(tx.idx < NumCores)
    BY WhoEnds, HowEnds
  <2>2. tx.phase = "inspect" /\ UNCHANGED <<disk, run>>
    BY <2>1 DEF InspectReady, coreVars
  <2>3. c <= NumCores /\ c <= tx.idx
    BY <2>1, FieldTypes, CoreIndex
  <2>4. disk[c] = tx.cand
    BY <2>2, <2>3 DEF FileInv, InFlight
  <2>5. run[c] \in {tx.cand, Down}
    BY <2>2, <2>3 DEF CoreInv
  <2> QED
    BY <2>2, <2>4, <2>5
<1> QED
  BY <1>1, TypeCorrect, FilesAndCores, PTL DEF Spec, AppliedIsLive

\* A sync reports "rolled_back" only when every file is the original again
\* and every core it restarted runs the original, or is down since.
THEOREM RolledBackMeansRestored == Spec => RolledBackIsRestored
<1>1. TypeOK /\ FileInv /\ CoreInv /\ [Next]_vars
        => [Ends("rolled_back") =>
              /\ disk' = tx.orig
              /\ \A c \in 1 .. tx.touched : run'[c] \in {tx.orig[c], Down}]_vars
  <2> SUFFICES ASSUME TypeOK, FileInv, CoreInv, [Next]_vars, Ends("rolled_back")
               PROVE  /\ disk' = tx.orig
                      /\ \A c \in 1 .. tx.touched : run'[c] \in {tx.orig[c], Down}
    OBVIOUS
  <2>1. \A c \in 1 .. tx.touched : c \in Cores /\ c <= tx.touched
    BY FieldTypes, ConstantsAssumption DEF Cores
  <2>2. CASE Restore /\ AfterRestore(tx.restored)
    <3>1. tx.restored /\ tx.phase = "restore" /\ ~(tx.idx < tx.replaced) /\ ~(tx.touched > 0)
      BY <2>2, RestoreEnds, FieldTypes DEF Restore
    <3>2. \A c \in Cores : disk'[c] = IF c = tx.idx THEN tx.orig[c] ELSE disk[c]
      BY <2>2 DEF Restore, TypeOK
    <3>3. \A c \in Cores : c = tx.idx \/ c < tx.idx \/ tx.replaced < c
      BY <3>1, FieldTypes, CoreIndex
    <3>4. disk' = tx.orig
      <4>1. \A c \in Cores : disk'[c] = tx.orig[c]
        BY <3>1, <3>2, <3>3 DEF CoreInv
      <4> QED
        BY <2>2, <4>1, FieldTypes DEF Restore, TypeOK
    <3>5. \A c \in 1 .. tx.touched : FALSE
      BY <3>1, FieldTypes, CoreIndex
    <3> QED
      BY <3>4, <3>5
  <2>3. CASE ReinspectReady /\ AfterRecover(tx.restored)
    <3>1. /\ tx.restored /\ tx.phase = "reinspect" /\ ~(tx.idx < tx.touched)
          /\ UNCHANGED <<disk, run>>
      BY <2>3, RecoverEnds, FieldTypes DEF ReinspectReady, coreVars
    <3>2. \A c \in 1 .. tx.touched : c \in Cores /\ c <= tx.idx
      BY <2>1, <3>1, FieldTypes, CoreIndex
    <3> QED
      BY <3>1, <3>2 DEF CoreInv
  <2> QED
    BY <2>2, <2>3, WhoEnds, HowEnds
<1> QED
  BY <1>1, TypeCorrect, FilesAndCores, PTL DEF Spec, RolledBackIsRestored

-----------------------------------------------------------------------------
(* A rollback copy at every instant.  While nothing is torn, the files agree *)
(* between transactions, the originals agree during one, and a core whose    *)
(* file is about to be or was replaced has its original in its .bak.         *)

Uniform(version) == \A c, d \in Cores : version[c] = version[d]

CopyInv ==
    tears = 0 =>
      /\ tx.phase \in {"none", "read", "stage", "validate", "recover", "reinspect"} => Uniform(disk)
      /\ tx.phase \in {"validate", "restore"} \cup InFlight => Uniform(tx.orig)
      /\ tx.phase \in {"restore"} \cup InFlight =>
            \A c \in Cores : c <= tx.replaced => tx.orig[c] \in {NoFile, bak[c]}
      /\ tx.phase = "replace" => tx.orig[tx.idx] \in {NoFile, bak[tx.idx]}
      /\ tx.phase = "restore" =>
            \A c \in Cores : disk[c] = IF tx.idx <= c /\ c <= tx.replaced
                                       THEN tx.cand ELSE tx.orig[c]

LEMMA EndCopies ==
  ASSUME tx' = NoTx, tears' = 0 => Uniform(disk)'
  PROVE  CopyInv'
  BY NoTxFields DEF CopyInv, InFlight

\* Aborted before the first file was replaced, the files are the originals.
LEMMA AbortCopies ==
  ASSUME TypeOK, FileInv, CopyInv, NEW cancelled \in BOOLEAN, Abort(cancelled),
         UNCHANGED <<disk, bak, tears>>, tx.phase \in {"read", "validate"} \cup InFlight
  PROVE  CopyInv'
<1>1. CASE tx.replaced > 0 /\ Keeps("restore", 1)
  <2>1. tx.phase \in InFlight
    BY <1>1 DEF FileInv
  <2>2. \A c \in Cores : 1 <= c
    BY DEF Cores
  <2>3. \A c \in Cores : disk[c] = IF c <= tx.replaced THEN tx.cand ELSE tx.orig[c]
    BY <2>1 DEF FileInv
  <2> QED
    BY <1>1, <2>1, <2>2, <2>3 DEF CopyInv, Keeps, InFlight, Uniform
<1>2. CASE tx.replaced = 0 /\ tx' = NoTx
  <2>1. \A c \in Cores : ~(c <= 0)
    BY DEF Cores
  <2>2. tx.phase \in InFlight => \A c \in Cores : disk[c] = tx.orig[c]
    BY <1>2, <2>1 DEF FileInv
  <2>3. tears = 0 => Uniform(disk)
    BY <2>2 DEF CopyInv, Uniform
  <2> QED
    BY <1>2, <2>3, EndCopies DEF Uniform
<1> QED
  BY <1>1, <1>2, AbortShape

LEMMA ProgressCopies ==
  ASSUME TypeOK, FileInv, CopyInv, Progress
  PROVE  CopyInv'
<1> USE DEF coreVars, envVars
<1>1. CASE ReadNode
  <2>1. tx.phase = "read" /\ UNCHANGED <<disk, tears>> /\ (tx'.phase = "stage" \/ tx' = NoTx)
    BY <1>1 DEF ReadNode, Finish, TypeOK, TxType
  <2>2. CASE tx'.phase = "stage"
    BY <2>1, <2>2 DEF CopyInv, Uniform, InFlight
  <2> QED
    BY <2>1, <2>2, EndCopies DEF CopyInv, Uniform
<1>2. CASE Stage
  <2>1. tx.phase = "stage" /\ tx'.phase = "validate" /\ tx'.orig = disk /\ UNCHANGED <<disk, tears>>
    BY <1>2 DEF Stage, TypeOK, TxType
  <2> QED
    BY <2>1 DEF CopyInv, Uniform, InFlight
<1>3. CASE ValidateAccepts
  <2>1. /\ tx.phase = "validate" /\ UNCHANGED <<disk, tears>>
        /\ \/ tx'.phase = "validate" /\ tx'.orig = tx.orig
           \/ tx'.phase = "backup" /\ tx'.orig = tx.orig /\ tx'.replaced = tx.replaced
           \/ tx' = NoTx
    BY <1>3 DEF ValidateAccepts, NextValidation, Finish, TypeOK, TxType
  <2>2. CASE tx'.phase = "validate" /\ tx'.orig = tx.orig
    BY <2>1, <2>2 DEF CopyInv, Uniform, InFlight
  <2>3. CASE tx'.phase = "backup" /\ tx'.orig = tx.orig /\ tx'.replaced = tx.replaced
    <3>1. \A c \in Cores : ~(c <= tx'.replaced)
      BY <2>1, <2>3 DEF FileInv, Cores
    <3> QED
      BY <2>1, <2>3, <3>1 DEF CopyInv, Uniform
  <2> QED
    BY <2>1, <2>2, <2>3, EndCopies DEF CopyInv, Uniform
<1>4. CASE Backup
  <2>1. /\ tx.phase = "backup" /\ Keeps("replace", tx.idx) /\ UNCHANGED <<disk, tears>>
        /\ bak' = IF tx.orig[tx.idx] = NoFile THEN bak
                  ELSE [bak EXCEPT ![tx.idx] = tx.orig[tx.idx]]
    BY <1>4 DEF Backup, Keeps, TypeOK, TxType
  <2>2. \A c \in Cores : bak'[c] = IF c = tx.idx /\ tx.orig[c] # NoFile THEN tx.orig[c] ELSE bak[c]
    BY <2>1, FieldTypes DEF TypeOK
  <2>3. tx.idx \in Cores
    BY FieldTypes
  <2> QED
    BY <2>1, <2>2, <2>3 DEF CopyInv, Keeps, Uniform, InFlight
<1>5. CASE Replace
  <2>1. /\ tx.phase = "replace" /\ UNCHANGED <<bak, tears>> /\ tx'.orig = tx.orig
        /\ tx'.replaced = tx.idx /\ tx'.phase \in {"backup", "restart"}
    BY <1>5 DEF Replace, TypeOK, TxType
  <2>2. \A c \in Cores : c <= tx.idx => c <= tx.replaced \/ c = tx.idx
    BY <2>1, FieldTypes, CoreIndex DEF FileInv
  <2> QED
    BY <2>1, <2>2 DEF CopyInv, Uniform, InFlight
<1>6. CASE Restart
  <2>1. tx.phase = "restart" /\ Keeps("inspect", tx.idx) /\ UNCHANGED <<disk, bak, tears>>
    BY <1>6 DEF Restart, Keeps, TypeOK, TxType
  <2> QED
    BY <2>1 DEF CopyInv, Keeps, Uniform, InFlight
<1>7. CASE InspectReady
  <2>1. CASE tx.idx < NumCores
    <3>1. /\ tx.phase = "inspect" /\ tx'.phase = "restart" /\ tx'.orig = tx.orig
          /\ tx'.replaced = tx.replaced /\ UNCHANGED <<disk, bak, tears>>
      BY <1>7, <2>1 DEF InspectReady, TypeOK, TxType
    <3> QED
      BY <3>1 DEF CopyInv, Uniform, InFlight
  <2>2. CASE ~(tx.idx < NumCores)
    <3>1. tx' = NoTx /\ tx.phase = "inspect" /\ UNCHANGED disk
      BY <1>7, <2>2 DEF InspectReady, Finish
    <3>2. \A c \in Cores : c <= tx.replaced
      BY <3>1, CoreIndex DEF FileInv
    <3>3. Uniform(disk)
      BY <3>1, <3>2 DEF FileInv, InFlight, Uniform
    <3> QED
      BY <3>1, <3>3, EndCopies DEF Uniform
  <2> QED
    BY <2>1, <2>2
<1>8. CASE InspectDown
  <2>1. Abort(FALSE) /\ FALSE \in BOOLEAN /\ tx.phase \in InFlight /\ UNCHANGED <<disk, bak, tears>>
    BY <1>8 DEF InspectDown, InFlight
  <2> QED
    BY <2>1, AbortCopies
<1>9. CASE Restore
  <2>1. AfterRestore(tx.restored) /\ tx.phase = "restore" /\ UNCHANGED <<bak, tears>>
    BY <1>9 DEF Restore
  <2>2. \A c \in Cores : disk'[c] = IF c = tx.idx THEN tx.orig[c] ELSE disk[c]
    BY <1>9 DEF Restore, TypeOK
  <2>3. tears = 0 => \A c \in Cores :
           disk'[c] = IF tx.idx + 1 <= c /\ c <= tx.replaced THEN tx.cand ELSE tx.orig[c]
    BY <2>1, <2>2, FieldTypes, CoreIndex DEF CopyInv
  <2>4. CASE Keeps("restore", tx.idx + 1)
    BY <2>1, <2>3, <2>4 DEF CopyInv, Keeps, Uniform, InFlight
  <2>5. CASE ~(tx.idx < tx.replaced)
    <3>1. \A c \in Cores : ~(tx.idx + 1 <= c /\ c <= tx.replaced)
      BY <2>5, FieldTypes, CoreIndex
    <3>2. tears = 0 => \A c \in Cores : disk'[c] = tx.orig[c]
      BY <2>3, <3>1
    <3>3. tears = 0 => Uniform(disk)'
      BY <2>1, <3>2 DEF CopyInv, Uniform
    <3>4. CASE Keeps("recover", 1)
      BY <2>1, <3>3, <3>4 DEF CopyInv, Keeps, InFlight
    <3>5. CASE tx' = NoTx
      BY <2>1, <3>3, <3>5, EndCopies
    <3> QED
      BY <2>1, <2>5, <3>4, <3>5, FieldTypes, AfterRestoreShape
  <2> QED
    BY <2>1, <2>4, <2>5, FieldTypes, AfterRestoreShape
<1>10. CASE Recover
  <2>1. tx.phase = "recover" /\ Keeps("reinspect", tx.idx) /\ UNCHANGED <<disk, tears>>
    BY <1>10 DEF Recover, Keeps, TypeOK, TxType
  <2> QED
    BY <2>1 DEF CopyInv, Keeps, Uniform, InFlight
<1>11. ASSUME NEW restored \in BOOLEAN, AfterRecover(restored), tx.phase = "reinspect",
              UNCHANGED <<disk, tears>>
       PROVE  CopyInv'
  <2>1. tears = 0 => Uniform(disk)'
    BY <1>11 DEF CopyInv, Uniform
  <2>2. CASE tx'.phase = "recover"
    BY <1>11, <2>1, <2>2 DEF CopyInv, InFlight
  <2> QED
    BY <1>11, <2>1, <2>2, AfterRecoverShape, EndCopies DEF Keeps
<1>12. CASE ReinspectReady \/ ReinspectDown
  BY <1>11, <1>12, FieldTypes DEF ReinspectReady, ReinspectDown
<1> QED
  BY <1>1, <1>2, <1>3, <1>4, <1>5, <1>6, <1>7, <1>8, <1>9, <1>10, <1>12 DEF Progress

LEMMA FailureCopies ==
  ASSUME TypeOK, FileInv, CopyInv, Failure
  PROVE  CopyInv'
<1> USE DEF coreVars, Fault
<1>1. CASE ReadFails \/ StageFails \/ ValidateRaises
  <2>1. /\ tx.phase \in {"read", "stage", "validate"} /\ tx' = NoTx /\ UNCHANGED <<disk, tears>>
    BY <1>1 DEF ReadFails, StageFails, ValidateRaises, Finish
  <2> QED
    BY <2>1, EndCopies DEF CopyInv, Uniform
<1>2. CASE ValidateRejects
  <2>1. /\ tx.phase = "validate" /\ UNCHANGED <<disk, tears>>
        /\ (tx'.phase = "validate" /\ tx'.orig = tx.orig) \/ tx' = NoTx
    BY <1>2 DEF ValidateRejects, NextValidation, Finish, TypeOK, TxType
  <2>2. CASE tx'.phase = "validate" /\ tx'.orig = tx.orig
    BY <2>1, <2>2 DEF CopyInv, Uniform, InFlight
  <2> QED
    BY <2>1, <2>2, EndCopies DEF CopyInv, Uniform
<1>3. CASE ReplaceFails \/ RestartFails \/ InspectFails
  <2>1. /\ Abort(FALSE) /\ FALSE \in BOOLEAN /\ tx.phase \in InFlight
        /\ UNCHANGED <<disk, bak, tears>>
    BY <1>3 DEF ReplaceFails, RestartFails, InspectFails, InFlight
  <2> QED
    BY <2>1, AbortCopies
<1>4. CASE RestoreFails
  <2>1. tears' # 0
    BY <1>4 DEF RestoreFails, TypeOK
  <2> QED
    BY <2>1 DEF CopyInv
<1>5. CASE RecoverFails \/ ReinspectFails
  <2>1. /\ AfterRecover(FALSE) /\ FALSE \in BOOLEAN /\ tx.phase \in {"recover", "reinspect"}
        /\ UNCHANGED <<disk, tears>>
    BY <1>5 DEF RecoverFails, ReinspectFails
  <2>2. tears = 0 => Uniform(disk)'
    BY <2>1 DEF CopyInv, Uniform
  <2>3. CASE tx'.phase = "recover"
    BY <2>1, <2>2, <2>3 DEF CopyInv, InFlight
  <2> QED
    BY <2>1, <2>2, <2>3, AfterRecoverShape, EndCopies DEF Keeps
<1>6. CASE Cancel
  <2>1. CASE Finish("raised") /\ tx.phase \in {"recover", "reinspect"}
    <3>1. tx' = NoTx /\ UNCHANGED <<disk, tears>>
      BY <1>6, <2>1 DEF Cancel, Finish
    <3> QED
      BY <2>1, <3>1, EndCopies DEF CopyInv, Uniform
  <2>2. CASE Abort(TRUE) /\ tx.phase \in {"read", "validate"} \cup InFlight
    <3>1. TRUE \in BOOLEAN /\ UNCHANGED <<disk, bak, tears>>
      BY <1>6 DEF Cancel
    <3> QED
      BY <2>2, <3>1, AbortCopies
  <2> QED
    BY <1>6, <2>1, <2>2 DEF Cancel, InFlight
<1> QED
  BY <1>1, <1>2, <1>3, <1>4, <1>5, <1>6 DEF Failure

LEMMA OthersCopies ==
  ASSUME TypeOK, LockInv, CopyInv,
         Environment \/ UNCHANGED vars \/ \E t \in Tasks : Requests(t) \/ AcquireLock(t)
  PROVE  CopyInv'
<1> USE DEF coreVars, envVars, Fault
<1>1. CASE UNCHANGED <<tx, disk, bak, tears>>
  BY <1>1 DEF CopyInv, Uniform
<1>2. CASE Crash
  <2>1. tears' # 0
    BY <1>2 DEF Crash, TypeOK
  <2> QED
    BY <2>1 DEF CopyInv
<1>3. ASSUME NEW t \in Tasks, AcquireLock(t)
      PROVE  CopyInv'
  <2>1. tx'.phase = "read" /\ tx.phase = "none" /\ UNCHANGED <<disk, tears>>
    BY <1>3 DEF AcquireLock, NoTx, LockInv
  <2> QED
    BY <2>1 DEF CopyInv, Uniform, InFlight
<1>4. ASSUME NEW t \in Tasks, Requests(t) \/ CancelWaiting(t)
      PROVE  UNCHANGED <<tx, disk, bak, tears>>
  BY <1>4 DEF Requests, ChangeProtocols, ChangeRemoteProtocols, RequestSync, Ask, CancelWaiting
<1>5. ASSUME NEW c \in Cores, RestartOutsideLock(c) \/ CoreStops(c)
      PROVE  UNCHANGED <<tx, disk, bak, tears>>
  BY <1>5 DEF RestartOutsideLock, CoreStops
<1>6. CASE UNCHANGED vars
  BY <1>1, <1>6 DEF vars
<1> QED
  BY <1>1, <1>2, <1>3, <1>4, <1>5, <1>6 DEF Environment

\* Until something is torn, a process that dies right now leaves the previous
\* version of every core in its file or in its .bak.
THEOREM RollbackAtEveryInstant == Spec => []RollbackCopyUsable
<1>1. Init => CopyInv
  BY NoTxFields DEF Init, CopyInv, Uniform, InFlight
<1>2. TypeOK /\ FileInv /\ LockInv /\ CopyInv /\ [Next]_vars => CopyInv'
  BY ProgressCopies, FailureCopies, OthersCopies DEF Next
<1>3. TypeOK /\ FileInv /\ CopyInv => RollbackCopyUsable
  <2> SUFFICES ASSUME TypeOK, FileInv, CopyInv, tears = 0, \A c \in Cores : disk[c] # NoFile
               PROVE  \E v \in {disk[1], bak[1]} \ {NoFile} : \A c \in Cores : v \in {disk[c], bak[c]}
    BY DEF RollbackCopyUsable
  <2>1. 1 \in Cores /\ NumCores \in Cores /\ \A c \in Cores : c <= NumCores /\ 1 <= c
    BY CoreIndex DEF Cores
  <2>2. CASE Uniform(disk)
    <3>1. \A c \in Cores : disk[c] = disk[1]
      BY <2>1, <2>2 DEF Uniform
    <3> QED
      BY <2>1, <3>1
  <2>3. CASE tx.phase \in {"restore"} \cup InFlight
    <3>1. \A c \in Cores : tx.orig[c] = tx.orig[1]
      BY <2>1, <2>3 DEF CopyInv, Uniform
    <3>2. \A c \in Cores : c <= tx.replaced \/ disk[c] = tx.orig[c]
      BY <2>3, FieldTypes, CoreIndex DEF CopyInv, FileInv
    <3>3. \A c \in Cores : tx.orig[c] = NoFile \/ tx.orig[c] \in {disk[c], bak[c]}
      BY <2>3, <3>2 DEF CopyInv
    <3>4. CASE tx.orig[1] # NoFile
      BY <2>1, <3>1, <3>3, <3>4
    <3>5. CASE tx.orig[1] = NoFile
      <4>1. tx.replaced = NumCores
        <5>1. NumCores <= tx.replaced
          BY <2>1, <3>1, <3>2, <3>5
        <5> QED
          BY <5>1, FieldTypes, ConstantsAssumption
      <4>2. tx.phase = "restore" => tx.idx <= 1
        BY <2>1, <3>5 DEF CopyInv
      <4>3. \A c \in Cores : disk[c] = tx.cand
        BY <2>1, <2>3, <4>1, <4>2, FieldTypes, CoreIndex DEF CopyInv, FileInv
      <4> QED
        BY <2>2, <4>3 DEF Uniform
    <3> QED
      BY <3>4, <3>5
  <2> QED
    BY <2>2, <2>3, FieldTypes DEF CopyInv, Phases, InFlight
<1> QED
  BY <1>1, <1>2, <1>3, TypeCorrect, FilesAndCores, PTL DEF Spec
==============================================================================
