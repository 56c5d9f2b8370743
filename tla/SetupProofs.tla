----------------------------- MODULE SetupProofs -----------------------------
(* Proofs about Setup, for any number of requests, rows, edits and crashes:  *)
(* who the setup row belongs to, when it is configured, and which            *)
(* installations ever get one.                                               *)
EXTENDS Setup, TLAPS

SetupRows == [state : {"none", "required", "configured"}, changed : BOOLEAN]

\* The setup row and what is known about it.
RowInv == /\ setup \in SetupRows
          /\ setup.state = "none" => setup = NoRow
          /\ setup.changed => ownerChanged
          /\ setup.state = "configured" => ownerChanged
          /\ setup.state # "none" => Owner \in users

\* Requests exist only while the process serves; a completion under way keeps the
\* setup pending with its password changed, and a deletion under way is none of the
\* owner of a pending setup.
RequestInv == /\ job # NoJob => /\ proc = "serving"
                                /\ setup.state = "required" /\ setup.changed
              /\ deleting # {} => proc = "serving"
              /\ setup.state = "required" => Owner \notin deleting

\* An installation that was found in use has no setup row while it has users.
UseInv == hadUsers => setup.state = "none" /\ users # {}

PeopleInv == RowInv /\ RequestInv /\ UseInv

\* The initial states, fresh or existing, satisfy the invariant.
LEMMA PeopleInit == Init => PeopleInv
<1> SUFFICES ASSUME Init PROVE PeopleInv  OBVIOUS
<1>1. RowInv  BY DEF Init, RowInv, SetupRows, NoRow
<1>2. RequestInv  BY DEF Init, RequestInv, NoRow
<1>3. UseInv
  <2>1. setup.state = "none"  BY DEF Init, NoRow
  <2>2. hadUsers => users # {}  BY Zenon DEF Init
  <2> QED BY <2>1, <2>2 DEF UseInv
<1> QED BY <1>1, <1>2, <1>3 DEF PeopleInv

\* What a step that leaves people alone needs to keep the invariant: it ends a
\* completion, keeps it, or begins one under a pending setup.
LEMMA Unconcerned ==
    ASSUME PeopleInv, UNCHANGED people,
           \/ job' = NoJob
           \/ job # NoJob /\ proc' = "serving"
           \/ proc' = "serving" /\ setup.state = "required" /\ setup.changed,
           deleting # {} => proc' = "serving"
    PROVE  PeopleInv'
<1>1. RowInv'  BY DEF PeopleInv, RowInv, people
<1>2. RequestInv'  BY DEF PeopleInv, RequestInv, people
<1>3. UseInv'  BY DEF PeopleInv, UseInv, people
<1> QED BY <1>1, <1>2, <1>3 DEF PeopleInv

\* The first of init_db's transactions is the only one that creates the row.
LEMMA InitUsersKeeps == PeopleInv /\ InitUsers => PeopleInv'
<1> SUFFICES ASSUME PeopleInv, InitUsers PROVE PeopleInv'  OBVIOUS
<1>1. job = NoJob /\ deleting = {}  BY DEF InitUsers, PeopleInv, RequestInv
<1>2. job' = NoJob /\ deleting' = {} /\ hadUsers' = hadUsers /\ users' = users \cup {"admin"}
  BY <1>1 DEF InitUsers, calls
<1>3. CASE users = {} /\ setup = NoRow
  <2>1. setup' = [state |-> "required", changed |-> FALSE]  BY <1>3 DEF InitUsers
  <2>2. RowInv'  BY <1>2, <2>1 DEF RowInv, SetupRows, Owner
  <2>3. RequestInv'  BY <1>2, <2>1 DEF RequestInv
  <2>4. ~hadUsers  BY <1>3 DEF PeopleInv, UseInv
  <2> QED BY <1>2, <2>2, <2>3, <2>4 DEF PeopleInv, UseInv
<1>4. CASE ~(users = {} /\ setup = NoRow)
  <2>1. setup' = setup /\ ownerChanged' = ownerChanged  BY <1>4 DEF InitUsers
  <2>2. RowInv'  BY <1>2, <2>1 DEF PeopleInv, RowInv
  <2>3. RequestInv'  BY <1>2, <2>1 DEF PeopleInv, RequestInv
  <2>4. UseInv'  BY <1>2, <2>1 DEF PeopleInv, UseInv
  <2> QED BY <2>2, <2>3, <2>4 DEF PeopleInv
<1> QED BY <1>3, <1>4

\* Start-up changes no user otherwise, and serves no request meanwhile.
LEMMA StartupKeeps == PeopleInv /\ Startup => PeopleInv'
<1> SUFFICES ASSUME PeopleInv, Startup PROVE PeopleInv'  OBVIOUS
<1>1. CASE InitUsers  BY <1>1, InitUsersKeeps
<1>2. CASE Start \/ CheckFlag \/ Seed \/ BootSyncReads \/ BootSyncApplied \/ Touch
  <2>1. proc # "serving"
    BY <1>2 DEF Start, CheckFlag, Seed, BootSyncReads, BootSyncApplied, Touch
  <2>2. job = NoJob /\ deleting = {}  BY <2>1 DEF PeopleInv, RequestInv
  <2>3. UNCHANGED people /\ job' = job
    BY <1>2 DEF Start, CheckFlag, Seed, BootSyncReads, BootSyncApplied, Touch, calls
  <2> QED BY <2>2, <2>3, Unconcerned
<1> QED BY <1>1, <1>2 DEF Startup

\* A failed start-up serves; a crash takes requests and admitted deletions with it.
LEMMA FaultsKeep == PeopleInv /\ (BootFails \/ Crash) => PeopleInv'
<1> SUFFICES ASSUME PeopleInv, BootFails \/ Crash PROVE PeopleInv'  OBVIOUS
<1>1. CASE BootFails
  <2>1. proc # "serving"  BY <1>1 DEF BootFails
  <2>2. job = NoJob /\ deleting = {}  BY <2>1 DEF PeopleInv, RequestInv
  <2>3. UNCHANGED people /\ job' = job  BY <1>1 DEF BootFails, calls
  <2> QED BY <2>2, <2>3, Unconcerned
<1>2. CASE Crash
  <2>1. /\ job' = NoJob /\ deleting' = {}
        /\ UNCHANGED <<users, setup, ownerChanged, hadUsers>>
    BY <1>2 DEF Crash
  <2>2. RowInv'  BY <2>1 DEF PeopleInv, RowInv
  <2>3. RequestInv'  BY <2>1 DEF RequestInv
  <2>4. UseInv'  BY <2>1 DEF PeopleInv, UseInv
  <2> QED BY <2>2, <2>3, <2>4 DEF PeopleInv
<1> QED BY <1>1, <1>2

\* The steps of a completion before its last commit touch no user and no setup row.
LEMMA RequestKeeps ==
    ASSUME PeopleInv, NEW r \in Requests,
           Call(r) \/ Admit(r) \/ Insert(r) \/ Enable(r) \/ SyncReads(r) \/ SyncApplied(r)
             \/ Fail(r)
    PROVE  PeopleInv'
<1>1. CASE Call(r)
  <2>1. UNCHANGED people /\ job' = job /\ proc' = proc  BY <1>1 DEF Call, boot
  <2>2. proc = "serving"  BY <1>1 DEF Call, serving
  <2> QED BY <2>1, <2>2, Unconcerned
<1>2. CASE Admit(r)
  <2>1. PICK n \in {"local", "remote"}, preset \in {"recommended", "existing"} :
            Refuse(r, n, preset) \/ Accept(r, n, preset)
    BY <1>2 DEF Admit
  <2>2. proc = "serving"  BY <2>1 DEF Refuse, Accept, Take, serving
  <2>3. CASE Refuse(r, n, preset)
    <3>1. UNCHANGED people /\ job' = job /\ proc' = proc  BY <2>3 DEF Refuse, boot
    <3> QED BY <2>2, <3>1, Unconcerned
  <2>4. CASE Accept(r, n, preset)
    <3>1. UNCHANGED people /\ proc' = proc  BY <2>4 DEF Accept, boot
    <3>2. setup.state = "required" /\ setup.changed  BY <2>4 DEF Accept, Ready
    <3> QED BY <2>2, <3>1, <3>2, Unconcerned
  <2> QED BY <2>1, <2>3, <2>4
<1>3. CASE Insert(r) \/ Enable(r) \/ SyncReads(r) \/ SyncApplied(r) \/ Fail(r)
  <2>1. proc = "serving" /\ job # NoJob
    BY <1>3 DEF Insert, Enable, SyncReads, SyncApplied, Fail, Holds, serving
  <2>2. UNCHANGED people /\ proc' = proc
    BY <1>3 DEF Insert, Enable, SyncReads, SyncApplied, Fail, boot
  <2> QED BY <2>1, <2>2, Unconcerned
<1> QED BY <1>1, <1>2, <1>3

\* The last commit finds the setup pending and its password changed.
LEMMA CompleteKeeps ==
    ASSUME PeopleInv, NEW r \in Requests, Complete(r)
    PROVE  PeopleInv'
<1>1. proc = "serving" /\ job # NoJob  BY DEF Complete, Holds, serving
<1>2. setup.state = "required" /\ setup.changed /\ setup \in SetupRows
  BY <1>1 DEF PeopleInv, RequestInv, RowInv
<1>3. /\ setup' = [setup EXCEPT !.state = "configured"] /\ job' = NoJob
      /\ UNCHANGED <<proc, users, deleting, ownerChanged, hadUsers>>
  BY DEF Complete, boot
<1>4. setup' \in SetupRows /\ setup'.state = "configured" /\ setup'.changed = setup.changed
  BY <1>2, <1>3 DEF SetupRows
<1>5. RowInv'  BY <1>2, <1>3, <1>4 DEF PeopleInv, RowInv
<1>6. RequestInv'  BY <1>1, <1>3, <1>4 DEF PeopleInv, RequestInv
<1>7. ~hadUsers  BY <1>2 DEF PeopleInv, UseInv
<1>8. UseInv'  BY <1>3, <1>7 DEF UseInv
<1> QED BY <1>5, <1>6, <1>8 DEF PeopleInv

\* A password change touches the setup row only for its owner.
LEMMA ChangePasswordKeeps ==
    ASSUME PeopleInv, NEW u \in Users, ChangePassword(u)
    PROVE  PeopleInv'
<1>1. proc = "serving" /\ setup.state = "required"  BY DEF ChangePassword, serving
<1>2. /\ setup' = [setup EXCEPT !.changed = setup.changed \/ u = Owner]
      /\ ownerChanged' = (ownerChanged \/ u = Owner)
      /\ UNCHANGED <<proc, users, deleting, hadUsers, job>>
  BY DEF ChangePassword, boot, calls
<1>3. setup \in SetupRows  BY DEF PeopleInv, RowInv
<1>4. /\ setup'.state = "required" /\ setup'.changed = (setup.changed \/ u = Owner)
      /\ setup' \in SetupRows
  BY <1>1, <1>2, <1>3 DEF SetupRows
<1>5. RowInv'  BY <1>1, <1>2, <1>4 DEF PeopleInv, RowInv
<1>6. RequestInv'
  <2>1. job' # NoJob => setup'.changed  BY <1>2, <1>4 DEF PeopleInv, RequestInv
  <2>2. Owner \notin deleting'  BY <1>1, <1>2 DEF PeopleInv, RequestInv
  <2> QED BY <1>1, <1>2, <1>4, <2>1, <2>2 DEF RequestInv
<1>7. UseInv'  BY <1>1, <1>2 DEF PeopleInv, UseInv
<1> QED BY <1>5, <1>6, <1>7 DEF PeopleInv

\* A deletion is admitted for no owner of a pending setup, and takes the row along.
LEMMA DeletionKeeps ==
    ASSUME PeopleInv, NEW u \in Users, AdmitDelete(u) \/ DeleteUser(u)
    PROVE  PeopleInv'
<1>1. proc = "serving" /\ proc' = "serving" /\ job' = job
  BY DEF AdmitDelete, DeleteUser, serving, boot, calls
<1>2. CASE AdmitDelete(u)
  <2>1. /\ deleting' = deleting \cup {u} /\ ~(u = Owner /\ setup.state = "required")
        /\ UNCHANGED <<users, setup, ownerChanged, hadUsers>>
    BY <1>2 DEF AdmitDelete
  <2>2. RowInv'  BY <2>1 DEF PeopleInv, RowInv
  <2>3. RequestInv'  BY <1>1, <2>1 DEF PeopleInv, RequestInv
  <2>4. UseInv'  BY <2>1 DEF PeopleInv, UseInv
  <2> QED BY <2>2, <2>3, <2>4 DEF PeopleInv
<1>3. CASE DeleteUser(u)
  <2>1. /\ u \in deleting /\ deleting' = deleting \ {u} /\ users' = users \ {u}
        /\ ownerChanged' = ownerChanged
    BY <1>3 DEF DeleteUser
  <2>2. setup' = IF u = Owner THEN NoRow ELSE setup  BY <1>3 DEF DeleteUser
  <2>3. hadUsers' => hadUsers /\ users' # {}  BY <1>3 DEF DeleteUser
  <2>4. CASE u = Owner
    <3>1. setup' = NoRow /\ setup.state # "required"
      BY <2>1, <2>2, <2>4 DEF PeopleInv, RequestInv
    <3>2. job = NoJob  BY <3>1 DEF PeopleInv, RequestInv
    <3>3. setup'.state = "none" /\ ~setup'.changed /\ setup' \in SetupRows
      BY <3>1 DEF NoRow, SetupRows
    <3>4. RowInv'  BY <3>1, <3>3 DEF RowInv
    <3>5. RequestInv'  BY <1>1, <3>2, <3>3 DEF RequestInv
    <3>6. UseInv'  BY <2>3, <3>3 DEF UseInv
    <3> QED BY <3>4, <3>5, <3>6 DEF PeopleInv
  <2>5. CASE u # Owner
    <3>1. setup' = setup  BY <2>2, <2>5
    <3>2. RowInv'  BY <2>1, <2>5, <3>1 DEF PeopleInv, RowInv
    <3>3. RequestInv'  BY <1>1, <2>1, <3>1 DEF PeopleInv, RequestInv
    <3>4. UseInv'  BY <2>3, <3>1 DEF PeopleInv, UseInv
    <3> QED BY <3>2, <3>3, <3>4 DEF PeopleInv
  <2> QED BY <2>4, <2>5
<1> QED BY <1>2, <1>3

\* Nothing an operator edits, syncs or adds concerns users or the setup row.
LEMMA OperatorKeeps ==
    ASSUME PeopleInv,
           \/ CreateUser \/ AddRemote \/ DeleteRemote \/ OperatorSync
           \/ \E n \in {"local", "remote", "orphan"}, name \in Names, port \in Ports :
                 CreateProtocol(n, name, port)
           \/ \E p \in rows, active, complete \in BOOLEAN : UpdateProtocol(p, active, complete)
           \/ \E p \in rows : DeleteProtocol(p)
    PROVE  PeopleInv'
<1>1. CASE CreateUser
  <2>1. /\ users' = users \cup {"second"} /\ job' = job /\ proc' = proc
        /\ UNCHANGED <<deleting, setup, ownerChanged, hadUsers>>
    BY <1>1 DEF CreateUser, boot, calls
  <2>2. RowInv'  BY <2>1 DEF PeopleInv, RowInv
  <2>3. RequestInv'  BY <2>1 DEF PeopleInv, RequestInv
  <2>4. UseInv'  BY <2>1 DEF PeopleInv, UseInv
  <2> QED BY <2>2, <2>3, <2>4 DEF PeopleInv
<1>2. CASE OperatorSync
  <2>1. proc = "serving" /\ UNCHANGED <<people, job, proc>>
    BY <1>2 DEF OperatorSync, serving, boot, calls
  <2>2. UNCHANGED people  BY <2>1
  <2> QED BY <2>1, <2>2, Unconcerned
<1>3. CASE Edit
  <2>1. proc = "serving" /\ UNCHANGED people /\ proc' = proc  BY <1>3 DEF Edit, serving, boot
  <2>2. job = NoJob => job' = NoJob  BY <1>3 DEF Edit
  <2> QED BY <2>1, <2>2, Unconcerned
<1>4. CreateUser \/ OperatorSync \/ Edit
  BY DEF AddRemote, DeleteRemote, CreateProtocol, UpdateProtocol, DeleteProtocol
<1> QED BY <1>1, <1>2, <1>3, <1>4

\* Every step keeps the invariant.
LEMMA PeopleStep == PeopleInv /\ [Next]_vars => PeopleInv'
<1> SUFFICES ASSUME PeopleInv, [Next]_vars PROVE PeopleInv'  OBVIOUS
<1>1. CASE Startup  BY <1>1, StartupKeeps
<1>2. CASE BootFails \/ Crash  BY <1>2, FaultsKeep
<1>3. CASE \E r \in Requests : Call(r) \/ Admit(r) \/ Progress(r)
  <2>1. PICK r \in Requests : Call(r) \/ Admit(r) \/ Progress(r)  BY <1>3
  <2>2. CASE Complete(r)  BY <2>2, CompleteKeeps
  <2>3. CASE Call(r) \/ Admit(r) \/ Insert(r) \/ Enable(r) \/ SyncReads(r) \/ SyncApplied(r)
               \/ Fail(r)
    BY <2>3, RequestKeeps
  <2> QED BY <2>1, <2>2, <2>3 DEF Progress
<1>4. CASE Others
  <2>1. CASE \E u \in Users : ChangePassword(u) \/ AdmitDelete(u) \/ DeleteUser(u)
    <3>1. PICK u \in Users : ChangePassword(u) \/ AdmitDelete(u) \/ DeleteUser(u)  BY <2>1
    <3>2. CASE ChangePassword(u)  BY <3>2, ChangePasswordKeeps
    <3>3. CASE AdmitDelete(u) \/ DeleteUser(u)  BY <3>3, DeletionKeeps
    <3> QED BY <3>1, <3>2, <3>3
  <2>2. CASE ~\E u \in Users : ChangePassword(u) \/ AdmitDelete(u) \/ DeleteUser(u)
    <3>1. \/ CreateUser \/ AddRemote \/ DeleteRemote \/ OperatorSync
          \/ \E n \in {"local", "remote", "orphan"}, name \in Names, port \in Ports :
                CreateProtocol(n, name, port)
          \/ \E p \in rows, active, complete \in BOOLEAN :
                UpdateProtocol(p, active, complete)
          \/ \E p \in rows : DeleteProtocol(p)
      BY <1>4, <2>2 DEF Others
    <3> QED BY <3>1, OperatorKeeps
  <2> QED BY <2>1, <2>2
<1>5. CASE UNCHANGED vars
  <2>1. UNCHANGED people /\ UNCHANGED proc /\ UNCHANGED job  BY <1>5 DEF vars, boot, calls
  <2>2. RowInv'  BY <2>1 DEF PeopleInv, RowInv, people
  <2>3. RequestInv'  BY <2>1 DEF PeopleInv, RequestInv, people
  <2>4. UseInv'  BY <2>1 DEF PeopleInv, UseInv, people
  <2> QED BY <2>2, <2>3, <2>4 DEF PeopleInv
<1> QED BY <1>1, <1>2, <1>3, <1>4, <1>5 DEF Next

\* The invariant holds in every state the installation can reach.
LEMMA PeopleAlways == Spec => []PeopleInv
BY PeopleInit, PeopleStep, PTL DEF Spec

\* Setup is configured only after its owner changed the initial password, whatever
\* requests, retries, crashes and deletions came before (complete_setup).
THEOREM PasswordBeforeSetup == Spec => []PasswordChangedFirst
<1>1. PeopleInv => PasswordChangedFirst  BY DEF PeopleInv, RowInv, PasswordChangedFirst
<1> QED BY <1>1, PeopleAlways, PTL

\* The setup row never outlives its administrator, although deletions are admitted
\* and carried out in separate steps (delete_user).
THEOREM SetupHasOwner == Spec => []OwnerExists
<1>1. PeopleInv => OwnerExists  BY DEF PeopleInv, RowInv, OwnerExists
<1> QED BY <1>1, PeopleAlways, PTL

\* An installation found in use is never put into setup while a user is left (init_db).
THEOREM InUseStaysConfigured == Spec => []ExistingStaysConfigured
<1>1. PeopleInv => ExistingStaysConfigured
  BY DEF PeopleInv, UseInv, ExistingStaysConfigured
<1> QED BY <1>1, PeopleAlways, PTL

\* Nothing but its completion ends a pending setup (delete_user, init_db).
THEOREM PendingIsKept == Spec => PendingUntilCompleted
<1>1. PeopleInv /\ [Next]_vars => (setup.state = "required" => setup'.state # "none")
  <2> SUFFICES ASSUME PeopleInv, [Next]_vars, setup.state = "required",
                      setup'.state = "none"
               PROVE  FALSE
    OBVIOUS
  <2>1. setup \in SetupRows /\ Owner \notin deleting
    BY DEF PeopleInv, RowInv, RequestInv
  <2>2. setup' # setup  OBVIOUS
  <2>3. CASE \E u \in Users : DeleteUser(u)
    BY <2>1, <2>2, <2>3 DEF DeleteUser
  <2>4. CASE InitUsers  BY <2>2, <2>4 DEF InitUsers
  <2>5. CASE \E r \in Requests : Complete(r)  BY <2>1, <2>5 DEF Complete, SetupRows
  <2>6. CASE \E u \in Users : ChangePassword(u)
    BY <2>1, <2>6 DEF ChangePassword, SetupRows
  <2>7. \/ \E u \in Users : DeleteUser(u) \/ ChangePassword(u)
        \/ InitUsers
        \/ \E r \in Requests : Complete(r)
    <3>1. CASE Startup
      BY <2>2, <3>1 DEF Startup, Start, CheckFlag, Seed, BootSyncReads, BootSyncApplied,
                        Touch, people
    <3>2. CASE BootFails \/ Crash  BY <2>2, <3>2 DEF BootFails, Crash, people
    <3>3. CASE \E r \in Requests : Call(r) \/ Admit(r) \/ Progress(r)
      BY <2>2, <3>3 DEF Call, Admit, Refuse, Accept, Progress, Insert, Enable, SyncReads,
                        SyncApplied, Fail, people
    <3>4. CASE Others
      BY <2>2, <3>4 DEF Others, CreateUser, AdmitDelete, Edit, AddRemote, DeleteRemote,
                        CreateProtocol, UpdateProtocol, DeleteProtocol, OperatorSync, people
    <3>5. CASE UNCHANGED vars  BY <2>2, <3>5 DEF vars, people
    <3> QED BY <3>1, <3>2, <3>3, <3>4, <3>5 DEF Next
  <2> QED BY <2>3, <2>4, <2>5, <2>6, <2>7
<1> QED BY <1>1, PeopleAlways, PTL DEF Spec, PendingUntilCompleted
-----------------------------------------------------------------------------
(* Types, seeds, credentials and what is served.                             *)

Places == {"inserting", "enabling", "stored", "applying", "applied"}

JobRow == [at : Places, req : Requests, node : {"local", "remote"},
           preset : {"recommended", "existing"}, row : 0..MaxRows, edited : BOOLEAN]

ProcType == proc \in {"down", "users", "flag", "seeding", "sync", "applying", "touch",
                      "serving"} /\ flag \in BOOLEAN
PeopleType == /\ users \subseteq Users /\ deleting \subseteq Users
              /\ setup \in SetupRows
              /\ ownerChanged \in BOOLEAN /\ hadUsers \in BOOLEAN
ConfigType == /\ nodes \subseteq {"local", "remote"} /\ rows \subseteq Row /\ late \in BOOLEAN
              /\ made \in 0..MaxRows
SyncType == live \subseteq Row /\ (snap = NoSync \/ snap \subseteq Row)
CallType == waiting \subseteq Requests /\ (job = NoJob \/ job \in JobRow)
CountType == /\ edits \in 0..MaxEdits /\ crashes \in 0..MaxCrashes
             /\ seeds \in Nat /\ hadNodes \in BOOLEAN /\ forgotten \in BOOLEAN

\* While a sync is under way, what it has read is there.
Reading == /\ proc = "applying" => snap # NoSync
           /\ job # NoJob /\ job.at = "applying" => snap # NoSync

TypeInv == ProcType /\ PeopleType /\ ConfigType /\ SyncType /\ CallType /\ CountType /\ Reading

\* The type invariant is these parts.
LEMMA TypeParts == TypeInv => TypeOK
BY DEF TypeInv, TypeOK, ProcType, PeopleType, ConfigType, SyncType, CallType, CountType,
       SetupRows, JobRow, Places

\* A set of rows is never mistaken for no sync, nor a request for no request.
LEMMA Distinct == /\ \A S : S \subseteq Row => S # NoSync
                  /\ \A j \in JobRow : j # NoJob
<1>1. ASSUME NEW S, S \subseteq Row PROVE S # NoSync
  <2>1. \A p \in S : p.id # 0  BY <1>1, SetupAssumption DEF Row
  <2>2. [id |-> 0].id = 0  OBVIOUS
  <2> QED BY <2>1, <2>2 DEF NoSync
<1>2. ASSUME NEW j \in JobRow PROVE j # NoJob
  <2>1. j.at # "free"  BY DEF JobRow, Places
  <2> QED BY <2>1 DEF NoJob
<1> QED BY <1>1, <1>2

\* Rows of a node are rows.
LEMMA RowsOf == ASSUME ConfigType, NEW n PROVE On(n) \subseteq rows /\ ActiveOn(n) \subseteq Row
BY DEF ConfigType, On, ActiveOn

\* A new row is one.
LEMMA NewRowType ==
    ASSUME NEW i \in 1..MaxRows, NEW n \in {"local", "remote", "orphan"}, NEW name \in Names,
           NEW port \in Ports, NEW by \in {"panel", "operator"}
    PROVE  NewRow(i, n, name, port, by) \in Row
BY DEF NewRow, Row

\* So are rows that fall to another node.
LEMMA AdoptedType ==
    ASSUME ConfigType, NEW n \in {"local", "remote"}, NEW S \in SUBSET On("orphan")
    PROVE  Adopted(S, n) \subseteq Row
<1>1. ASSUME NEW p \in S PROVE [p EXCEPT !.node = n] \in Row
  <2>1. p \in Row  BY <1>1, RowsOf DEF ConfigType
  <2> QED BY <2>1 DEF Row
<1> QED BY <1>1 DEF Adopted, ConfigType

\* The initial states are typed.
LEMMA TypeInit == Init => TypeInv
<1> SUFFICES ASSUME Init PROVE TypeInv  OBVIOUS
<1>1. ProcType  BY DEF Init, ProcType
<1>2. PeopleType  BY DEF Init, PeopleType, SetupRows, NoRow
<1>0. 0 \in 0..MaxRows /\ 0 \in 0..MaxEdits /\ 0 \in 0..MaxCrashes  BY SetupAssumption
<1>3. ConfigType  BY <1>0 DEF Init, ConfigType
<1>4. SyncType  BY DEF Init, SyncType
<1>5. CallType  BY DEF Init, CallType
<1>6. CountType
  <2>1. hadNodes \in BOOLEAN /\ forgotten \in BOOLEAN  BY Zenon DEF Init
  <2> QED BY <1>0, <2>1 DEF Init, CountType
<1>7. Reading  BY DEF Init, Reading
<1> QED BY <1>1, <1>2, <1>3, <1>4, <1>5, <1>6, <1>7 DEF TypeInv

\* What a sync leaves behind are rows.
LEMMA InterruptedType == ASSUME SyncType, live' \in Interrupted PROVE live' \subseteq Row
BY DEF SyncType, Interrupted
\* Groups of variables that a step leaves alone keep their types.
LEMMA TypeFrame ==
    /\ ProcType /\ UNCHANGED boot => ProcType'
    /\ PeopleType /\ UNCHANGED people => PeopleType'
    /\ ConfigType /\ UNCHANGED config => ConfigType'
    /\ SyncType /\ UNCHANGED applied => SyncType'
    /\ CallType /\ UNCHANGED calls => CallType'
    /\ CountType /\ UNCHANGED counts => CountType'
BY DEF ProcType, PeopleType, ConfigType, SyncType, CallType, CountType,
       boot, people, config, applied, calls, counts

\* Outside start-up's own sync nobody holds APPLY_LOCK at start-up.
LEMMA ReadingAtStart ==
    ASSUME PeopleInv, proc # "serving", job' = job, proc' = "applying" => snap' # NoSync
    PROVE  Reading'
BY DEF PeopleInv, RequestInv, Reading

\* Start-up keeps types; its sync has read rows before it applies them.
LEMMA StartupTyped == TypeInv /\ PeopleInv /\ Startup => TypeInv'
<1> SUFFICES ASSUME TypeInv, PeopleInv, Startup PROVE TypeInv'  OBVIOUS
<1> USE TypeFrame DEF TypeInv
<1>0. proc # "serving"
  BY DEF Startup, Start, InitUsers, CheckFlag, Seed, BootSyncReads, BootSyncApplied, Touch
<1>1. CASE Start \/ CheckFlag \/ Touch
  <2>1. /\ ProcType' /\ job' = job /\ proc' # "applying"
        /\ UNCHANGED people /\ UNCHANGED config /\ UNCHANGED applied /\ UNCHANGED calls
        /\ UNCHANGED counts
    BY <1>1 DEF Start, CheckFlag, Touch, ProcType, calls
  <2>2. Reading'  BY <1>0, <2>1, ReadingAtStart
  <2> QED BY <2>1, <2>2
<1>2. CASE InitUsers
  <2>1. /\ ProcType' /\ job' = job /\ proc' # "applying"
        /\ UNCHANGED config /\ UNCHANGED applied /\ UNCHANGED calls /\ UNCHANGED counts
    BY <1>2 DEF InitUsers, ProcType, calls
  <2>2. PeopleType'
    <3>1. CASE users = {} /\ setup = NoRow
      <4>1. setup' = [state |-> "required", changed |-> FALSE] /\ ownerChanged' = FALSE
        BY <1>2, <3>1 DEF InitUsers
      <4>2. deleting' = deleting /\ hadUsers' = hadUsers /\ users' = users \cup {"admin"}
        BY <1>2 DEF InitUsers
      <4>3. setup' \in SetupRows  BY <4>1 DEF SetupRows
      <4> QED BY <4>1, <4>2, <4>3 DEF PeopleType, Users
    <3>2. CASE ~(users = {} /\ setup = NoRow)
      <4>1. setup' = setup /\ ownerChanged' = ownerChanged  BY <1>2, <3>2 DEF InitUsers
      <4>2. deleting' = deleting /\ hadUsers' = hadUsers /\ users' = users \cup {"admin"}
        BY <1>2 DEF InitUsers
      <4> QED BY <4>1, <4>2 DEF PeopleType, Users
    <3> QED BY <3>1, <3>2
  <2>3. Reading'  BY <1>0, <2>1, ReadingAtStart
  <2> QED BY <2>1, <2>2, <2>3
<1>3. CASE Seed
  <2>1. /\ ProcType' /\ job' = job /\ proc' # "applying"
        /\ UNCHANGED people /\ UNCHANGED applied /\ UNCHANGED calls
    BY <1>3 DEF Seed, ProcType, calls
  <2>2. ConfigType'
    <3>1. CASE UNCHANGED config  BY <3>1
    <3>2. CASE /\ made + 2 <= MaxRows /\ nodes' = {"local"} /\ late' = late
               /\ \E S \in SUBSET On("orphan") : rows' = Adopted(S, "local") \cup Defaults(made)
               /\ made' = made + 2
      <4>1. made + 1 \in 1..MaxRows /\ made + 2 \in 1..MaxRows /\ made' \in 0..MaxRows
        BY <3>2, SetupAssumption DEF ConfigType
      <4>2. Defaults(made) \subseteq Row  BY <4>1, NewRowType DEF Defaults, Names, Ports
      <4>3. rows' \subseteq Row  BY <3>2, <4>2, AdoptedType
      <4> QED BY <3>2, <4>1, <4>3 DEF ConfigType
    <3> QED BY <1>3, <3>1, <3>2 DEF Seed
  <2>3. CountType'  BY <1>3 DEF Seed, CountType
  <2>4. Reading'  BY <1>0, <2>1, ReadingAtStart
  <2> QED BY <2>1, <2>2, <2>3, <2>4
<1>4. CASE BootSyncReads
  <2>1. /\ ProcType' /\ job' = job /\ live' = live /\ snap' = ActiveOn("local")
        /\ UNCHANGED people /\ UNCHANGED config /\ UNCHANGED calls /\ UNCHANGED counts
    BY <1>4 DEF BootSyncReads, ProcType, calls
  <2>2. ActiveOn("local") \subseteq Row  BY RowsOf
  <2>3. SyncType'  BY <2>1, <2>2 DEF SyncType
  <2>4. Reading'  BY <1>0, <2>1, <2>2, Distinct, ReadingAtStart
  <2> QED BY <2>1, <2>3, <2>4
<1>5. CASE BootSyncApplied
  <2>1. /\ ProcType' /\ job' = job /\ live' = snap /\ snap' = NoSync /\ proc' # "applying"
        /\ UNCHANGED people /\ UNCHANGED config /\ UNCHANGED calls /\ UNCHANGED counts
    BY <1>5 DEF BootSyncApplied, ProcType, calls
  <2>2. snap # NoSync  BY <1>5 DEF BootSyncApplied, Reading
  <2>3. SyncType'  BY <2>1, <2>2 DEF SyncType
  <2>4. Reading'  BY <1>0, <2>1, ReadingAtStart
  <2> QED BY <2>1, <2>3, <2>4
<1> QED BY <1>1, <1>2, <1>3, <1>4, <1>5 DEF Startup

\* So do a failed start-up and a crash.
LEMMA FaultsTyped == TypeInv /\ PeopleInv /\ (BootFails \/ Crash) => TypeInv'
<1> SUFFICES ASSUME TypeInv, PeopleInv, BootFails \/ Crash PROVE TypeInv'  OBVIOUS
<1> USE TypeFrame DEF TypeInv
<1>1. CASE BootFails
  <2>1. /\ proc # "serving" /\ ProcType' /\ job' = job /\ proc' # "applying"
        /\ live' \in Interrupted /\ snap' = NoSync
        /\ UNCHANGED people /\ UNCHANGED config /\ UNCHANGED calls /\ UNCHANGED counts
    BY <1>1 DEF BootFails, ProcType, calls
  <2>2. SyncType'  BY <2>1, InterruptedType DEF SyncType
  <2>3. Reading'  BY <2>1, ReadingAtStart
  <2> QED BY <2>1, <2>2, <2>3
<1>2. CASE Crash
  <2>1. /\ ProcType' /\ PeopleType' /\ ConfigType'
        /\ live' \in Interrupted /\ snap' = NoSync /\ waiting' = {} /\ job' = NoJob
        /\ proc' = "down"
    BY <1>2 DEF Crash, ProcType, PeopleType, ConfigType
  <2>2. SyncType'  BY <2>1, InterruptedType DEF SyncType
  <2>3. CallType' /\ Reading'  BY <2>1 DEF CallType, Reading
  <2>4. CountType'  BY <1>2, SetupAssumption DEF Crash, CountType
  <2> QED BY <2>1, <2>2, <2>3, <2>4
<1> QED BY <1>1, <1>2

\* A job that goes on to another place is one.
LEMMA GotoType ==
    ASSUME CallType, job # NoJob, NEW place \in Places, Goto(place)
    PROVE  /\ job' \in JobRow /\ job' # NoJob
           /\ job'.at = place /\ job'.req = job.req /\ job'.node = job.node
           /\ job'.preset = job.preset /\ job'.row = job.row /\ job'.edited = job.edited
<1>1. job \in JobRow  BY DEF CallType
<1>2. job' = [job EXCEPT !.at = place]  BY DEF Goto
<1>3. job' \in JobRow  BY <1>1, <1>2 DEF JobRow
<1> QED BY <1>1, <1>2, <1>3, Distinct DEF JobRow

\* A request that is admitted becomes a job.
LEMMA BeginType ==
    ASSUME NEW r \in Requests, NEW n \in {"local", "remote"},
           NEW preset \in {"recommended", "existing"}, NEW place \in Places,
           NEW row \in 0..MaxRows, Begin(r, n, preset, place, row)
    PROVE  /\ job' \in JobRow /\ job' # NoJob
           /\ job'.at = place /\ job'.node = n /\ job'.preset = preset /\ job'.row = row
<1>1. job' = [at |-> place, req |-> r, node |-> n, preset |-> preset, row |-> row,
              edited |-> FALSE]
  BY DEF Begin
<1>2. job' \in JobRow  BY <1>1 DEF JobRow
<1> QED BY <1>1, <1>2, Distinct

\* What Accept makes of a request: a place, and a row it has read.
LEMMA AcceptShape ==
    ASSUME ConfigType, NEW r \in Requests, NEW n \in {"local", "remote"},
           NEW preset \in {"recommended", "existing"}, Accept(r, n, preset)
    PROVE  \E place \in {"inserting", "enabling", "stored"}, row \in 0..MaxRows :
              /\ Begin(r, n, preset, place, row)
              /\ place = "inserting" => preset = "recommended" /\ n = "local" /\ Vless(n) = {}
              /\ place = "enabling" => \E p \in Vless(n) : p.id = row /\ p.complete
              /\ place = "stored" => \E p \in ActiveOn(n) :
                    p.complete /\ (preset = "recommended" => p.name = "vless")
<1>0. 0 \in 0..MaxRows  BY SetupAssumption
<1>1. CASE preset = "recommended" /\ CanAdd(n) /\ Begin(r, n, preset, "inserting", 0)
  BY <1>0, <1>1 DEF CanAdd
<1>2. CASE \E p \in Vless(n) :
              /\ preset = "recommended" /\ CanReuse(n, p)
              /\ Begin(r, n, preset, IF p.active THEN "stored" ELSE "enabling", p.id)
  <2>1. PICK p \in Vless(n) :
              /\ preset = "recommended" /\ CanReuse(n, p)
              /\ Begin(r, n, preset, IF p.active THEN "stored" ELSE "enabling", p.id)
    BY <1>2
  <2>2. p \in On(n) /\ p.name = "vless"  BY DEF Vless
  <2>3. p \in Row  BY <2>2, RowsOf DEF ConfigType
  <2>4. p.id \in 0..MaxRows  BY <2>3, SetupAssumption DEF Row
  <2>5. p.complete  BY <2>1 DEF CanReuse, ClientSupported
  <2>6. CASE p.active
    <3>1. p \in ActiveOn(n)  BY <2>2, <2>6 DEF ActiveOn
    <3>2. Begin(r, n, preset, "stored", p.id)  BY <2>1, <2>6
    <3> QED BY <2>2, <2>4, <2>5, <3>1, <3>2
  <2>7. CASE ~p.active
    <3>1. Begin(r, n, preset, "enabling", p.id)  BY <2>1, <2>7
    <3> QED BY <2>4, <2>5, <3>1
  <2> QED BY <2>6, <2>7
<1>3. CASE preset = "existing" /\ CanKeep(n) /\ Begin(r, n, preset, "stored", 0)
  <2>1. \E p \in ActiveOn(n) : p.complete  BY <1>3 DEF CanKeep, ClientSupported
  <2> QED BY <1>0, <1>3, <2>1
<1> QED BY <1>1, <1>2, <1>3 DEF Accept
\* The steps of a completion keep types.
LEMMA RequestTyped ==
    ASSUME TypeInv, PeopleInv, NEW r \in Requests,
           Call(r) \/ Admit(r) \/ Progress(r)
    PROVE  TypeInv'
<1> USE TypeFrame DEF TypeInv
<1>0. /\ proc = "serving" /\ UNCHANGED boot /\ UNCHANGED counts
  BY DEF Call, Admit, Refuse, Accept, Progress, Insert, Enable, SyncReads, SyncApplied, Fail,
         Complete, Holds, Take, serving
<1>1. proc' = "serving"  BY <1>0 DEF boot
<1>2. CASE Call(r)
  <2>1. UNCHANGED people /\ UNCHANGED config /\ UNCHANGED applied /\ job' = job
    BY <1>2 DEF Call
  <2>2. CallType'  BY <1>2, <2>1 DEF Call, CallType
  <2>3. Reading'  BY <1>1, <2>1 DEF Reading, applied
  <2> QED BY <1>0, <2>1, <2>2, <2>3
<1>3. CASE Admit(r)
  <2>1. PICK n \in {"local", "remote"}, preset \in {"recommended", "existing"} :
            Refuse(r, n, preset) \/ Accept(r, n, preset)
    BY <1>3 DEF Admit
  <2>2. UNCHANGED people /\ UNCHANGED config /\ UNCHANGED applied /\ waiting' = waiting \ {r}
    BY <2>1 DEF Refuse, Accept, Take
  <2>3. CASE Refuse(r, n, preset)
    <3>1. job' = job  BY <2>3 DEF Refuse
    <3>2. CallType'  BY <2>2, <3>1 DEF CallType
    <3>3. Reading'  BY <1>1, <2>2, <3>1 DEF Reading, applied
    <3> QED BY <1>0, <2>2, <3>2, <3>3
  <2>4. CASE Accept(r, n, preset)
    <3>1. PICK place \in {"inserting", "enabling", "stored"}, row \in 0..MaxRows :
              Begin(r, n, preset, place, row)
      BY <2>4, AcceptShape
    <3>2. place \in Places  BY DEF Places
    <3>3. job' \in JobRow /\ job'.at = place  BY <3>1, <3>2, BeginType
    <3>4. CallType'  BY <2>2, <3>3 DEF CallType
    <3>5. Reading'  BY <1>1, <3>3 DEF Reading
    <3> QED BY <1>0, <2>2, <3>4, <3>5
  <2> QED BY <2>1, <2>3, <2>4
<1>4. CASE Insert(r)
  <2>1. /\ UNCHANGED people /\ UNCHANGED applied /\ waiting' = waiting /\ nodes' = nodes
        /\ late' = late /\ job # NoJob /\ Goto("stored") /\ made < MaxRows /\ made' = made + 1
        /\ rows' = rows \cup {NewRow(made + 1, job.node, "vless", 443, "panel")}
    BY <1>4 DEF Insert, Holds
  <2>2. job' \in JobRow /\ job'.at = "stored"  BY <2>1, GotoType DEF Places
  <2>3. job.node \in {"local", "remote"}  BY <2>1 DEF CallType, JobRow
  <2>4. made + 1 \in 1..MaxRows /\ made' \in 0..MaxRows
    BY <2>1, SetupAssumption DEF ConfigType
  <2>5. NewRow(made + 1, job.node, "vless", 443, "panel") \in Row
    BY <2>3, <2>4, NewRowType DEF Names, Ports
  <2>6. ConfigType'  BY <2>1, <2>4, <2>5 DEF ConfigType
  <2>7. CallType'  BY <2>1, <2>2 DEF CallType
  <2>8. Reading'  BY <1>1, <2>2 DEF Reading
  <2> QED BY <1>0, <2>1, <2>6, <2>7, <2>8
<1>5. CASE Enable(r)
  <2>1. /\ UNCHANGED people /\ UNCHANGED applied /\ waiting' = waiting /\ nodes' = nodes
        /\ job # NoJob /\ made' = made /\ late' = late
    BY <1>5 DEF Enable, Holds
  <2>2. CASE \E p \in rows : p.id = job.row
    <3>1. /\ Goto("stored")
          /\ rows' = {[p EXCEPT !.active = p.active \/ p.id = job.row] : p \in rows}
      BY <1>5, <2>2 DEF Enable
    <3>2. job' \in JobRow /\ job'.at = "stored"  BY <2>1, <3>1, GotoType DEF Places
    <3>3. ASSUME NEW p \in rows
          PROVE  [p EXCEPT !.active = p.active \/ p.id = job.row] \in Row
      <4>1. p \in Row  BY DEF ConfigType
      <4>2. (p.active \/ p.id = job.row) \in BOOLEAN  OBVIOUS
      <4> QED BY <4>1, <4>2 DEF Row
    <3>4. rows' \subseteq Row  BY <3>1, <3>3
    <3>5. ConfigType'  BY <2>1, <3>4 DEF ConfigType
    <3>6. CallType'  BY <2>1, <3>2 DEF CallType
    <3>7. Reading'  BY <1>1, <3>2 DEF Reading
    <3> QED BY <1>0, <2>1, <3>5, <3>6, <3>7
  <2>3. CASE ~\E p \in rows : p.id = job.row
    <3>1. job' = NoJob /\ rows' = rows  BY <1>5, <2>3 DEF Enable
    <3>2. ConfigType' /\ CallType' /\ Reading'
      BY <1>1, <2>1, <3>1 DEF ConfigType, CallType, Reading
    <3> QED BY <1>0, <2>1, <3>2
  <2> QED BY <2>2, <2>3
<1>6. CASE SyncReads(r)
  <2>1. /\ UNCHANGED people /\ UNCHANGED config /\ waiting' = waiting /\ live' = live
        /\ job # NoJob /\ Goto("applying") /\ snap' = ActiveOn("local")
    BY <1>6 DEF SyncReads, Holds
  <2>2. job' \in JobRow  BY <2>1, GotoType DEF Places
  <2>3. snap' \subseteq Row /\ snap' # NoSync  BY <2>1, RowsOf, Distinct
  <2>4. SyncType' /\ CallType' /\ Reading'
    BY <2>1, <2>2, <2>3 DEF SyncType, CallType, Reading
  <2> QED BY <1>0, <2>1, <2>4
<1>7. CASE SyncApplied(r)
  <2>1. /\ UNCHANGED people /\ UNCHANGED config /\ waiting' = waiting
        /\ job # NoJob /\ job.at = "applying" /\ Goto("applied")
        /\ live' = snap /\ snap' = NoSync
    BY <1>7 DEF SyncApplied, Holds
  <2>2. job' \in JobRow /\ job'.at = "applied"  BY <2>1, GotoType DEF Places
  <2>3. snap # NoSync  BY <2>1 DEF Reading
  <2>4. SyncType' /\ CallType' /\ Reading'
    BY <1>1, <2>1, <2>2, <2>3 DEF SyncType, CallType, Reading
  <2> QED BY <1>0, <2>1, <2>4
<1>8. CASE Fail(r)
  <2>1. /\ UNCHANGED people /\ UNCHANGED config /\ waiting' = waiting
        /\ job' = NoJob /\ live' \in Interrupted /\ snap' = NoSync
    BY <1>8 DEF Fail
  <2>2. SyncType'  BY <2>1, InterruptedType DEF SyncType
  <2>3. CallType' /\ Reading'  BY <1>1, <2>1 DEF CallType, Reading
  <2> QED BY <1>0, <2>1, <2>2, <2>3
<1>9. CASE Complete(r)
  <2>1. /\ UNCHANGED config /\ UNCHANGED applied /\ waiting' = waiting /\ job' = NoJob
        /\ setup' = [setup EXCEPT !.state = "configured"]
        /\ UNCHANGED <<users, deleting, ownerChanged, hadUsers>>
    BY <1>9 DEF Complete
  <2>2. PeopleType'  BY <2>1 DEF PeopleType, SetupRows
  <2>3. CallType' /\ Reading'  BY <1>1, <2>1 DEF CallType, Reading
  <2> QED BY <1>0, <2>1, <2>2, <2>3
<1> QED BY <1>2, <1>3, <1>4, <1>5, <1>6, <1>7, <1>8, <1>9 DEF Progress

\* What an edit leaves: the same job, marked.
LEMMA EditShape ==
    ASSUME CallType, Edit
    PROVE  \/ job = NoJob /\ job' = NoJob
           \/ /\ job # NoJob /\ job' # NoJob /\ job' \in JobRow /\ job'.edited
              /\ job'.at = job.at /\ job'.node = job.node /\ job'.preset = job.preset
<1>1. CASE job = NoJob  BY <1>1 DEF Edit
<1>2. CASE job # NoJob
  <2>1. job \in JobRow /\ job' = [job EXCEPT !.edited = TRUE]  BY <1>2 DEF CallType, Edit
  <2>2. /\ job' \in JobRow /\ job'.edited /\ job'.at = job.at /\ job'.node = job.node
        /\ job'.preset = job.preset
    BY <2>1 DEF JobRow
  <2> QED BY <1>2, <2>2, Distinct
<1> QED BY <1>1, <1>2

\* The parts of the type invariant an edit leaves to the rows it makes.
LEMMA EditTyped ==
    ASSUME TypeInv, Edit, ConfigType', hadNodes' \in BOOLEAN, forgotten' \in BOOLEAN
    PROVE  TypeInv'
<1> USE TypeFrame DEF TypeInv
<1>1. /\ proc = "serving" /\ UNCHANGED boot /\ UNCHANGED people /\ UNCHANGED applied
      /\ waiting' = waiting /\ proc' = proc /\ snap' = snap
  BY DEF Edit, serving, boot, applied
<1>2. CallType'  BY <1>1, EditShape DEF CallType
<1>3. Reading'  BY <1>1, EditShape DEF Reading
<1>4. CountType'  BY SetupAssumption DEF Edit, CountType
<1> QED BY <1>1, <1>2, <1>3, <1>4

\* Edits keep types.
LEMMA EditsTyped ==
    ASSUME TypeInv,
           \/ AddRemote \/ DeleteRemote
           \/ \E n \in {"local", "remote", "orphan"}, name \in Names, port \in Ports :
                 CreateProtocol(n, name, port)
           \/ \E p \in rows, active, complete \in BOOLEAN : UpdateProtocol(p, active, complete)
           \/ \E p \in rows : DeleteProtocol(p)
    PROVE  TypeInv'
<1> USE DEF TypeInv
<1>0. hadNodes \in BOOLEAN /\ forgotten \in BOOLEAN  BY DEF CountType
<1>1. CASE AddRemote
  <2>1. rows' \subseteq Row  BY <1>1, AdoptedType DEF AddRemote
  <2>2. ConfigType'  BY <1>1, <2>1 DEF AddRemote, ConfigType
  <2> QED BY <1>1, <2>2, EditTyped DEF AddRemote
<1>5. CASE DeleteRemote
  <2>1. ConfigType'  BY <1>5 DEF DeleteRemote, ConfigType
  <2> QED BY <1>0, <1>5, <2>1, EditTyped DEF DeleteRemote
<1>2. ASSUME NEW n \in {"local", "remote", "orphan"}, NEW name \in Names, NEW port \in Ports,
             CreateProtocol(n, name, port)
      PROVE  TypeInv'
  <2>1. made + 1 \in 1..MaxRows /\ made + 1 \in 0..MaxRows
    BY <1>2, SetupAssumption DEF CreateProtocol, ConfigType
  <2>2. NewRow(made + 1, n, name, port, "operator") \in Row  BY <2>1, NewRowType
  <2>3. ConfigType'  BY <1>2, <2>1, <2>2 DEF CreateProtocol, ConfigType
  <2> QED BY <1>0, <1>2, <2>3, EditTyped DEF CreateProtocol
<1>3. ASSUME NEW p \in rows, NEW active \in BOOLEAN, NEW complete \in BOOLEAN,
             UpdateProtocol(p, active, complete)
      PROVE  TypeInv'
  <2>1. p \in Row  BY DEF ConfigType
  <2>2. [p EXCEPT !.active = active, !.complete = complete] \in Row  BY <2>1 DEF Row
  <2>3. ConfigType'  BY <1>3, <2>2 DEF UpdateProtocol, ConfigType
  <2> QED BY <1>0, <1>3, <2>3, EditTyped DEF UpdateProtocol
<1>4. ASSUME NEW p \in rows, DeleteProtocol(p) PROVE TypeInv'
  <2>1. ConfigType'  BY <1>4 DEF DeleteProtocol, ConfigType
  <2> QED BY <1>0, <1>4, <2>1, EditTyped DEF DeleteProtocol
<1> QED BY <1>1, <1>2, <1>3, <1>4, <1>5

\* So does everything else other requests do.
LEMMA OthersTyped == TypeInv /\ Others => TypeInv'
<1> SUFFICES ASSUME TypeInv, Others PROVE TypeInv'  OBVIOUS
<1> USE TypeFrame DEF TypeInv
<1>1. ASSUME NEW u \in Users, ChangePassword(u) \/ AdmitDelete(u) \/ DeleteUser(u)
      PROVE  TypeInv'
  <2>1. /\ UNCHANGED boot /\ UNCHANGED config /\ UNCHANGED applied /\ UNCHANGED calls
        /\ UNCHANGED counts
    BY <1>1 DEF ChangePassword, AdmitDelete, DeleteUser
  <2>2. PeopleType'
    <3>1. CASE ChangePassword(u)
      <4>1. setup' \in SetupRows
        <5>1. (setup.changed \/ u = Owner) \in BOOLEAN  OBVIOUS
        <5>2. setup' = [setup EXCEPT !.changed = (setup.changed \/ u = Owner)]
          BY <3>1 DEF ChangePassword
        <5> QED BY <5>1, <5>2 DEF PeopleType, SetupRows
      <4>2. ownerChanged' \in BOOLEAN  BY <3>1 DEF ChangePassword
      <4> QED BY <3>1, <4>1, <4>2 DEF ChangePassword, PeopleType
    <3>2. CASE AdmitDelete(u)  BY <3>2 DEF AdmitDelete, PeopleType
    <3>3. CASE DeleteUser(u)
      <4>1. setup' \in SetupRows
        BY <3>3 DEF DeleteUser, PeopleType, SetupRows, NoRow
      <4>2. hadUsers' \in BOOLEAN  BY <3>3 DEF DeleteUser
      <4>3. /\ deleting' = deleting \ {u} /\ users' = users \ {u}
            /\ ownerChanged' = ownerChanged
        BY <3>3 DEF DeleteUser
      <4> QED BY <4>1, <4>2, <4>3 DEF PeopleType
    <3> QED BY <1>1, <3>1, <3>2, <3>3
  <2>3. Reading'  BY <2>1 DEF Reading, boot, applied, calls
  <2> QED BY <2>1, <2>2, <2>3
<1>2. CASE CreateUser
  <2>1. UNCHANGED boot /\ UNCHANGED config /\ UNCHANGED applied /\ UNCHANGED calls
    BY <1>2 DEF CreateUser
  <2>2. PeopleType'  BY <1>2 DEF CreateUser, PeopleType, Users
  <2>3. CountType'  BY <1>2, SetupAssumption DEF CreateUser, CountType
  <2>4. Reading'  BY <2>1 DEF Reading, boot, applied, calls
  <2> QED BY <2>1, <2>2, <2>3, <2>4
<1>3. CASE OperatorSync
  <2>1. /\ UNCHANGED boot /\ UNCHANGED people /\ UNCHANGED config /\ UNCHANGED calls
        /\ UNCHANGED counts /\ snap' = snap /\ live' = ActiveOn("local")
    BY <1>3 DEF OperatorSync
  <2>2. SyncType'  BY <2>1, RowsOf DEF SyncType
  <2>3. Reading'  BY <2>1 DEF Reading, boot, calls
  <2> QED BY <2>1, <2>2, <2>3
<1>4. CASE \/ AddRemote \/ DeleteRemote
           \/ \E n \in {"local", "remote", "orphan"}, name \in Names, port \in Ports :
                 CreateProtocol(n, name, port)
           \/ \E p \in rows, active, complete \in BOOLEAN : UpdateProtocol(p, active, complete)
           \/ \E p \in rows : DeleteProtocol(p)
  BY <1>4, EditsTyped
<1> QED BY <1>1, <1>2, <1>3, <1>4 DEF Others

\* Every step keeps types.
LEMMA TypeStep == TypeInv /\ PeopleInv /\ [Next]_vars => TypeInv'
<1> SUFFICES ASSUME TypeInv, PeopleInv, [Next]_vars PROVE TypeInv'  OBVIOUS
<1>1. CASE Startup  BY <1>1, StartupTyped
<1>2. CASE BootFails \/ Crash  BY <1>2, FaultsTyped
<1>3. ASSUME NEW r \in Requests, Call(r) \/ Admit(r) \/ Progress(r) PROVE TypeInv'
  BY <1>3, RequestTyped
<1>4. CASE Others  BY <1>4, OthersTyped
<1>5. CASE UNCHANGED vars
  <2>1. /\ UNCHANGED boot /\ UNCHANGED people /\ UNCHANGED config /\ UNCHANGED applied
        /\ UNCHANGED calls /\ UNCHANGED counts
    BY <1>5 DEF vars
  <2>2. Reading'  BY <2>1 DEF TypeInv, Reading, boot, applied, calls
  <2> QED BY <2>1, <2>2, TypeFrame DEF TypeInv
<1> QED BY <1>1, <1>2, <1>3, <1>4, <1>5 DEF Next

\* Types hold in every reachable state.
LEMMA TypeAlways == Spec => []TypeInv
BY TypeInit, TypeStep, PeopleAlways, PTL DEF Spec

\* Every variable has its type in every reachable state.
THEOREM SetupTyped == Spec => []TypeOK
BY TypeAlways, TypeParts, PTL
-----------------------------------------------------------------------------
(* The seed is there once and whole, where there is a local node, and its    *)
(* credentials are the only ones the panel makes.                            *)

Seeded == "local" \in nodes
Own(p) == p.node = "local" /\ p.name = "vless" /\ p.by = "panel"

StoreInv ==
    /\ \A p \in rows : IF p.node = "local" THEN Seeded ELSE p.by = "operator"
    /\ seeds = IF Seeded THEN 1 ELSE 0
    /\ hadNodes /\ ~forgotten => ~Seeded /\ (nodes # {} \/ flag)
    /\ Seeded /\ edits = 0 => \A name \in Names : \E p \in rows :
                                  p.node = "local" /\ p.active /\ p.name = name
    /\ \A p, q \in rows : Own(p) /\ Own(q) => p = q
    /\ job # NoJob /\ job.at = "inserting" =>
          job.node = "local" /\ job.preset = "recommended" /\ "local" \in nodes
          /\ ~\E p \in rows : Own(p)

\* Start-up comes to seed only without the marker.
MarkInv == proc = "seeding" => ~flag

\* Only the look at the marker leads to the seed.
LEMMA MarkAlways == Spec => []MarkInv
<1>1. Init => MarkInv  BY DEF Init, MarkInv
<1>2. MarkInv /\ [Next]_vars => MarkInv'
  <2> SUFFICES ASSUME MarkInv, [Next]_vars, proc' = "seeding" PROVE ~flag'
    BY DEF MarkInv
  <2>1. CASE CheckFlag  BY <2>1 DEF CheckFlag
  <2>2. CASE UNCHANGED boot  BY <2>2 DEF MarkInv, boot
  <2>3. CASE Startup \/ BootFails \/ Crash
    BY <2>1, <2>3 DEF Startup, Start, InitUsers, Seed, BootSyncReads, BootSyncApplied, Touch,
                      BootFails, Crash
  <2>4. CASE \E r \in Requests : Call(r) \/ Admit(r) \/ Progress(r)
    BY <2>2, <2>4 DEF Call, Admit, Refuse, Accept, Progress, Insert, Enable, SyncReads,
                      SyncApplied, Fail, Complete
  <2>5. CASE Others
    BY <2>2, <2>5 DEF Others, ChangePassword, AdmitDelete, DeleteUser, CreateUser, Edit,
                      AddRemote, DeleteRemote, CreateProtocol, UpdateProtocol, DeleteProtocol,
                      OperatorSync
  <2>6. CASE UNCHANGED vars  BY <2>2, <2>6 DEF vars
  <2> QED BY <2>3, <2>4, <2>5, <2>6 DEF Next
<1> QED BY <1>1, <1>2, PTL DEF Spec

\* The initial states satisfy the invariant of the store.
LEMMA StoreInit == Init => StoreInv
BY DEF Init, StoreInv, Seeded, NoJob

\* Nothing stored changed, and no request came to insert a row.
LEMMA StoreFrame ==
    ASSUME StoreInv, UNCHANGED <<nodes, rows, seeds, hadNodes, forgotten>>,
           flag => flag',
           edits' = edits \/ edits' # 0,
           job' # NoJob /\ job'.at = "inserting" => job' = job
    PROVE  StoreInv'
BY DEF StoreInv, Seeded

\* A row that falls to another node is one of an operator.
LEMMA AdoptedRows ==
    ASSUME TypeInv, StoreInv, NEW n \in {"local", "remote"}, NEW S \in SUBSET On("orphan"),
           NEW q \in Adopted(S, n)
    PROVE  q \in rows \/ (q.node = n /\ q.by = "operator")
<1>1. CASE q \in rows  BY <1>1
<1>2. CASE \E p \in S : q = [p EXCEPT !.node = n]
  <2>1. PICK p \in S : q = [p EXCEPT !.node = n]  BY <1>2
  <2>2. p \in rows /\ p.node = "orphan"  BY DEF On
  <2>3. p \in Row /\ p.by = "operator"  BY <2>2 DEF TypeInv, ConfigType, StoreInv
  <2> QED BY <2>1, <2>3 DEF Row
<1> QED BY <1>1, <1>2 DEF Adopted

\* Where there is no local node there are no rows of the panel: the seed is the first.
LEMMA StoreSeeds == ASSUME TypeInv, PeopleInv, MarkInv, StoreInv, Seed PROVE StoreInv'
<1>1. /\ job = NoJob /\ job' = NoJob /\ flag' = flag
      /\ UNCHANGED <<edits, hadNodes, forgotten>>
  BY DEF Seed, PeopleInv, RequestInv, calls
<1>2. CASE UNCHANGED config /\ UNCHANGED seeds
  BY <1>1, <1>2, StoreFrame DEF config
<1>3. ASSUME NEW S \in SUBSET On("orphan"),
             nodes = {}, nodes' = {"local"}, rows' = Adopted(S, "local") \cup Defaults(made),
             seeds' = seeds + 1
      PROVE  StoreInv'
  <2>1. ~Seeded /\ seeds = 0 /\ ~flag  BY <1>3 DEF StoreInv, Seeded, Seed, MarkInv
  <2>2. ~(hadNodes /\ ~forgotten)  BY <1>3, <2>1 DEF StoreInv
  <2> DEFINE first == NewRow(made + 1, "local", "shadowsocks", 8443, "panel")
             second == NewRow(made + 2, "local", "vless", 443, "panel")
  <2>3. /\ first.node = "local" /\ first.active /\ first.name = "shadowsocks"
        /\ second.node = "local" /\ second.active /\ second.name = "vless"
    BY DEF NewRow
  <2>4. first \in rows' /\ second \in rows'
        /\ \A q \in rows' : q = first \/ q = second \/ q \in Adopted(S, "local")
    BY <1>3 DEF Defaults
  <2> HIDE DEF first, second
  <2>5. \A q \in Adopted(S, "local") : q.by = "operator"
    BY <2>1, AdoptedRows DEF StoreInv
  <2>6. Seeded'  BY <1>3 DEF Seeded
  <2>7. \A name \in Names : \E p \in rows' : p.node = "local" /\ p.active /\ p.name = name
    BY <2>3, <2>4 DEF Names
  <2>8. \A q \in rows' : Own(q) => q = second
    <3> SUFFICES ASSUME NEW q \in rows', Own(q) PROVE q = second  OBVIOUS
    <3>1. q.name = "vless" /\ q.by = "panel"  BY DEF Own
    <3> QED BY <2>3, <2>4, <2>5, <3>1
  <2>9. \A q \in rows' : IF q.node = "local" THEN Seeded' ELSE q.by = "operator"
    BY <2>3, <2>4, <2>5, <2>6
  <2> QED BY <1>1, <1>3, <2>1, <2>2, <2>6, <2>7, <2>8, <2>9 DEF StoreInv
<1> QED BY <1>2, <1>3 DEF Seed

\* The only row the setup makes is the panel's first VLESS row.
LEMMA StoreInserts ==
    ASSUME TypeInv, StoreInv, NEW r \in Requests, Insert(r)
    PROVE  StoreInv'
<1>1. /\ job # NoJob /\ job.at = "inserting" /\ Goto("stored")
      /\ nodes' = nodes /\ flag' = flag /\ UNCHANGED counts
      /\ rows' = rows \cup {NewRow(made + 1, job.node, "vless", 443, "panel")}
  BY DEF Insert, Holds, boot
<1>2. job'.at = "stored"  BY <1>1, GotoType DEF TypeInv, Places
<1>3. /\ job.node = "local" /\ "local" \in nodes
      /\ ~\E p \in rows : Own(p)
  BY <1>1 DEF StoreInv
<1> DEFINE new == NewRow(made + 1, job.node, "vless", 443, "panel")
<1>4. new.node = "local"  BY <1>3 DEF NewRow
<1>5. \A p \in rows' : p = new \/ p \in rows  BY <1>1
<1> HIDE DEF new
<1>6. \A p \in rows' : IF p.node = "local" THEN Seeded' ELSE p.by = "operator"
  BY <1>1, <1>3, <1>4, <1>5 DEF StoreInv, Seeded
<1>7. \A p, q \in rows' : Own(p) /\ Own(q) => p = q
  BY <1>3, <1>5
<1>8. rows \subseteq rows'  BY <1>1
<1> QED BY <1>1, <1>2, <1>6, <1>7, <1>8 DEF StoreInv, Seeded, counts

\* Enabling changes no row but in being active.
LEMMA StoreEnables ==
    ASSUME TypeInv, StoreInv, NEW r \in Requests, Enable(r)
    PROVE  StoreInv'
<1>1. /\ job # NoJob /\ nodes' = nodes /\ flag' = flag
      /\ UNCHANGED <<edits, seeds, hadNodes, forgotten>>
  BY DEF Enable, Holds, counts, boot
<1>2. CASE ~\E p \in rows : p.id = job.row
  <2>1. job' = NoJob /\ rows' = rows  BY <1>2 DEF Enable
  <2> QED BY <1>1, <2>1, StoreFrame
<1>3. CASE \E p \in rows : p.id = job.row
  <2> DEFINE on(p) == [p EXCEPT !.active = p.active \/ p.id = job.row]
  <2>1. Goto("stored") /\ rows' = {on(p) : p \in rows}  BY <1>3 DEF Enable
  <2>2. job'.at = "stored"  BY <1>1, <2>1, GotoType DEF TypeInv, Places
  <2>3. \A p \in rows : /\ on(p).node = p.node /\ on(p).name = p.name /\ on(p).by = p.by
                        /\ p.active => on(p).active
    BY DEF TypeInv, ConfigType, Row
  <2>own. \A p \in rows : Own(on(p)) <=> Own(p)  BY <2>3 DEF Own
  <2>4. \A p \in rows : on(p) \in rows'  BY <2>1
  <2>5. \A q \in rows' : \E p \in rows : q = on(p)  BY <2>1
  <2> HIDE DEF on
  <2>6. \A p \in rows' : IF p.node = "local" THEN Seeded' ELSE p.by = "operator"
    BY <1>1, <2>3, <2>5 DEF StoreInv, Seeded
  <2>7. \A p, q \in rows' : Own(p) /\ Own(q) => p = q
    BY <2>5, <2>own DEF StoreInv
  <2>8. Seeded' /\ edits' = 0 => \A name \in Names : \E p \in rows' :
                                    p.node = "local" /\ p.active /\ p.name = name
    BY <1>1, <2>3, <2>4 DEF StoreInv, Seeded
  <2> QED BY <1>1, <2>2, <2>6, <2>7, <2>8 DEF StoreInv, Seeded
<1> QED BY <1>2, <1>3

\* What an operator edits are operators' rows, or the panel's in place.
LEMMA StoreEdits ==
    ASSUME TypeInv, StoreInv,
           \/ AddRemote \/ DeleteRemote
           \/ \E n \in {"local", "remote", "orphan"}, name \in Names, port \in Ports :
                 CreateProtocol(n, name, port)
           \/ \E p \in rows, active, complete \in BOOLEAN : UpdateProtocol(p, active, complete)
           \/ \E p \in rows : DeleteProtocol(p)
    PROVE  StoreInv'
<1>1. Edit  BY DEF AddRemote, DeleteRemote, CreateProtocol, UpdateProtocol, DeleteProtocol
<1>2. /\ edits' = edits + 1 /\ seeds' = seeds /\ flag' = flag
  BY <1>1 DEF Edit, boot
<1>3. edits' # 0  BY <1>2, SetupAssumption DEF TypeInv, CountType
<1>4. \/ job' = NoJob
      \/ job # NoJob /\ job'.at = job.at /\ job'.node = job.node /\ job'.preset = job.preset
  BY <1>1, EditShape DEF TypeInv
<1>5. CASE AddRemote
  <2>1. PICK S \in SUBSET On("orphan") : rows' = Adopted(S, "remote")  BY <1>5 DEF AddRemote
  <2>2. /\ nodes' = nodes \cup {"remote"}
        /\ hadNodes' = (hadNodes \/ seeds = 0) /\ forgotten' = (forgotten /\ seeds > 0)
    BY <1>5 DEF AddRemote
  <2>3. Seeded' <=> Seeded  BY <2>2 DEF Seeded
  <2>4. \A q \in rows' : q \in rows \/ (q.node = "remote" /\ q.by = "operator")
    BY <2>1, AdoptedRows
  <2>5. \A q \in rows' : IF q.node = "local" THEN Seeded' ELSE q.by = "operator"
    BY <2>3, <2>4 DEF StoreInv
  <2>6. \A q \in rows' : Own(q) => q \in rows  BY <2>4 DEF Own
  <2>7. hadNodes' /\ ~forgotten' => ~Seeded' /\ (nodes' # {} \/ flag')
    <3>1. CASE Seeded
      <4>1. seeds = 1 /\ ~(hadNodes /\ ~forgotten)  BY <3>1 DEF StoreInv
      <4>2. (hadNodes' <=> hadNodes) /\ (forgotten' <=> forgotten)
        BY <2>2, <4>1 DEF TypeInv, CountType
      <4> QED BY <4>1, <4>2
    <3>2. CASE ~Seeded  BY <2>2, <2>3, <3>2
    <3> QED BY <3>1, <3>2
  <2> QED BY <1>2, <1>3, <1>4, <2>2, <2>3, <2>5, <2>6, <2>7 DEF StoreInv
<1>9. CASE DeleteRemote
  <2>1. /\ nodes' = nodes \ {"remote"} /\ rows' \subseteq rows /\ hadNodes' = hadNodes
        /\ forgotten' = (forgotten \/ (nodes' = {} /\ ~flag))
    BY <1>9 DEF DeleteRemote
  <2>2. Seeded' <=> Seeded  BY <2>1 DEF Seeded
  <2>3. hadNodes' /\ ~forgotten' => ~Seeded' /\ (nodes' # {} \/ flag')
    BY <1>2, <2>1, <2>2 DEF StoreInv
  <2> QED BY <1>2, <1>3, <1>4, <2>1, <2>2, <2>3 DEF StoreInv, Seeded
<1>6. ASSUME NEW n \in {"local", "remote", "orphan"}, NEW name \in Names, NEW port \in Ports,
             CreateProtocol(n, name, port)
      PROVE  StoreInv'
  <2> DEFINE new == NewRow(made + 1, n, name, port, "operator")
  <2>1. /\ n = "local" => Seeded
        /\ rows' = rows \cup {new} /\ UNCHANGED <<nodes, hadNodes, forgotten>>
    BY <1>6 DEF CreateProtocol, Seeded
  <2>2. new.node = n /\ new.by = "operator"  BY DEF NewRow
  <2> HIDE DEF new
  <2>3. Seeded' <=> Seeded  BY <2>1 DEF Seeded
  <2>4. \A p \in rows' : Own(p) => p \in rows  BY <2>1, <2>2 DEF Own
  <2>5. \A p \in rows' : IF p.node = "local" THEN Seeded' ELSE p.by = "operator"
    BY <2>1, <2>2, <2>3 DEF StoreInv
  <2> QED BY <1>2, <1>3, <1>4, <2>1, <2>3, <2>4, <2>5 DEF StoreInv
<1>7. ASSUME NEW p \in rows, NEW active \in BOOLEAN, NEW complete \in BOOLEAN,
             UpdateProtocol(p, active, complete)
      PROVE  StoreInv'
  <2> DEFINE new == [p EXCEPT !.active = active, !.complete = complete]
  <2>1. rows' = (rows \ {p}) \cup {new} /\ UNCHANGED <<nodes, hadNodes, forgotten>>
    BY <1>7 DEF UpdateProtocol
  <2>2. p \in Row  BY DEF TypeInv, ConfigType
  <2>3. new.node = p.node /\ new.by = p.by /\ new.name = p.name  BY <2>2 DEF Row
  <2>own. Own(new) <=> Own(p)  BY <2>3 DEF Own
  <2> HIDE DEF new
  <2>4. \A q \in rows' : IF q.node = "local" THEN Seeded' ELSE q.by = "operator"
    BY <2>1, <2>3 DEF StoreInv, Seeded
  <2>5. \A q \in rows' : q = new \/ (q \in rows /\ q # p)  BY <2>1
  <2>6. \A q, s \in rows' : Own(q) /\ Own(s) => q = s
    BY <2>5, <2>own DEF StoreInv
  <2>7. job # NoJob /\ job.at = "inserting" =>
          ~\E q \in rows' : Own(q)
    BY <2>5, <2>own DEF StoreInv
  <2>8. Seeded' <=> Seeded  BY <2>1 DEF Seeded
  <2> QED BY <1>2, <1>3, <1>4, <2>1, <2>4, <2>6, <2>7, <2>8 DEF StoreInv
<1>8. ASSUME NEW p \in rows, DeleteProtocol(p) PROVE StoreInv'
  <2>1. rows' \subseteq rows /\ UNCHANGED <<nodes, hadNodes, forgotten>>
    BY <1>8 DEF DeleteProtocol
  <2>2. Seeded' <=> Seeded  BY <2>1 DEF Seeded
  <2> QED BY <1>2, <1>3, <1>4, <2>1, <2>2 DEF StoreInv
<1> QED BY <1>5, <1>6, <1>7, <1>8, <1>9

\* A request comes to insert a row only when there is no VLESS row.
LEMMA StoreAdmits ==
    ASSUME TypeInv, StoreInv, NEW r \in Requests, Admit(r)
    PROVE  StoreInv'
<1>1. PICK n \in {"local", "remote"}, preset \in {"recommended", "existing"} :
          Refuse(r, n, preset) \/ Accept(r, n, preset)
  BY DEF Admit
<1>2. UNCHANGED <<flag, nodes, rows, edits, seeds, hadNodes, forgotten>>
  BY <1>1 DEF Refuse, Accept, boot, config, counts
<1>3. CASE Refuse(r, n, preset)
  <2>1. job' = job  BY <1>3 DEF Refuse
  <2> QED BY <1>2, <2>1, StoreFrame
<1>4. CASE Accept(r, n, preset)
  <2>1. PICK place \in {"inserting", "enabling", "stored"}, row \in 0..MaxRows :
            /\ Begin(r, n, preset, place, row)
            /\ place = "inserting" => preset = "recommended" /\ n = "local" /\ Vless(n) = {}
    BY <1>4, AcceptShape DEF TypeInv
  <2>2. place \in Places  BY DEF Places
  <2>3. job'.at = place /\ job'.node = n /\ job'.preset = preset
    BY <2>1, <2>2, BeginType
  <2>4. n \in nodes  BY <1>4 DEF Accept, Ready
  <2>5. place = "inserting" => ~\E p \in rows : Own(p)
    BY <2>1 DEF Vless, On, Own
  <2> QED BY <1>2, <2>1, <2>3, <2>4, <2>5 DEF StoreInv, Seeded
<1> QED BY <1>1, <1>3, <1>4

\* Every step keeps what is known of the rows.
LEMMA StoreStep == TypeInv /\ PeopleInv /\ MarkInv /\ StoreInv /\ [Next]_vars => StoreInv'
<1> SUFFICES ASSUME TypeInv, PeopleInv, MarkInv, StoreInv, [Next]_vars PROVE StoreInv'  OBVIOUS
<1>1. CASE Seed  BY <1>1, StoreSeeds
<1>2. CASE Start \/ InitUsers \/ CheckFlag \/ BootSyncReads \/ BootSyncApplied \/ Touch
           \/ BootFails
  <2>1. /\ flag => flag'
        /\ UNCHANGED <<nodes, rows, edits, seeds, hadNodes, forgotten, job>>
    BY <1>2 DEF Start, InitUsers, CheckFlag, BootSyncReads, BootSyncApplied, Touch, BootFails,
                config, counts, calls
  <2> QED BY <2>1, StoreFrame
<1>3. CASE Crash
  <2>1. UNCHANGED <<flag, nodes, rows, edits, seeds, hadNodes, forgotten>> /\ job' = NoJob
    BY <1>3 DEF Crash, config
  <2> QED BY <2>1, StoreFrame
<1>4. ASSUME NEW r \in Requests, Call(r) \/ Admit(r) \/ Progress(r) PROVE StoreInv'
  <2>1. CASE Call(r)
    BY <2>1, StoreFrame DEF Call, boot, config, counts
  <2>2. CASE Admit(r)  BY <2>2, StoreAdmits
  <2>3. CASE Insert(r)  BY <2>3, StoreInserts
  <2>4. CASE Enable(r)  BY <2>4, StoreEnables
  <2>5. CASE SyncReads(r) \/ SyncApplied(r)
    <3>1. UNCHANGED <<flag, nodes, rows, edits, seeds, hadNodes, forgotten>>
      BY <2>5 DEF SyncReads, SyncApplied, boot, config, counts
    <3>2. job # NoJob /\ (Goto("applying") \/ Goto("applied"))
      BY <2>5 DEF SyncReads, SyncApplied, Holds
    <3>3. job'.at # "inserting"  BY <3>2, GotoType DEF TypeInv, Places
    <3> QED BY <3>1, <3>3, StoreFrame
  <2>6. CASE Fail(r) \/ Complete(r)
    <3>1. UNCHANGED <<flag, nodes, rows, edits, seeds, hadNodes, forgotten>> /\ job' = NoJob
      BY <2>6 DEF Fail, Complete, boot, config, counts
    <3> QED BY <3>1, StoreFrame
  <2> QED BY <1>4, <2>1, <2>2, <2>3, <2>4, <2>5, <2>6 DEF Progress
<1>5. CASE Others
  <2>1. ASSUME NEW u \in Users, ChangePassword(u) \/ AdmitDelete(u) \/ DeleteUser(u)
        PROVE  StoreInv'
    BY <2>1, StoreFrame DEF ChangePassword, AdmitDelete, DeleteUser, boot, config,
                         counts, calls
  <2>2. CASE CreateUser
    <3>1. UNCHANGED <<flag, nodes, rows, seeds, hadNodes, forgotten, job>> /\ edits' = edits + 1
      BY <2>2 DEF CreateUser, boot, config, calls
    <3>2. edits' # 0  BY <3>1, SetupAssumption DEF TypeInv, CountType
    <3> QED BY <3>1, <3>2, StoreFrame
  <2>3. CASE OperatorSync
    BY <2>3, StoreFrame DEF OperatorSync, boot, config, counts, calls
  <2> QED BY <1>5, <2>1, <2>2, <2>3, StoreEdits DEF Others
<1>6. CASE UNCHANGED vars
  BY <1>6, StoreFrame DEF vars, boot, config, counts, calls
<1> QED BY <1>1, <1>2, <1>3, <1>4, <1>5, <1>6 DEF Next, Startup

\* It holds in every reachable state.
LEMMA StoreAlways == Spec => []StoreInv
BY StoreInit, StoreStep, TypeAlways, PeopleAlways, MarkAlways, PTL DEF Spec

\* However often start-up is interrupted and tried again, an installation is seeded at
\* most once and never by half, and one that had nodes before is not seeded while one of
\* them is left or the marker is there (bootstrap.run_once and _seed).
THEOREM SeededOnce == Spec => []SeededOnceAndWhole
<1>1. TypeInv /\ StoreInv => SeededOnceAndWhole
  <2> SUFFICES ASSUME TypeInv, StoreInv PROVE SeededOnceAndWhole  OBVIOUS
  <2>1. seeds <= 1 /\ (hadNodes /\ ~forgotten => seeds = 0)  BY DEF StoreInv, Seeded
  <2>2. ASSUME seeds = 1, edits = 0 PROVE {p.name : p \in ActiveOn("local")} = Names
    <3>1. \A name \in Names : \E p \in ActiveOn("local") : p.name = name
      BY <2>2 DEF StoreInv, Seeded, ActiveOn, On
    <3>2. \A p \in ActiveOn("local") : p.name \in Names
      BY RowsOf DEF TypeInv, Row
    <3> QED BY <3>1, <3>2
  <2> QED BY <2>1, <2>2 DEF SeededOnceAndWhole
<1> QED BY <1>1, TypeAlways, StoreAlways, PTL

\* Retries, restarts and concurrent requests never make the panel generate a second
\* VLESS row beside the first (complete_setup, bootstrap._seed).
THEOREM CredentialsStay == Spec => []CredentialsReused
<1>1. StoreInv => CredentialsReused  BY DEF StoreInv, CredentialsReused, Vless, On, Own
<1> QED BY <1>1, StoreAlways, PTL
-----------------------------------------------------------------------------
(* What a completion relies on, unless an operator edited protocols during   *)
(* it: the protocol it found or stored is stored, read and live in turn.     *)

Serves(p) == /\ p.node = "local" /\ p.complete
             /\ job.preset = "recommended" => p.name = "vless"
Offered(S) == \E p \in S : Serves(p) /\ p.active

ServeInv ==
    job # NoJob /\ job.node = "local" /\ ~job.edited =>
        /\ job.at = "enabling" => \E p \in rows : Serves(p) /\ p.id = job.row
        /\ job.at \in {"stored", "applying", "applied"} => Offered(rows)
        /\ job.at = "applying" => Offered(snap)
        /\ job.at = "applied" => Offered(live)

\* No completion is under way at first.
LEMMA ServeInit == Init => ServeInv
BY DEF Init, ServeInv

\* A step of others that leaves the request, the rows and what was read alone.
LEMMA ServeFrame ==
    ASSUME ServeInv, UNCHANGED <<job, rows, snap>>,
           live' = live \/ (Offered(rows) => Offered(live'))
    PROVE  ServeInv'
BY DEF ServeInv, Offered, Serves

\* The end of a request leaves nothing to show.
LEMMA NoJobServes == job' = NoJob => ServeInv'
BY DEF ServeInv

\* What is active on the local node serves exactly when the rows do.
LEMMA ActiveServes == Offered(rows) => Offered(ActiveOn("local"))
BY DEF Offered, Serves, ActiveOn, On

\* The steps of a completion hand on what serves it.
LEMMA ServeProgress ==
    ASSUME TypeInv, StoreInv, ServeInv, NEW r \in Requests, Progress(r)
    PROVE  ServeInv'
<1>1. CASE Fail(r) \/ Complete(r)
  BY <1>1, NoJobServes DEF Fail, Complete
<1>2. CASE Insert(r)
  <2>1. /\ job # NoJob /\ job.at = "inserting" /\ Goto("stored")
        /\ NewRow(made + 1, job.node, "vless", 443, "panel") \in rows'
    BY <1>2 DEF Insert, Holds
  <2>2. job'.at = "stored" /\ job'.node = job.node
    BY <2>1, GotoType DEF TypeInv, Places
  <2>3. job.node = "local"  BY <2>1 DEF StoreInv
  <2> DEFINE new == NewRow(made + 1, job.node, "vless", 443, "panel")
  <2>4. new.node = "local" /\ new.name = "vless" /\ new.active /\ new.complete
    BY <2>3 DEF NewRow
  <2> HIDE DEF new
  <2>5. \E p \in rows' : /\ p.node = "local" /\ p.name = "vless" /\ p.active /\ p.complete
    BY <2>1, <2>4 DEF new
  <2>6. Offered(rows)'  BY <2>5 DEF Offered, Serves
  <2> QED BY <2>2, <2>6 DEF ServeInv
<1>3. CASE Enable(r)
  <2>1. job # NoJob /\ job.at = "enabling"  BY <1>3 DEF Enable, Holds
  <2>2. CASE ~\E p \in rows : p.id = job.row
    BY <1>3, <2>2, NoJobServes DEF Enable
  <2>3. CASE \E p \in rows : p.id = job.row
    <3> DEFINE on(p) == [p EXCEPT !.active = p.active \/ p.id = job.row]
    <3>1. Goto("stored") /\ rows' = {on(p) : p \in rows}  BY <1>3, <2>3 DEF Enable
    <3>2. /\ job'.at = "stored" /\ job'.node = job.node /\ job'.edited = job.edited
          /\ job'.preset = job.preset
      BY <2>1, <3>1, GotoType DEF TypeInv, Places
    <3>3. \A p \in rows : /\ on(p).node = p.node /\ on(p).name = p.name
                          /\ on(p).complete = p.complete
                          /\ p.id = job.row => on(p).active
      BY DEF TypeInv, ConfigType, Row
    <3>4. \A p \in rows : on(p) \in rows'  BY <3>1
    <3> HIDE DEF on
    <3>5. ASSUME job.node = "local", ~job.edited PROVE Offered(rows)'
      <4>1. PICK p \in rows : Serves(p) /\ p.id = job.row  BY <2>1, <3>5 DEF ServeInv
      <4>2. on(p) \in rows' /\ on(p).active /\ on(p).node = "local" /\ on(p).complete
            /\ (job'.preset = "recommended" => on(p).name = "vless")
        BY <3>2, <3>3, <3>4, <4>1 DEF Serves
      <4>3. \E q \in rows' : /\ q.active /\ q.node = "local" /\ q.complete
                             /\ job'.preset = "recommended" => q.name = "vless"
        BY <4>2
      <4> QED BY <4>3 DEF Offered, Serves
    <3> QED BY <3>2, <3>5 DEF ServeInv
  <2> QED BY <2>2, <2>3
<1>4. CASE SyncReads(r)
  <2>1. /\ job # NoJob /\ job.at = "stored" /\ Goto("applying") /\ rows' = rows
        /\ snap' = ActiveOn("local")
    BY <1>4 DEF SyncReads, Holds, config
  <2>2. /\ job'.at = "applying" /\ job'.node = job.node /\ job'.edited = job.edited
        /\ job'.preset = job.preset
    BY <2>1, GotoType DEF TypeInv, Places
  <2>3. ASSUME job.node = "local", ~job.edited PROVE Offered(rows)' /\ Offered(snap)'
    <3>1. Offered(rows) /\ Offered(ActiveOn("local"))
      BY <2>1, <2>3, ActiveServes DEF ServeInv
    <3> QED BY <2>1, <2>2, <3>1 DEF Offered, Serves
  <2> QED BY <2>2, <2>3 DEF ServeInv
<1>5. CASE SyncApplied(r)
  <2>1. /\ job # NoJob /\ job.at = "applying" /\ Goto("applied") /\ rows' = rows
        /\ live' = snap
    BY <1>5 DEF SyncApplied, Holds, config
  <2>2. /\ job'.at = "applied" /\ job'.node = job.node /\ job'.edited = job.edited
        /\ job'.preset = job.preset
    BY <2>1, GotoType DEF TypeInv, Places
  <2>3. ASSUME job.node = "local", ~job.edited PROVE Offered(rows)' /\ Offered(live)'
    <3>1. Offered(rows) /\ Offered(snap)  BY <2>1, <2>3 DEF ServeInv
    <3> QED BY <2>1, <2>2, <3>1 DEF Offered, Serves
  <2> QED BY <2>2, <2>3 DEF ServeInv
<1> QED BY <1>1, <1>2, <1>3, <1>4, <1>5 DEF Progress

\* A request is admitted with a protocol that serves it, or to store one.
LEMMA ServeAdmits ==
    ASSUME TypeInv, ServeInv, NEW r \in Requests, Admit(r)
    PROVE  ServeInv'
<1>1. PICK n \in {"local", "remote"}, preset \in {"recommended", "existing"} :
          Refuse(r, n, preset) \/ Accept(r, n, preset)
  BY DEF Admit
<1>2. CASE Refuse(r, n, preset)
  BY <1>2, ServeFrame DEF Refuse, config, applied
<1>3. CASE Accept(r, n, preset)
  <2>1. PICK place \in {"inserting", "enabling", "stored"}, row \in 0..MaxRows :
            /\ Begin(r, n, preset, place, row)
            /\ place = "enabling" => \E p \in Vless(n) : p.id = row /\ p.complete
            /\ place = "stored" => \E p \in ActiveOn(n) :
                  p.complete /\ (preset = "recommended" => p.name = "vless")
    BY <1>3, AcceptShape DEF TypeInv
  <2>2. place \in Places  BY DEF Places
  <2>3. /\ job'.at = place /\ job'.node = n /\ job'.preset = preset /\ job'.row = row
    BY <2>1, <2>2, BeginType
  <2>4. rows' = rows  BY <1>3 DEF Accept, config
  <2>5. ASSUME place = "enabling", n = "local"
        PROVE  (\E p \in rows : Serves(p) /\ p.id = job.row)'
    BY <2>1, <2>3, <2>4, <2>5 DEF Vless, On, Serves
  <2>6. ASSUME place = "stored", n = "local" PROVE Offered(rows)'
    BY <2>1, <2>3, <2>4, <2>6 DEF ActiveOn, On, Serves, Offered
  <2> QED BY <2>3, <2>5, <2>6 DEF ServeInv
<1> QED BY <1>1, <1>2, <1>3

\* Every step keeps what a completion relies on.
LEMMA ServeStep == TypeInv /\ PeopleInv /\ StoreInv /\ ServeInv /\ [Next]_vars => ServeInv'
<1> SUFFICES ASSUME TypeInv, PeopleInv, StoreInv, ServeInv, [Next]_vars PROVE ServeInv'
  OBVIOUS
<1>1. CASE Startup \/ BootFails
  <2>1. proc # "serving" /\ job' = job
    BY <1>1 DEF Startup, Start, InitUsers, CheckFlag, Seed, BootSyncReads, BootSyncApplied,
                Touch, BootFails, calls
  <2>2. job' = NoJob  BY <2>1 DEF PeopleInv, RequestInv
  <2> QED BY <2>2, NoJobServes
<1>2. CASE Crash  BY <1>2, NoJobServes DEF Crash
<1>3. ASSUME NEW r \in Requests, Call(r) \/ Admit(r) \/ Progress(r) PROVE ServeInv'
  <2>1. CASE Call(r)  BY <2>1, ServeFrame DEF Call, config, applied
  <2> QED BY <1>3, <2>1, ServeAdmits, ServeProgress
<1>4. CASE Others
  <2>1. CASE \/ \E u \in Users : ChangePassword(u) \/ AdmitDelete(u) \/ DeleteUser(u)
             \/ CreateUser
    BY <2>1, ServeFrame
       DEF ChangePassword, AdmitDelete, DeleteUser, CreateUser, config, applied, calls
  <2>2. CASE OperatorSync
    <3>1. UNCHANGED <<job, rows, snap>> /\ live' = ActiveOn("local")
      BY <2>2 DEF OperatorSync, config, calls
    <3> QED BY <3>1, ActiveServes, ServeFrame
  <2>3. CASE Edit
    <3>1. job' = NoJob \/ job'.edited  BY <2>3, EditShape DEF TypeInv
    <3> QED BY <3>1, NoJobServes DEF ServeInv
  <2>4. \/ \E u \in Users : ChangePassword(u) \/ AdmitDelete(u) \/ DeleteUser(u)
        \/ CreateUser \/ OperatorSync \/ Edit
    BY <1>4 DEF Others, AddRemote, DeleteRemote, CreateProtocol, UpdateProtocol, DeleteProtocol
  <2> QED BY <2>1, <2>2, <2>3, <2>4
<1>5. CASE UNCHANGED vars
  BY <1>5, ServeFrame DEF vars, config, applied, calls
<1> QED BY <1>1, <1>2, <1>3, <1>4, <1>5 DEF Next

\* It holds in every reachable state.
LEMMA ServeAlways == Spec => []ServeInv
BY ServeInit, ServeStep, TypeAlways, PeopleAlways, StoreAlways, PTL DEF Spec

\* Completion of the setup on the local node finds its cores running a protocol a client
\* can be given, the recommended one where it was asked for, unless an operator changed
\* protocols meanwhile (complete_setup).
THEOREM CompletionServes == Spec => CompletedIsServed
<1>1. ASSUME TypeInv, PeopleInv, ServeInv, [Next]_vars,
             setup.state = "required", setup'.state = "configured",
             job.node = "local", ~job.edited
      PROVE  ClientSupported({p \in live : job.preset = "recommended" => p.name = "vless"})
  <2>1. PICK r \in Requests : Complete(r)
    <3>1. setup' # setup  BY <1>1
    <3>2. CASE InitUsers  BY <1>1, <3>1, <3>2 DEF InitUsers
    <3>3. CASE \E u \in Users : DeleteUser(u)
      BY <1>1, <3>1, <3>3 DEF DeleteUser, NoRow
    <3>4. CASE \E u \in Users : ChangePassword(u)
      BY <1>1, <3>4 DEF ChangePassword, TypeInv, PeopleType, SetupRows
    <3>5. CASE Startup
      BY <3>1, <3>2, <3>5 DEF Startup, Start, CheckFlag, Seed, BootSyncReads,
                              BootSyncApplied, Touch, people
    <3>6. CASE BootFails \/ Crash  BY <3>1, <3>6 DEF BootFails, Crash, people
    <3>7. CASE \E r \in Requests : Call(r) \/ Admit(r) \/ Progress(r)
      BY <3>1, <3>7 DEF Call, Admit, Refuse, Accept, Progress, Insert, Enable, SyncReads,
                        SyncApplied, Fail, people
    <3>8. CASE Others
      BY <3>1, <3>3, <3>4, <3>8 DEF Others, CreateUser, AdmitDelete, Edit, AddRemote,
                 DeleteRemote, CreateProtocol, UpdateProtocol, DeleteProtocol, OperatorSync, people
    <3>9. CASE UNCHANGED vars  BY <3>1, <3>9 DEF vars, people
    <3> QED BY <1>1, <3>5, <3>6, <3>7, <3>8, <3>9 DEF Next
  <2>2. job # NoJob /\ job.at = "applied"  BY <1>1, <2>1 DEF Complete, Holds
  <2>3. Offered(live)  BY <1>1, <2>2 DEF ServeInv
  <2> QED BY <2>3 DEF Offered, Serves, ClientSupported
<1>2. TypeInv /\ PeopleInv /\ ServeInv /\ [Next]_vars
        => (setup.state = "required" /\ setup'.state = "configured"
              /\ job.node = "local" /\ ~job.edited
            => ClientSupported({p \in live : job.preset = "recommended" => p.name = "vless"}))
  BY <1>1
<1> QED BY <1>2, TypeAlways, PeopleAlways, ServeAlways, PTL DEF Spec, CompletedIsServed
=============================================================================
