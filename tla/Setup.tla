-------------------------------- MODULE Setup --------------------------------
(* Start-up and onboarding: init_db (backend/app/database.py), run_once      *)
(* (backend/app/core/bootstrap.py), POST /api/setup/complete                 *)
(* (backend/app/api/setup.py) and the password change and deletion that      *)
(* touch the setup row.  The process may die between any two steps, and      *)
(* start again on what is stored.                                            *)
(*                                                                           *)
(* A protocol row is known by the credentials it was generated with (id);    *)
(* its ports are the two the defaults use.  Generation is atomic with the    *)
(* commit that stores it, as nothing else sees it before.  The configuration *)
(* transaction (module ConfigApply) is taken as its rows read under the      *)
(* lock and a result.  An update changes a row in place and keeps its name   *)
(* and port.  A node that bootstrap did not seed is "remote"; a row whose    *)
(* node was deleted before the row was stored is "orphan", and may fall to a *)
(* node created later, as SQLite gives out the ids of deleted rows again.    *)
EXTENDS Naturals

CONSTANTS
    Requests,    \* concurrent POST /api/setup/complete
    MaxRows,     \* bound: credentials ever generated
    MaxEdits,    \* bound: changes by operators
    MaxCrashes   \* bound: deaths of the process

ASSUME SetupAssumption == MaxRows \in Nat /\ MaxEdits \in Nat /\ MaxCrashes \in Nat

VARIABLES
    proc,      \* where start-up is, "serving", or "down"
    users,     \* the users, all administrators
    deleting,  \* the users a DELETE has been admitted for
    setup,     \* the row of setup_state
    flag,      \* the file .bootstrap_done exists
    nodes,     \* the rows of nodes
    rows,      \* the rows of protocols
    late,      \* a creation admitted for a node since deleted may still be under way
    live,      \* the rows the local cores run
    snap,      \* the rows a sync has read; NoSync when APPLY_LOCK is free
    waiting,   \* the requests that wait for _SETUP_LOCK
    job,       \* the request that holds it
    made, edits, crashes,        \* the bounded counters
    seeds,                       \* history: commits of a seed
    ownerChanged,                \* history: the owner of the row changed the password
    hadUsers,                    \* history: found in use, until all users are gone
    hadNodes,                    \* history: there were nodes before any seed
    forgotten                    \* history: all of them were deleted, with no marker

boot == <<proc, flag>>
people == <<users, deleting, setup, ownerChanged, hadUsers>>
config == <<nodes, rows, late, made>>
applied == <<live, snap>>
calls == <<waiting, job>>
counts == <<edits, crashes, seeds, hadNodes, forgotten>>
vars == <<boot, people, config, applied, calls, counts>>

Users == {"admin", "second"}
Owner == "admin"       \* setup_state.admin_user_id names the seeded administrator
Names == {"vless", "shadowsocks"}
Ports == {443, 8443}
NoSync == {[id |-> 0]}
NoJob == [at |-> "free"]
NoRow == [state |-> "none", changed |-> FALSE]

Row == [id : 1..MaxRows, node : {"local", "remote", "orphan"}, name : Names, port : Ports,
        active : BOOLEAN, complete : BOOLEAN, by : {"panel", "operator"}]

NewRow(i, n, name, port, by) ==
    [id |-> i, node |-> n, name |-> name, port |-> port,
     active |-> TRUE, complete |-> TRUE, by |-> by]

On(n) == {p \in rows : p.node = n}
ActiveOn(n) == {p \in On(n) : p.active}

\* The rows once those in S have fallen to the new node n.
Adopted(S, n) == (rows \ S) \cup {[p EXCEPT !.node = n] : p \in S}

\* _client_supported: the credentials a client configuration needs are there.
ClientSupported(S) == \E p \in S : p.complete

Init == /\ proc = "down" /\ deleting = {} /\ setup = NoRow
        /\ rows = {} /\ late = FALSE /\ live = {} /\ snap = NoSync /\ waiting = {} /\ job = NoJob
        /\ made = 0 /\ edits = 0 /\ crashes = 0 /\ seeds = 0 /\ ownerChanged = FALSE
        /\ \/ users = {} /\ nodes = {} /\ flag = FALSE
           \/ users \in (SUBSET Users) \ {{}} /\ nodes \in SUBSET {"remote"} /\ flag \in BOOLEAN
        /\ hadNodes = (nodes # {}) /\ hadUsers = (users # {})
        /\ forgotten = FALSE

-----------------------------------------------------------------------------
(* Start-up, before any request is served.                                   *)

\* A sync that fails or dies has changed nothing, was rolled back, or leaves the
\* candidate where the undo failed.
Interrupted == {live} \cup (IF snap = NoSync THEN {} ELSE {snap})

Start == /\ proc = "down"
         /\ proc' = "users"
         /\ UNCHANGED <<flag, people, config, applied, calls, counts>>

\* Mutant: the setup row does not depend on the installation being fresh.
InitUsersAlways ==
    /\ proc = "users"
    /\ users' = users \cup {"admin"}
    /\ IF "admin" \notin users /\ setup = NoRow
       THEN setup' = [state |-> "required", changed |-> FALSE] /\ ownerChanged' = FALSE
       ELSE UNCHANGED <<setup, ownerChanged>>
    /\ proc' = "flag"
    /\ UNCHANGED <<flag, deleting, hadUsers, config, applied, calls, counts>>

InitUsers ==
    /\ proc = "users"
    /\ users' = users \cup {"admin"}
    /\ IF users = {} /\ setup = NoRow
       THEN setup' = [state |-> "required", changed |-> FALSE] /\ ownerChanged' = FALSE
       ELSE UNCHANGED <<setup, ownerChanged>>
    /\ proc' = "flag"
    /\ UNCHANGED <<flag, deleting, hadUsers, config, applied, calls, counts>>

CheckFlag == /\ proc = "flag"
             /\ proc' = IF flag THEN "serving" ELSE "seeding"
             /\ UNCHANGED <<flag, people, config, applied, calls, counts>>

\* Mutant: the credentials are numbered from zero.
DefaultsFromZero(i) == {NewRow(i, "local", "shadowsocks", 8443, "panel"),
                        NewRow(i + 1, "local", "vless", 443, "panel")}

Defaults(i) == {NewRow(i + 1, "local", "shadowsocks", 8443, "panel"),
                NewRow(i + 2, "local", "vless", 443, "panel")}

\* Mutant: nodes of an existing installation are not looked at.
SeedAnyway == /\ proc = "seeding"
              /\ IF "local" \in nodes
                 THEN UNCHANGED <<config, seeds>>
                 ELSE /\ made + 2 <= MaxRows
                      /\ nodes' = nodes \cup {"local"}
                      /\ rows' = rows \cup Defaults(made) /\ late' = late
                      /\ made' = made + 2 /\ seeds' = seeds + 1
              /\ proc' = "sync"
              /\ UNCHANGED <<flag, people, applied, calls, edits, crashes, hadNodes,
                              forgotten>>

\* Mutant: the node is committed before its protocols, which a retry leaves out.
SeedInTwo == /\ proc = "seeding"
             /\ \/ /\ "local" \in nodes /\ proc' = "sync"
                   /\ UNCHANGED <<config, seeds>>
                \/ /\ nodes = {} /\ made + 2 <= MaxRows
                   /\ nodes' = {"local"} /\ seeds' = seeds + 1
                   /\ UNCHANGED <<proc, rows, late, made>>
                \/ /\ "local" \notin nodes /\ nodes # {} /\ proc' = "touch"
                   /\ UNCHANGED <<config, seeds>>
             /\ UNCHANGED <<flag, people, applied, calls, edits, crashes, hadNodes,
                             forgotten>>

\* _seed up to its commit: resume, leave an existing installation alone, or seed.
Seed == /\ proc = "seeding"
        /\ \/ /\ "local" \in nodes /\ proc' = "sync"
              /\ UNCHANGED <<config, seeds>>
           \/ /\ "local" \notin nodes /\ nodes # {} /\ proc' = "touch"
              /\ UNCHANGED <<config, seeds>>
           \/ /\ nodes = {} /\ proc' = "sync" /\ made + 2 <= MaxRows
              /\ nodes' = {"local"} /\ late' = late
              /\ \E S \in SUBSET On("orphan") : rows' = Adopted(S, "local") \cup Defaults(made)
              /\ made' = made + 2 /\ seeds' = seeds + 1
        /\ UNCHANGED <<flag, people, applied, calls, edits, crashes, hadNodes,
                             forgotten>>

BootSyncReads == /\ proc = "sync"
                 /\ snap' = ActiveOn("local")
                 /\ proc' = "applying"
                 /\ UNCHANGED <<flag, people, config, live, calls, counts>>

BootSyncApplied == /\ proc = "applying"
                   /\ live' = snap /\ snap' = NoSync
                   /\ proc' = "touch"
                   /\ UNCHANGED <<flag, people, config, calls, counts>>

Touch == /\ proc = "touch"
         /\ flag' = TRUE
         /\ proc' = "serving"
         /\ UNCHANGED <<people, config, applied, calls, counts>>

\* run_once catches every exception and lets the process serve without the marker.
BootFails == /\ proc \in {"seeding", "sync", "applying", "touch"}
             /\ live' \in Interrupted
             /\ snap' = NoSync
             /\ proc' = "serving"
             /\ UNCHANGED <<flag, people, config, calls, counts>>

\* What the database, the marker and the containers hold stays.
Crash == /\ proc # "down" /\ crashes < MaxCrashes
         /\ crashes' = crashes + 1
         /\ proc' = "down" /\ snap' = NoSync
         /\ live' \in Interrupted
         /\ waiting' = {} /\ job' = NoJob /\ deleting' = {} /\ late' = FALSE
         /\ UNCHANGED <<flag, users, setup, ownerChanged, hadUsers, nodes, rows, made,
                        edits, seeds, hadNodes, forgotten>>

-----------------------------------------------------------------------------
(* complete_setup.                                                           *)

serving == proc = "serving"
Pending(r) == r \in waiting \/ (job # NoJob /\ job.req = r)

Call(r) == /\ serving
           /\ ~Pending(r)
           /\ waiting' = waiting \cup {r}
           /\ UNCHANGED <<boot, people, config, applied, job, counts>>

Take(r) == serving /\ r \in waiting /\ job = NoJob /\ waiting' = waiting \ {r}

Holds(r, place) == serving /\ job # NoJob /\ job.req = r /\ job.at = place
Goto(place) == job' = [job EXCEPT !.at = place]
Begin(r, n, preset, place, row) ==
    job' = [at |-> place, req |-> r, node |-> n, preset |-> preset, row |-> row,
            edited |-> FALSE]

Vless(n) == {p \in On(n) : p.name = "vless"}

Ready(n)       == setup.state = "required" /\ setup.changed /\ n \in nodes
CanAdd(n)      == n = "local" /\ Vless(n) = {} /\ ~\E p \in ActiveOn(n) : p.port = 443
CanReuse(n, p) == n = "local" /\ p \in Vless(n) /\ ClientSupported({p})
CanKeep(n)     == ClientSupported(ActiveOn(n))

\* Already configured, or refused.  The query names no order: any VLESS row may be first.
Refuse(r, n, preset) ==
    /\ Take(r)
    /\ \/ ~Ready(n)
       \/ preset = "recommended" /\ Vless(n) = {} /\ ~CanAdd(n)
       \/ preset = "recommended" /\ \E p \in Vless(n) : ~CanReuse(n, p)
       \/ preset = "existing" /\ ~CanKeep(n)
    /\ UNCHANGED <<boot, people, config, applied, job, counts>>

\* Mutant: only active rows are looked at for credentials to use again.
AcceptActiveOnly(r, n, preset) ==
    /\ Take(r) /\ Ready(n)
    /\ \/ /\ preset = "recommended" /\ n = "local" /\ {p \in Vless(n) : p.active} = {}
          /\ ~\E p \in ActiveOn(n) : p.port = 443
          /\ Begin(r, n, preset, "inserting", 0)
       \/ preset = "existing" /\ CanKeep(n) /\ Begin(r, n, preset, "stored", 0)
    /\ UNCHANGED <<boot, people, config, applied, counts>>

\* The checks under the lock, up to the first commit.  An inactive VLESS row is
\* marked active in the session; one that is active needs no write.
Accept(r, n, preset) ==
    /\ Take(r) /\ Ready(n)
    /\ \/ preset = "recommended" /\ CanAdd(n) /\ Begin(r, n, preset, "inserting", 0)
       \/ /\ preset = "recommended"
          /\ \E p \in Vless(n) :
                /\ CanReuse(n, p)
                /\ Begin(r, n, preset, IF p.active THEN "stored" ELSE "enabling", p.id)
       \/ preset = "existing" /\ CanKeep(n) /\ Begin(r, n, preset, "stored", 0)
    /\ UNCHANGED <<boot, people, config, applied, counts>>

Insert(r) == /\ Holds(r, "inserting") /\ made < MaxRows
             /\ rows' = rows \cup {NewRow(made + 1, job.node, "vless", 443, "panel")}
             /\ made' = made + 1
             /\ Goto("stored")
             /\ UNCHANGED <<boot, people, nodes, late, applied, waiting, counts>>

\* The UPDATE finds the row, or it was deleted meanwhile and the commit raises.
Enable(r) == /\ Holds(r, "enabling")
             /\ IF \E p \in rows : p.id = job.row
                THEN /\ rows' = {[p EXCEPT !.active = p.active \/ p.id = job.row] : p \in rows}
                     /\ Goto("stored")
                ELSE /\ job' = NoJob
                     /\ UNCHANGED rows
             /\ UNCHANGED <<boot, people, nodes, late, made, applied, waiting, counts>>

SyncReads(r) == /\ Holds(r, "stored") /\ job.node = "local"
                /\ snap' = ActiveOn("local")
                /\ Goto("applying")
                /\ UNCHANGED <<boot, people, config, live, waiting, counts>>

SyncApplied(r) == /\ Holds(r, "applying")
                  /\ live' = snap /\ snap' = NoSync
                  /\ Goto("applied")
                  /\ UNCHANGED <<boot, people, config, waiting, counts>>

\* Mutant: the result of the sync is not looked at.
FailUnseen(r) == /\ Holds(r, "applying")
                 /\ live' \in Interrupted /\ snap' = NoSync
                 /\ Goto("applied")
                 /\ UNCHANGED <<boot, people, config, waiting, counts>>

\* The sync was not applied, or a database call raised: the setup stays pending.
Fail(r) == /\ serving /\ job # NoJob /\ job.req = r
           /\ live' \in Interrupted /\ snap' = NoSync
           /\ job' = NoJob
           /\ UNCHANGED <<boot, people, config, waiting, counts>>

\* state.required = False.  The row is there: it is deleted only once it is configured.
Complete(r) == /\ \/ Holds(r, "applied")
                  \/ Holds(r, "stored") /\ job.node # "local"
               /\ setup' = [setup EXCEPT !.state = "configured"]
               /\ job' = NoJob
               /\ UNCHANGED <<boot, users, deleting, ownerChanged, hadUsers, config, applied,
                              waiting, counts>>

-----------------------------------------------------------------------------
(* What other requests do meanwhile.                                         *)

\* Mutant: any administrator's own change unlocks the setup.
ChangePasswordAny(u) ==
    /\ serving /\ u \in users /\ setup.state = "required"
    /\ setup' = [setup EXCEPT !.changed = TRUE]
    /\ ownerChanged' = (ownerChanged \/ u = Owner)
    /\ UNCHANGED <<boot, users, deleting, hadUsers, config, applied, calls, counts>>

\* The transaction that ends change_password: it holds the write lock of the
\* database from its UPDATE on.
ChangePassword(u) ==
    /\ serving /\ u \in users /\ setup.state = "required"
    /\ setup' = [setup EXCEPT !.changed = @ \/ u = Owner]
    /\ ownerChanged' = (ownerChanged \/ u = Owner)
    /\ UNCHANGED <<boot, users, deleting, hadUsers, config, applied, calls, counts>>

CreateUser == /\ serving /\ "second" \notin users /\ edits < MaxEdits
              /\ users' = users \cup {"second"} /\ edits' = edits + 1
              /\ UNCHANGED <<boot, deleting, setup, ownerChanged, hadUsers, config, applied,
                             calls, crashes, seeds, hadNodes, forgotten>>

\* Mutant: the owner of a pending setup may be deleted.
AdmitDeleteAny(u) ==
    /\ serving /\ u \in users \ deleting /\ users # {u}
    /\ deleting' = deleting \cup {u}
    /\ UNCHANGED <<boot, users, setup, ownerChanged, hadUsers, config, applied, calls, counts>>

\* The checks of delete_user: another administrator asks, and no setup is pending.
AdmitDelete(u) ==
    /\ serving /\ u \in users \ deleting /\ users # {u}
    /\ ~(u = Owner /\ setup.state = "required")
    /\ deleting' = deleting \cup {u}
    /\ UNCHANGED <<boot, users, setup, ownerChanged, hadUsers, config, applied, calls, counts>>

\* Mutant: the setup row is left behind.
DeleteUserOnly(u) ==
    /\ serving /\ u \in deleting
    /\ deleting' = deleting \ {u}
    /\ users' = users \ {u}
    /\ hadUsers' = (hadUsers /\ users' # {})
    /\ UNCHANGED <<boot, setup, ownerChanged, config, applied, calls, counts>>

\* Its one transaction removes the row of the setup with the user.
DeleteUser(u) ==
    /\ serving /\ u \in deleting
    /\ deleting' = deleting \ {u}
    /\ users' = users \ {u}
    /\ setup' = IF u = Owner THEN NoRow ELSE setup
    /\ hadUsers' = (hadUsers /\ users' # {})
    /\ UNCHANGED <<boot, ownerChanged, config, applied, calls, counts>>

Edit == /\ serving /\ edits < MaxEdits
        /\ edits' = edits + 1
        /\ job' = IF job = NoJob THEN job ELSE [job EXCEPT !.edited = TRUE]
        /\ UNCHANGED <<boot, people, applied, waiting, crashes, seeds>>

AddRemote == /\ Edit /\ "remote" \notin nodes
             /\ nodes' = nodes \cup {"remote"}
             /\ \E S \in SUBSET On("orphan") : rows' = Adopted(S, "remote")
             /\ hadNodes' = (hadNodes \/ seeds = 0)
             /\ forgotten' = (forgotten /\ seeds > 0)
             /\ UNCHANGED <<late, made>>

\* delete_node refuses the local node, and takes the protocols along that are stored.
DeleteRemote == /\ Edit /\ "remote" \in nodes
                /\ nodes' = nodes \ {"remote"} /\ rows' = rows \ On("remote")
                /\ late' = TRUE
                /\ forgotten' = (forgotten \/ (nodes' = {} /\ ~flag))
                /\ UNCHANGED <<made, hadNodes>>

\* The node is looked for in a transaction of its own: it may be gone at the INSERT.
CreateProtocol(n, name, port) ==
    /\ Edit /\ n \in nodes \cup (IF late THEN {"orphan"} ELSE {}) /\ made < MaxRows
    /\ rows' = rows \cup {NewRow(made + 1, n, name, port, "operator")}
    /\ made' = made + 1
    /\ UNCHANGED <<nodes, late, hadNodes, forgotten>>

UpdateProtocol(p, active, complete) ==
    /\ Edit /\ p \in rows
    /\ rows' = (rows \ {p}) \cup {[p EXCEPT !.active = active, !.complete = complete]}
    /\ UNCHANGED <<nodes, late, made, hadNodes, forgotten>>

DeleteProtocol(p) == /\ Edit /\ p \in rows
                     /\ rows' = rows \ {p}
                     /\ UNCHANGED <<nodes, late, made, hadNodes, forgotten>>

\* A background or forced sync, while no other one holds APPLY_LOCK.
OperatorSync == /\ serving /\ snap = NoSync /\ "local" \in nodes
                /\ live' = ActiveOn("local")
                /\ UNCHANGED <<boot, people, config, snap, calls, counts>>

-----------------------------------------------------------------------------
Startup == Start \/ InitUsers \/ CheckFlag \/ Seed \/ BootSyncReads \/ BootSyncApplied
           \/ Touch

Admit(r) == \E n \in {"local", "remote"}, preset \in {"recommended", "existing"} :
                Refuse(r, n, preset) \/ Accept(r, n, preset)

Progress(r) == Insert(r) \/ Enable(r) \/ SyncReads(r) \/ SyncApplied(r) \/ Fail(r)
               \/ Complete(r)

Others == \/ \E u \in Users : ChangePassword(u) \/ AdmitDelete(u) \/ DeleteUser(u)
          \/ CreateUser
          \/ AddRemote \/ DeleteRemote
          \/ \E n \in {"local", "remote", "orphan"}, name \in Names, port \in Ports :
                CreateProtocol(n, name, port)
          \/ \E p \in rows, active, complete \in BOOLEAN : UpdateProtocol(p, active, complete)
          \/ \E p \in rows : DeleteProtocol(p)
          \/ OperatorSync

Next == \/ Startup
        \/ BootFails
        \/ Crash
        \/ \E r \in Requests : Call(r) \/ Admit(r) \/ Progress(r)
        \/ Others

Spec == Init /\ [][Next]_vars

-----------------------------------------------------------------------------
TypeOK == /\ proc \in {"down", "users", "flag", "seeding", "sync", "applying", "touch",
                       "serving"}
          /\ users \subseteq Users /\ deleting \subseteq Users
          /\ setup \in [state : {"none", "required", "configured"}, changed : BOOLEAN]
          /\ flag \in BOOLEAN /\ nodes \subseteq {"local", "remote"}
          /\ rows \subseteq Row /\ late \in BOOLEAN /\ live \subseteq Row
          /\ snap = NoSync \/ snap \subseteq Row
          /\ waiting \subseteq Requests
          /\ job = NoJob \/ job \in
                [at : {"inserting", "enabling", "stored", "applying", "applied"},
                 req : Requests, node : {"local", "remote"},
                 preset : {"recommended", "existing"}, row : 0..MaxRows, edited : BOOLEAN]
          /\ made \in 0..MaxRows /\ edits \in 0..MaxEdits /\ crashes \in 0..MaxCrashes
          /\ seeds \in Nat /\ ownerChanged \in BOOLEAN
          /\ hadNodes \in BOOLEAN /\ forgotten \in BOOLEAN /\ hadUsers \in BOOLEAN

\* Start-up seeds an installation once, however often it is interrupted and tried
\* again, and never by half.  One that had nodes before is not seeded while one of them
\* is left, nor - "including intentionally deleted nodes" - once it has the marker
\* (bootstrap.run_once and _seed).  When the last is deleted before the marker could be
\* written the installation counts as forgotten: the next start does seed it.
SeededOnceAndWhole ==
    /\ seeds <= 1
    /\ hadNodes /\ ~forgotten => seeds = 0
    /\ seeds = 1 /\ edits = 0 => {p.name : p \in ActiveOn("local")} = Names

\* Retries of the setup, of start-up and concurrent requests use the credentials that
\* were generated first: the panel never has two VLESS rows of its own making.
CredentialsReused == \A p, q \in Vless("local") : p.by = "panel" /\ q.by = "panel" => p = q

\* A configured installation that went through the setup is one whose initial
\* administrator changed the password, whoever else did and whatever was retried.
PasswordChangedFirst == setup.state = "configured" => ownerChanged

\* The row of the setup never outlives its administrator (delete_user).
OwnerExists == setup.state # "none" => Owner \in users

\* A pending setup ends by its completion alone: neither a deletion admitted earlier
\* nor a restart makes it disappear.
PendingUntilCompleted == [][setup.state = "required" => setup'.state # "none"]_vars

\* "Existing installations without state remain configured" (init_db), as long as
\* one of their users is left.
ExistingStaysConfigured == hadUsers => setup.state = "none"

\* Setup is completed on the local node only when its cores run a protocol a client
\* can be given - VLESS when it was recommended - unless an operator changed
\* protocols during the request (complete_setup).
CompletedIsServed ==
    [][setup.state = "required" /\ setup'.state = "configured"
          /\ job.node = "local" /\ ~job.edited
       => ClientSupported({p \in live : job.preset = "recommended" => p.name = "vless"})]_vars
=============================================================================
