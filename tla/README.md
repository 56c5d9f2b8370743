# FVpn, modelled and proved

FVpn is a VPN panel: a FastAPI backend that keeps users, subscriptions, servers ("nodes") and
protocols in SQLite, writes the configuration of two proxy cores (Xray and sing-box) that run
in sibling containers, manages remote servers over SSH, and hands configurations to clients.
One backend worker, one event loop: what makes it hard is not parallel threads but what
happens between two awaits, commands that fail half-way, cancelled requests, helpers that run
on in threads, restarts by others, and a process that may die anywhere.

This directory holds TLA+ modules translated from that code, TLC configurations that check
them on small instances, and TLAPS proofs for every value of the constants. `PROJECT.json`
names for each definition the lines it models.

## Inventory

| component | state | operations | meets | what must hold |
|---|---|---|---|---|
| configuration transaction (`core/config_apply.py`, `core/config_writer.py`) | two files, their `.bak`, two containers, `APPLY_LOCK`, the locals of a transaction | sync a node: read rows, stage, validate, replace, restart, inspect, undo | rows (database), docker, everyone who restarts a core | only what every core accepted is ever live; files move together and forward, unless a crash or a failed undo tears them; "applied" and "rolled_back" are true; every sync ends |
| protocol routes (`api/protocols.py`) | protocol rows | create, update, delete, sync | background sync after the commit | a committed change goes live |
| system routes (`api/system.py`), `scripts/self_healing.sh` | containers | restart or start a core | none take `APPLY_LOCK` | they never bring in an unvalidated configuration |
| login limiter, login, password change (`api/auth.py`) | two stores of attempts, a clock | reserve, release | bcrypt in threads, database | at most five guesses per account and per address in 900 s; bounded memory; nobody refused without cause |
| bcrypt pool (`core/security.py`) | a semaphore of 4 | hash, verify | cancellation | never more than four threads |
| SSH client (`core/ssh.py`) | `known_hosts`, a lock, writing threads | connect, exec, disconnect | auto-setup, self-healing | trust on first use: no pin lost, replaced or doubled |
| start-up and setup (`database.py`, `core/bootstrap.py`, `api/setup.py`) | first administrator, seed node, marker file, setup row | init_db, run_once, complete_setup | transaction, rows | seeded at most once and not over existing nodes; credentials never doubled by a retry; setup completes only when the configuration is live, unless rows are edited meanwhile |
| users and subscriptions (`api/users.py`, `subscriptions.py`, `models/`) | rows | create, update, delete, fetch | each other, through read-then-commit handlers; reuse of row ids | names unique; a subscription serves the user it was made for, unless its row was inserted after that user was deleted; an administrator is left, unless two delete each other |
| nodes and their health (`api/nodes.py`, `core/self_heal.py`) | node rows, their protocols, remote machines | create, delete, check, auto-setup, self-healing cycle | rows, SSH client | no protocol outlives its node, except one inserted after the deletion; a setup that is stored had its configuration in place, if it was alone on the machine; one restart per outage |
| statistics push (`core/monitor.py`, `main.py`) | websocket list | broadcast | rows | nothing that another part relies on (not modelled) |
| server configurations (`core/xray.py`, `core/singbox.py`) | none | rows to inbounds | transaction | unique tags with at most one ShadowTLS row; one public listener for each row |
| client configurations (`lib/config_generator.py`) | none | rows to six formats | subscriptions | port and, for rows that hold their credentials, parameters of the server's listener; no server keys |
| backup (`core/backup.py`, `scripts/backup.sh`) | archives | snapshot, verify, publish, prune | database file | what is published is one sound state; pruning leaves an archive, if no run takes longer than a day |
| bot (`bot/bot.py`) | token, conversations | call the API, add a user | backend | one retry after a 401 |

What is not modelled, and why, is at the end.

## Modules

### ConfigSwitch, ConfigApply: the configuration transaction

`ConfigApply` has one action per step of `sync_node_config` and `apply_configs_locked`. The
active rows of the local node are a version number `db`, and a configuration is the version it
was built from: rows change by a commit (`ChangeProtocols`), and everything the transaction
does with a configuration is to move it.

| code | model |
|---|---|
| `APPLY_LOCK`, its waiters | `holder`, `pc` |
| locals `specs` loop index, `staged`, `originals`, `valid`, `replaced`, `touched`, `restored`, the exception caught | `tx.idx`, `cand`, `orig`, `valid`, `replaced`, `touched`, `restored`, `cancelled` |
| which loop the coroutine is in | `tx.phase` |
| the files, the `.bak` files, what each container loaded | `disk`, `bak`, `run` |
| each return and raise | `Finish(result)` |
| the `except BaseException` branch | `Abort`, then `Restore`, `Recover` and their failures |
| a killed process | `Crash`: tasks, lock and locals gone, files and containers kept |

Between two awaits only one task runs. Those stretches (staging, replacing, restoring) are still
several actions, because the process may die between them; `LoopFree` keeps other tasks of the
backend out, while containers may be restarted by others (`RestartOutsideLock`) at any time.
`CancelledError` may strike at each await (`Cancel`); in the undo's own restarts the code does
not catch it, and neither does the model.

`ConfigSwitch` is the abstract specification: the version each core's file is committed to
changes for all cores in one step and never to an older one; the only other step is a counted
tear, a crash or a file that cannot be written back. The refinement maps a file to the original
it would be restored to while the transaction may still be undone (`Shown`).

History variables: `accepted` (what validators accepted), `faults`, `tears`, `crashes`.

### LoginLimiter: guesses at passwords

`Admit` and `Deny` are `reserve`, which runs without an await; `Succeed`, `Fail`, `Interrupt`
and `CommitFails` are the ends of `login` and `change_password`, in any order for overlapping
requests. The objects the two dictionaries share are entries of `log`, which also is the
history the properties are stated over, independently of what the stores still hold. A key
absent from a dictionary is a key with the empty set. Requests are at the level of the limiter:
how an address is derived from proxy headers is not modelled.

### TrustOnFirstUse, SshPins: host keys

`SshPins` is `SSHClient.connect` with its lock, the thread that writes `known_hosts`, the
shielded wait for it, a cancellation (one per connect: tasks that connect are cancelled once,
at shutdown), failures and a crash. A server may show any key. The abstract specification
`TrustOnFirstUse` enrolls a first key per host and then never changes it.

### Setup: start-up and onboarding

| code | model |
|---|---|
| a start of the process, `init_db` | `Start`, `InitUsers` |
| `run_once`: marker, `_seed` up to its commit, its sync, `touch` | `CheckFlag`, `Seed`, `BootSyncReads`, `BootSyncApplied`, `Touch` |
| the `except Exception` of `run_once` | `BootFails`: the process serves without the marker |
| `complete_setup`: waiting for `_SETUP_LOCK`, the checks, the first commit, the sync, the second commit | `Call`, `Refuse`/`Accept`, `Insert`/`Enable`, `SyncReads`, `SyncApplied`, `Complete`; `Fail` |
| the end of `change_password`; `delete_user` as its checks and its transaction | `ChangePassword`; `AdmitDelete`, `DeleteUser` |
| user, node and protocol routes meanwhile | `CreateUser`; `AddRemote`, `DeleteRemote`; `CreateProtocol`, `UpdateProtocol`, `DeleteProtocol`, `OperatorSync` |

The first commit of the recommended preset depends on what the session read: a missing row is
inserted, an inactive one is updated (and the update raises when the row is gone), an active
one needs no write. The configuration transaction appears only as the rows read under
`APPLY_LOCK` and a result; a failed one leaves the old or the new rows live (`Interrupted`),
which covers every outcome of `ConfigApply`. A row's identity is its credentials. A protocol
that was admitted for a remote node and is stored after the deletion of that node (`late`)
belongs to no node ("orphan"), until a node is created that gets the same id (`Adopted`: any
of them, as ids are not modelled here). Not modelled
here: an update of a protocol's name or port, nodes with `is_active` false (no route sets it), the
conflict of two password changes (module `Accounts`), and the local node of an older installation that
bootstrap did not mark, which `_seed` treats as any other node. Users are administrators.

History variables: `seeds`, `ownerChanged`, `hadNodes`, `forgotten` (all nodes of an
installation were deleted while it had no marker), `hadUsers`, `job.edited`, `by`.

### PasswordPool, Accounts: users, subscriptions and passwords

`PasswordPool` is `_password_work`: a semaphore around a bcrypt thread that a cancelled caller
still waits for. `Accounts` extends it and composes it with the handlers that hash: creation
and update of users, and `change_password` after its limiter.

| code | model |
|---|---|
| `_PASSWORD_CONCURRENCY`, the tasks in `_password_work` | `permits`, `pool` |
| the tables `users`, `subscriptions` | `users`, `subs`: functions from row ids |
| a request: its operation, what its session has read, where it waits | `req` |
| `get_current_user`, `require_admin` | `Arrive` |
| the handler's `SELECT` and the checks after it | `LookupCreate`, `LookupPatch`, `LookupDelete`, `LookupOwner`, `LookupSub`; `Refuse` |
| `await async_hash_password`, `async_verify_password` | `StartBcrypt`, `GetPermit`, `BcryptDone`, `CancelWaiting`, `CancelBcrypt` |
| from the first write to the commit | `CreateUser`, `UpdateUser`, `DeleteUser`, `ChangePassword`, `CreateSub`, `DeleteSub` |

Between lookup and commit anything may happen to the row, and the id may be another row's by
then: SQLite gives the largest id plus one, and foreign keys are declared but not enforced. What
the commit does then is SQLAlchemy's: an `UPDATE` of a row gone raises, a `DELETE` does not.
History: `born` (the uuid of a row), `for` and `late` of a subscription, `orphaned`.

### Fleet: remote nodes

`Fleet` puts everything that works on a remote node at the same time into one module: creation
and deletion, protocols added and removed, the check routes, the background auto-setup and the
self-healing cycle.

| code | model |
|---|---|
| the tables `nodes`, `protocols` | `nodes`, `protos` |
| the file of a machine's service and what the service runs | `machine` |
| `_check_node` of one cycle, for each node | `heal`: `CheckUrl`, `ReadStatus`, `StoreStatus`, `RestartNode` |
| `check_node`, `_check_nodes_bg` | `probe`: `Probe`, `Ask`, `ProbeCommit` |
| `_auto_setup_bg`, its three commands, its `except` | `setup`: `SetupStarts`, `Install`, `WriteConfig`, `StartService`, `SetupCommits`; `SetupFails`, `SetupGivesUp` |
| `create_protocol` | `FindNode`, `CreateProtocol` |

A failed SSH command may have had its effect, a part of it or none. That holds of the cycle's
restart too, whose exit status nobody looks at: it leaves the service as it was, running its
file, or whatever a failed restart leaves (`Cut`: stopped, or neither the old nor the new
configuration). A session writes only the
columns that differ from what it read (`Stored`), so a check may undo nothing of another one.
The systemd units of the panel's own host, which `_check_local_services` would start, are left
out: the cores run in containers. History: `for`, `alone`, `late`, `healed`, `up`.

### ServerConfig, ClientExport, ProtocolRows: what rows mean

`ServerConfig` and `ClientExport` are operators: the inbounds both builders make of the active
rows, and the entries of each client format. A row's `config` maps the options it has to where
they come from (made by the panel, given by an operator, empty), and a value is known by its
row, option and origin, or by the default the code uses in its place; `uuid4()` as a default is
a value no other place has. `ProtocolRows` is the state machine over them: the routes that
create, update and delete rows, with `ProtocolConfig.defaults` merged on creation and nothing
merged by a PATCH.

### Backup

Concurrent runs of `create_backup`, from the panel and from cron, step by step, while the panel
commits and days pass. `Snapshot` is one call of SQLite's backup: pages are copied without a
lock in between, and the copy starts over when the source was written since. A run may stop
anywhere (`Stops`): a failure, its deadline, or a crash; what it leaves is in its own directory.

## Runs

| run | module, configuration | shows |
|---|---|---|
| `apply_safety` | `MCConfigApply`, `ConfigApply_safety.cfg` | `TypeOK`; `AcceptedByAll`: nothing unvalidated in any file, rollback copy or container; `RollbackCopyUsable`: a process that dies mid-way leaves the previous version in file or `.bak` of every core; `AppliedIsLive`, `RolledBackIsRestored`: what results mean; `SwitchesTogether`: implements `ConfigSwitch` |
| `apply_live` | `MCConfigApply`, `ConfigApply_live.cfg` | `EverySyncEnds`; `CommitGoesLive`: a commit reaches all cores unless something failed or the set is unsupported |
| `apply_rollback` | `MCConfigApply`, `ConfigApply_rollback.cfg` | violation of `RolledBackEverywhere`: see Findings |
| `limiter` | `MCLoginLimiter`, `LoginLimiter.cfg` | `NoExtraGuess`: the limit holds in every window for overlapping requests; `WithinCapacity`; `RefusalIsEarned`: no refusal without a recent cause; `RetryAfterIsExact` |
| `limiter_lost` | `MCLoginLimiter`, `LoginLimiter_lost.cfg` | violation of `OnlyGuessesCount`: see Findings |
| `ssh_pins` | `SshPins`, `SshPins.cfg` | `WritesUnderLock`; `ConnectedIsPinned`; `TrustsFirstUse`: implements `TrustOnFirstUse`; `EveryConnectEnds` |
| `setup` | `Setup`, `Setup.cfg` | `SeededOnceAndWhole`: an interrupted seed is resumed, never repeated, and not given to an existing installation while a node is left or once it has the marker; `CredentialsReused`; `PasswordChangedFirst`; `CompletedIsServed`: at completion the local cores run a protocol a client can use; `PendingUntilCompleted`, `OwnerExists`: deletions and the setup row; `ExistingStaysConfigured` |
| `accounts` | `Accounts`, `Accounts.cfg` | `ThreadsBounded`: as many bcrypt threads as permits, and no permit lost, under any cancellations; `ServesItsOwner`: a subscription serves the user it was made for, unless its INSERT came after the owner's deletion; `SomeAdministrator`: one is left unless two delete each other; `ReplacesVerified`: `change_password` overwrites only the row it verified; `TypeOK`, which includes unique names |
| `fleet` | `Fleet`, `Fleet.cfg` | `StrayOnlyLate`: protocols go with their node; `StoredIsRunning`: a setup that is stored, and was alone on its machine, is in the machine's file, and its service runs it or was stopped by a failed restart of the cycle; `OneRestartPerOutage`; `TypeOK` |
| `fleet_restarts` | `Fleet`, `Fleet_restarts.cfg` | violation of `RestartsOnlyDown`: see Findings |
| `builders` | `ProtocolRows`, `ProtocolRows.cfg` | `OneListenerPerRow`: no row is served by both cores or by none; `TagsResolve`: tags unique and detours resolved, with at most one ShadowTLS row; `ClientMatchesServer`: every format has the port of the server and, for rows that hold their credentials, its parameters |
| `backup` | `Backup`, `Backup.cfg` | `PublishedIsSound`: an archive is one committed state with its references intact; `NeverWithout`: runs that prune at the same time leave an archive |

### Bounds

- Transaction: two cores as in the code; two tasks, so that one waits while the other applies;
  two changes of the rows, so that there is an older, a current and a newer version; two
  faults, so that an undo can fail as well; one crash. Commands may fail only `MaxFaults` times;
  restarts outside the lock are not bounded. The theorems hold for any of these numbers.
- Liveness uses one fault and no crash: a crash drops the tasks it would be about. Version 1 is
  unsupported, so both the early return and a later supported version occur.
- Limiter: two attempts per key instead of five, three accounts and two addresses with a
  capacity of two keys, so that a store fills and a third key is refused; four admissions, so
  that a forgiven failure can be followed by a full limit; two ticks of lockout within a clock
  of two, so that attempts of different age are live and expire. The timer of the cleanup is
  longer than that, so that the cleanup at capacity is what makes room. A run stops when clock
  and log are at their bounds, therefore no deadlock check.
- SSH: three tasks, two hosts, two keys; the module has no counters.
- Setup: two requests, so that one waits for the other; one crash anywhere, which start-up and
  both presets meet again; two edits, so that a row that was disabled can be deleted
  under the request that enables it, or a remote node deleted and another one, or a protocol,
  created; four credentials, the seed's two, one by the setup and one
  by an operator. The second edit and a failed sync can come at any step.
- Accounts: two requests, the fewest that race, for one permit, so that one waits; three users
  ever, so that an id comes back to a third while a request holds what it read of the second;
  one change of a password, the one a verified hash can miss; one subscription at a time. The
  last administrator can deactivate the own account, after which nobody logs in: the system
  really stops there, so this run has no deadlock check.
- Fleet: two setups, for one node or two, with and without a key; two nodes, so that an id
  comes back; two configurations, and a value for what a failed restart leaves; three of cycles, checks, setups and creations begun, so that
  a setup, a cycle and a check overlap, or two cycles and a check follow each other.
- Builders: three creations and updates, of nine names and two ports, which gives three rows
  of one name, one row changed twice, and a row in between deleted.
- Backup: two runs; three archives and three days with one day of retention, so that two runs
  prune older archives of each other; two commits, so that a snapshot starts over twice. A
  database is two pieces, the fewest that can be torn. That no run takes longer than a day is
  assumed (`Midnight`): the snapshot has a deadline of 30 seconds, the rest is local copying.
  `NeverWithout` needs it: two runs that each slept past the retention of the other would
  prune each other's archive.

### Fairness

`ConfigApply!FairSpec`: the holder of the lock moves on, as every command runs under
`COMMAND_TIMEOUT`; a waiter is not passed over for ever, as `asyncio.Lock` is first come, first
served. Nothing is assumed of requests, restarts or faults. `SshPins!FairSpec`: the connection
has a timeout, threads end and every user disconnects in a `finally`; the lock as above.
Cancellations and crashes are not fair.

## Theorems

Every safety property of every passing run is proved for all values of its module's constants.
The action properties and the two refinements, `SwitchesTogether` and `TrustsFirstUse`, are
proved as well.

| module | theorem | says |
|---|---|---|
| `ConfigApplyProofs` | `TypeCorrect` | `Spec => []TypeOK` |
| | `NothingUnvalidated` | `Spec => []AcceptedByAll` |
| | `RollbackAtEveryInstant` | `Spec => []RollbackCopyUsable` |
| | `ImplementsConfigSwitch` | `Spec => SwitchesTogether` |
| | `AppliedMeansLive`, `RolledBackMeansRestored` | `Spec => AppliedIsLive`, `Spec => RolledBackIsRestored` |
| `LoginLimiterProofs` | `LimiterTyped` | `Spec => []TypeOK` |
| | `NoMoreGuesses` | `Spec => []NoExtraGuess` |
| | `StoresBounded` | `Spec => []WithinCapacity` |
| | `RefusalsAreEarned`, `RetryAfterExact` | `Spec => []RefusalIsEarned`, `Spec => []RetryAfterIsExact` |
| `SshPinsProofs` | `SshTyped`, `OnlyHolderWrites` | `Spec => []TypeOK`, `Spec => []WritesUnderLock` |
| | `ConnectionsArePinned` | `Spec => []ConnectedIsPinned` |
| | `ImplementsTrustOnFirstUse` | `Spec => TrustsFirstUse` |
| `SetupProofs` | `SetupTyped`, `SeededOnce` | `Spec => []TypeOK`, `Spec => []SeededOnceAndWhole` |
| | `CredentialsStay`, `PasswordBeforeSetup` | `Spec => []CredentialsReused`, `Spec => []PasswordChangedFirst` |
| | `SetupHasOwner`, `InUseStaysConfigured` | `Spec => []OwnerExists`, `Spec => []ExistingStaysConfigured` |
| | `PendingIsKept`, `CompletionServes` | `Spec => PendingUntilCompleted`, `Spec => CompletedIsServed` |
| `AccountsProofs` | `PoolBounded` | `PoolSpec => []ThreadsBounded` |
| | `UsesThePool` | `Spec => PoolSpec`: the handlers use the pool only as it allows |
| | `HandlersBounded`, `AccountsTyped` | `Spec => []ThreadsBounded`, `Spec => []TypeOK` |
| | `SubscriptionsServe`, `AdministratorLeft` | `Spec => []ServesItsOwner`, `Spec => []SomeAdministrator` |
| | `ChangesTheVerified` | `Spec => ReplacesVerified` |
| `FleetProofs` | `FleetTyped`, `ProtocolsHaveTheirNode` | `Spec => []TypeOK`, `Spec => []StrayOnlyLate` |
| | `RunsWhatIsStored`, `RestartedOnce` | `Spec => StoredIsRunning`, `Spec => OneRestartPerOutage` |
| `ProtocolRowsProofs` | `RowsHaveTheirListener` | `Spec => []OneListenerPerRow` |
| | `CoresAcceptTags` | `Spec => []TagsResolve` |
| | `ClientsCanConnect` | `Spec => []ClientMatchesServer` |
| `BackupProofs` | `OnlySoundPublished`, `ArchiveRemains` | `Spec => []PublishedIsSound`, `Spec => []NeverWithout` |

Each rests on the named assumption of its module alone (`ConstantsAssumption`,
`LimiterAssumption`, `SshAssumption`, `SetupAssumption`, `PoolAssumption` with
`AccountsAssumption`, `FleetAssumption`, `RowsAssumption`, `BackupAssumption`), which TLC
evaluates in the runs: bounds are natural numbers, what is counted is finite, the limits the
code sets are not zero, and the value for "no task" is not a task.

### Configuration transaction

`AcceptedByAll` alone is not inductive: it says nothing of the candidate that is about to be
written or of the originals that may be restored. `AcceptInv` adds that while validating with
`valid` still true every core so far accepted the candidate, that all have once files are
replaced, and that originals are vetted. `FileInv` relates files to the transaction: the first
`replaced` cores hold the candidate, the others their original, and nothing is newer than the
database; with `LockInv` (no transaction without a holder) it gives the refinement. `CoreInv`
does the same for containers: those before the loop index run the candidate, or the original
when recovered, whatever restarts come from outside, because a restart only loads what `FileInv`
says is in the file. Each invariant has one lemma for the holder's progress, one for its
failures and one for everyone else; the results follow from which steps can end a sync with
which result (`HowEnds`). `CopyInv` is about the rollback copies: unless something was torn, the
originals of a transaction are one version, outside of its replacements and restores the files
are too, a `.bak` of a replaced core is its original, and a restore has reached exactly the
cores before its index.

### Login limiter

`NoExtraGuess` counts over the history, not over the stores the code looks at. `GuessInv` closes
the gap: both stores hold every unforgiven guess of today; what cleanups and releases remove has
expired, is the attempt itself, or is forgiven (`TidyKeepsFresh`, `ReleaseKeeps`). `LimitInv`
says that neither store holds more fresh attempts of a key than the limit, `KeyInv` that a key
holds only its own attempts, none of them released, and `RequestInv` that a request verifies an
attempt of its own, so that two releases never meet. `RefusalIsEarned` and `RetryAfterIsExact`
follow state by state.

### Host keys

Holding the lock is not enough, as a cancelled task leaves its thread writing. `LockInv` ties
threads to tasks that still hold the lock, `SnapshotInv` says that what the holder read is still
the file until its own thread has written it, and that this thread runs only for a host without
a key. Then the one step that writes adds a first key (`WriteEnrolls`), which is `FileInv` and
the step of `TrustOnFirstUse`.

### Setup

None of the properties is inductive, as each relies on what a request checked some steps ago.
`PeopleInv` carries the checks along: while a completion is under way the setup is pending and
its password changed, no admitted deletion is of the owner of a pending setup, and requests live
only while the process serves. `TypeInv` adds to the types that a sync under way has read its
rows. `StoreInv` ties `seeds` to the seeded node and says that before the seed no row is the
local node's and none is the panel's: what the seed finds, and what its new node adopts, are
operators' rows. It also says that a request about to insert a row found none like it.
`MarkInv` is why a marker protects: start-up seeds only after it found none. So an
installation that had nodes, and did not lose all of them without a marker, has a node or the
marker, and is not seeded. `ServeInv` follows one protocol through a completion: found or stored,
read by the sync, live; a sync of others in between cannot lose it, because it is still active
in the rows.

### Users, subscriptions and the pool

`ThreadsBounded` is inductive with the types of the pool (`PoolInv`): only `Acquire` and
`ThreadEnds` change the set of running threads, each by one and together with the semaphore.
Every step of `Accounts` is a step of the pool or leaves it alone (`StepsThePool`), which is all
the composition needs. For the tables, what a request read before its awaits may be gone when it
commits. `ReqInv` says what stays true of it: whoever still has the uuid the request has read
has the same id, name and role (`Remembered`), although ids return; and an admitted deletion is
by an administrator other than the one it deletes. `RowsInv` bounds uuids and hashes by the
number of users ever. `Evolve` is what any commit does to the rows, and knowledge lasts
through it (`KnowledgeLasts`).

### Fleet

The same for nodes, in parts that the actions disturb one at a time. `NodesInv`: uuids are
unique, and a node stored as online may be restarted. `HealInv`: a check of the cycle that has
read a node is alone with its uuid, and a node that it read as online has not been restarted
since. `SetupInv`: a setup that counts as alone has nobody beside it on its machine, so what it
has written there is in the file, and once started in the service (`Undisturbed`); a restart by
the cycle loads that file again or fails (`Services`), and leaves the file alone.

### Server and client configurations

The rows are a short invariant (`RowsInv`: types, ids ascend). What the builders make of them is
a fold, and the prover is given no induction over data. The proofs do without: a fold of the
community modules is a `CHOOSE` of a function on the sets of positions. Such a function exists
for every length (`UnfoldedExists`, by induction for a *set* of numbers, `Inductive`, which is a
first-order statement about its least missing element), so the chosen one satisfies its
equations, and its values at the first k positions are the steps of the loop (`FoldSteps`).
Over these, `Listening` says of the inbounds of the first k rows that they are inbounds of those
rows, at most two for each, and that every row the core knows has exactly one that is public;
`Resolving` that with one ShadowTLS row the tags are distinct and detours name them. A free tag
exists because one more is tried than there are inbounds (`FreshTagIs`, by the pigeonhole
principle). The two cores know disjoint sets of names, so a row has its listener in one of them.
`ParamsAgree` compares client and server option by option.

### Backup

`Inv` follows a snapshot from its copy to its archive (`Copied`), and says of a run that prunes
that its own archive is there and was made no earlier than it began (`OwnIsThere`), which is at
most one midnight ago (`Timely`); no cutoff of another run reaches that far (`OwnIsRecent`), so
whatever is removed, that archive remains.

### Only model-checked

Liveness: `EverySyncEnds`, `CommitGoesLive` and `EveryConnectEnds` need `ENABLED` and fairness,
which are beyond the provers. The three expected violations are of course not proved.

## Findings

- `apply_rollback`: a core restarted outside the lock between the replacement of its file and
  the restore runs the candidate. The undo restarts only the cores that the transaction itself
  had come to restart (`touched`). TLC's shortest trace: the first core is restarted from outside
  right after its file was replaced, then a file operation of the second core fails, when
  `touched` is still empty; the same happens to a later core when the restart of an earlier one
  fails. Files are restored, the result is "rolled_back", the core runs what was never applied.
- `limiter_lost`: in `change_password` the statements after the verification are outside the
  `try` that releases the reservation, so a failing commit counts like a wrong password.
- `fleet_restarts`: the self-healing service asks one health-check URL for all nodes, not the
  nodes: when that cannot be reached, nodes that are up are stored as offline and restarted.

One more disagreement is in `SeededOnceAndWhole` itself, as the exemption `~forgotten`. A comment
in `_seed` (bootstrap.py:45) says that an existing installation must never gain a new seed node
or keys, but the branch looks only at the nodes there are at that moment. An installation that
had nodes, whose marker could not be written (`run_once` catches the exception and serves), and
whose remote nodes were then deleted (`DeleteRemote`), gets a new local node with new keys at its
next start: without the exemption TLC finds `Start`, `InitUsers`, `CheckFlag`, `BootFails`,
`DeleteRemote`, `Crash`, `Start`, `InitUsers`, `CheckFlag`, `Seed`.

Not disagreements with any source, but seen in the models: an INSERT that comes after the owner
or node it names was deleted leaves a row that belongs to the next owner with the id, and makes
every backup fail until it is gone; two administrators can delete each other; a second
ShadowTLS row makes sing-box refuse the configuration; a restart by the self-healing cycle that
fails leaves the service stopped, under a setup that is then stored as online.

## Not modelled

- Bot: a client of the API. Its token and its conversations are in memory, its requests are
  those the other modules accept from anyone.
- Statistics push: the list of sockets may skip or fail a client during a broadcast; the next
  comes after five seconds, and nothing depends on it.
- Settings, statistics queries, the web interface and the installer change no state that
  another part relies on.
- Of modelled parts: how an address is derived from proxy headers, tokens, traffic counters and
  expiry of users, latency and the event log, archive members and the upload, and how
  configurations are written as JSON, YAML or URIs.

## Plan

All safety properties the runs check are proved. What could follow is to model more and prove it
at once: the order in which `broadcast` of `main.py` serves its sockets, and the token refresh of
the bot.
