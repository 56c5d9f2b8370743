------------------------------- MODULE Accounts -------------------------------
(* Users and subscriptions as concurrent requests change them:               *)
(* backend/app/api/users.py, subscriptions.py, and get_current_user and      *)
(* change_password of auth.py, over the bcrypt pool of module PasswordPool.  *)
(*                                                                           *)
(* Every statement of a handler is a step of its own up to the first that    *)
(* writes: from there SQLite's write lock makes it one with the commit.      *)
(* Reads hold no lock.  Ids are SQLite's, one more than the largest in use,  *)
(* so the id of a deleted last row comes back.  Foreign keys are declared    *)
(* and not enforced.  bcrypt salts a hash, so none comes twice: it is known  *)
(* by the uuid of its row and a number.                                      *)
(* Answers that change nothing (400, 401, 403, 404, 409) only end a request. *)
(* E-mail, traffic, expiry and last_fetch are left out, the limiter of the   *)
(* two password routes is module LoginLimiter, the setup row module Setup.   *)
EXTENDS PasswordPool, FiniteSetsExt

CONSTANTS
    Names,       \* user names
    First,       \* the seeded administrator's
    MaxUsers, MaxHashes, MaxSubs    \* bounds: users and changes of a password
                                    \* ever, subscriptions at a time

ASSUME AccountsAssumption == First \in Names /\ {MaxHashes, MaxSubs} \subseteq Nat /\ MaxUsers \in Nat \ {0}

VARIABLES
    users,       \* id -> row; born is the row's uuid
    subs,        \* id -> row; token is its own, for and late are history
    born, hashes,        \* the bounded counters
    req,         \* the requests
    orphaned     \* history: an administrator already deleted deleted another

db == <<users, subs>>
counts == <<born, hashes>>
vars == <<permits, pool, users, subs, born, hashes, req, orphaned>>

Ids == 1..MaxUsers
NextId(table) == IF DOMAIN table = {} THEN 1 ELSE Max(DOMAIN table) + 1
Put(table, i, row) == [j \in DOMAIN table \union {i} |-> IF j = i THEN row ELSE table[j]]
Without(table, S) == [j \in DOMAIN table \ S |-> table[j]]

User(name, b, admin) ==
    [name |-> name, born |-> b, hash |-> <<b, 0>>, admin |-> admin, active |-> TRUE]
NewHash(i) == <<users[i].born, users[i].hash[2] + 1>>

\* What a request carries: its operation, the id and the row of its caller, the id
\* it works on and its argument; from the lookup on, only what it still uses.
Idle == [op |-> "none", at |-> "idle"]
Call(op, me, on, arg) ==
    [op |-> op, at |-> "lookup", me |-> me, row |-> users[me], on |-> on, arg |-> arg]

Init == /\ PoolInit
        /\ users = [i \in {1} |-> User(First, 1, TRUE)] /\ subs = << >>
        /\ born = 1 /\ hashes = 0
        /\ req = [r \in Tasks |-> Idle] /\ orphaned = FALSE

Becomes(r, c) == req' = [req EXCEPT ![r] = c]
Goes(r, at) == Becomes(r, [req[r] EXCEPT !.at = at])
Ends(r) == Becomes(r, Idle)
Reads == UNCHANGED <<permits, pool, users, subs, born, hashes, orphaned>>

-----------------------------------------------------------------------------
(* Authentication and lookup.                                                *)

\* The body of PATCH: a new password or a new is_active.
Patches == {[password |-> a = {}, active |-> a] : a \in {{}, {TRUE}, {FALSE}}}

\* get_current_user and require_admin: a token names a user, found by name.  The
\* ids asked for are in use now; with any other the answer is 404.
Arrive(r) ==
    /\ req[r] = Idle /\ Reads
    /\ \E me \in DOMAIN users : /\ users[me].active
        /\ \/ Becomes(r, [op |-> "change", at |-> "verify", on |-> me, row |-> users[me]])
           \/ \E on \in DOMAIN users : Becomes(r, Call("subscribe", me, on, {}))
           \/ \E s \in DOMAIN subs : Becomes(r, Call("unsubscribe", me, s, {}))
           \/ /\ users[me].admin
              /\ \/ \E n \in Names, a \in BOOLEAN :
                     Becomes(r, Call("create", me, 0, [name |-> n, admin |-> a]))
                 \/ \E on \in DOMAIN users, p \in Patches : Becomes(r, Call("patch", me, on, p))
                 \/ \E on \in DOMAIN users : Becomes(r, Call("delete", me, on, {}))

\* The session already holds the caller's own row and does not read it again.
Saw(c) == IF c.on = c.me THEN c.row ELSE users[c.on]

\* The handler's own SELECT.  Who finds nothing, or may not, ends: see Refuse.
LookupCreate(r) == LET c == req[r] IN
    /\ c.op = "create" /\ \A i \in DOMAIN users : users[i].name # c.arg.name
    /\ Becomes(r, [op |-> c.op, at |-> "hash", arg |-> c.arg])

LookupPatch(r) == LET c == req[r] IN
    /\ c.op = "patch" /\ c.on \in DOMAIN users
    /\ Becomes(r, [op |-> c.op, at |-> IF c.arg.password THEN "hash" ELSE "commit",
                   on |-> c.on, arg |-> c.arg, was |-> Saw(c).active])

\* Mutant: one's own account can be deleted.
LookupDeleteAny(r) == LET c == req[r] IN
    /\ c.op = "delete" /\ c.on \in DOMAIN users
    /\ Becomes(r, [op |-> c.op, at |-> "commit", on |-> c.on, by |-> c.row.born])

LookupDelete(r) == LET c == req[r] IN
    /\ c.op = "delete" /\ c.on \in DOMAIN users /\ c.on # c.me
    /\ Becomes(r, [op |-> c.op, at |-> "commit", on |-> c.on, by |-> c.row.born])

LookupOwner(r) == LET c == req[r] IN
    /\ c.op = "subscribe" /\ (c.on = c.me \/ (c.row.admin /\ c.on \in DOMAIN users))
    /\ Becomes(r, [op |-> c.op, at |-> "commit", on |-> c.on, for |-> Saw(c).born])

LookupSub(r) == LET c == req[r] IN
    /\ c.op = "unsubscribe" /\ c.on \in DOMAIN subs
    /\ (c.row.admin \/ subs[c.on].owner = c.me)
    /\ Becomes(r, [op |-> c.op, at |-> "commit", on |-> c.on])

Lookup(r) == /\ req[r].at = "lookup" /\ Reads
             /\ \/ LookupCreate(r) \/ LookupPatch(r) \/ LookupDelete(r)
                \/ LookupOwner(r) \/ LookupSub(r)

\* An answer without effect, or a cancellation outside the pool.
Refuse(r) == /\ req[r].at \in {"lookup", "verify", "hash", "commit"} /\ pool[r] = "out"
             /\ Ends(r) /\ Reads

-----------------------------------------------------------------------------
(* Passwords: in and out of the pool.                                        *)

StartBcrypt(r) == /\ req[r].at \in {"verify", "hash"} /\ Enter(r)
                  /\ UNCHANGED <<db, counts, req, orphaned>>

GetPermit(r) == Acquire(r) /\ UNCHANGED <<db, counts, req, orphaned>>

\* The thread ends: a wrong password and a cancelled request stop here.
BcryptDone(r) ==
    /\ ThreadEnds(r) /\ UNCHANGED <<db, counts, orphaned>>
    /\ IF pool[r] = "abandoned" THEN Ends(r)
       ELSE \/ req[r].at = "verify" /\ Goes(r, "hash")
            \/ req[r].at = "verify" /\ Ends(r)
            \/ req[r].at = "hash" /\ Goes(r, "commit")

CancelWaiting(r) == CancelQueued(r) /\ Ends(r) /\ UNCHANGED <<db, counts, orphaned>>
CancelBcrypt(r) == CancelRunning(r) /\ UNCHANGED <<db, counts, req, orphaned>>

-----------------------------------------------------------------------------
(* Commits.                                                                  *)

Committing(r, op) == /\ req[r].at = "commit" /\ req[r].op = op /\ Ends(r)
                     /\ UNCHANGED <<permits, pool>>

\* Mutant: the name is not declared unique.
CreateUserTwice(r) ==
    /\ Committing(r, "create") /\ born < MaxUsers
    /\ born' = born + 1
    /\ users' = Put(users, NextId(users), User(req[r].arg.name, born', req[r].arg.admin))
    /\ UNCHANGED <<subs, hashes, orphaned>>

\* UNIQUE(username) makes the INSERT raise when the name was taken meanwhile.
CreateUser(r) ==
    /\ Committing(r, "create") /\ born < MaxUsers
    /\ IF \E i \in DOMAIN users : users[i].name = req[r].arg.name
       THEN UNCHANGED <<users, born>>
       ELSE /\ born' = born + 1
            /\ users' = Put(users, NextId(users),
                            User(req[r].arg.name, born', req[r].arg.admin))
    /\ UNCHANGED <<subs, hashes, orphaned>>

\* The columns that differ from the row as read; UPDATE by id raises on a row gone.
UpdateUser(r) ==
    LET p == req[r].arg   i == req[r].on IN
    /\ Committing(r, "patch")
    /\ IF i \notin DOMAIN users THEN UNCHANGED <<users, hashes>>
       ELSE /\ hashes' = IF p.password THEN hashes + 1 ELSE hashes
            /\ hashes' <= MaxHashes
            /\ users' = [users EXCEPT
                 ![i].hash = IF p.password THEN NewHash(i) ELSE @,
                 ![i].active = IF p.active \in {{}, {req[r].was}} THEN @ ELSE ~req[r].was]
    /\ UNCHANGED <<subs, born, orphaned>>

\* Mutant: the deletion leaves the subscriptions to a cascade that is not enforced.
DeleteUserAlone(r) ==
    /\ Committing(r, "delete") /\ users' = Without(users, {req[r].on})
    /\ orphaned' = (orphaned \/ \A i \in DOMAIN users : users[i].born # req[r].by)
    /\ UNCHANGED <<subs, counts>>

\* Subscriptions and user in one commit; a user already gone is no error.
DeleteUser(r) ==
    /\ Committing(r, "delete")
    /\ users' = Without(users, {req[r].on})
    /\ subs' = Without(subs, {s \in DOMAIN subs : subs[s].owner = req[r].on})
    /\ orphaned' = (orphaned \/ \A i \in DOMAIN users : users[i].born # req[r].by)
    /\ UNCHANGED counts

\* Mutant: UPDATE by id, without the hash.
UnchangedById(r) == req[r].on \in DOMAIN users /\ users[req[r].on].active

\* The hash that was verified is compared in SQL; no row matched: 409.
Unchanged(r) == LET i == req[r].on IN
    i \in DOMAIN users /\ users[i].active /\ users[i].hash = req[r].row.hash

ChangePassword(r) ==
    /\ Committing(r, "change")
    /\ IF Unchanged(r)
       THEN /\ hashes < MaxHashes /\ hashes' = hashes + 1
            /\ users' = [users EXCEPT ![req[r].on].hash = NewHash(req[r].on)]
       ELSE UNCHANGED <<users, hashes>>
    /\ UNCHANGED <<subs, born, orphaned>>

CreateSub(r) ==
    LET o == req[r].on IN
    /\ Committing(r, "subscribe") /\ NextId(subs) <= MaxSubs
    /\ subs' = Put(subs, NextId(subs),
         [owner |-> o, for |-> req[r].for,
          late |-> o \notin DOMAIN users \/ users[o].born # req[r].for])
    /\ UNCHANGED <<users, born, hashes, orphaned>>

DeleteSub(r) == /\ Committing(r, "unsubscribe")
                /\ subs' = Without(subs, {req[r].on})
                /\ UNCHANGED <<users, counts, orphaned>>

Commit(r) == \/ CreateUser(r) \/ UpdateUser(r) \/ DeleteUser(r)
             \/ ChangePassword(r) \/ CreateSub(r) \/ DeleteSub(r)

Step(r) == \/ Lookup(r) \/ StartBcrypt(r) \/ GetPermit(r) \/ BcryptDone(r)
           \/ CancelWaiting(r) \/ CancelBcrypt(r) \/ Commit(r) \/ Refuse(r)
Next == \E r \in Tasks : Arrive(r) \/ Step(r)

Spec == Init /\ [][Next]_vars

-----------------------------------------------------------------------------
(* Properties.                                                               *)

UserRow == [name : Names, born : 1..MaxUsers, hash : (1..MaxUsers) \X (0..MaxHashes),
            admin : BOOLEAN, active : BOOLEAN]
SubRow == [owner : Ids, for : 1..MaxUsers, late : BOOLEAN]

\* The shapes, and the keys the tables declare: names and uuids are unique.
TypeOK == /\ PoolTypeOK
          /\ DOMAIN users \subseteq Ids /\ \A i \in DOMAIN users : users[i] \in UserRow
          /\ \A i, j \in DOMAIN users :
               i # j => users[i].name # users[j].name /\ users[i].born # users[j].born
          /\ DOMAIN subs \subseteq 1..MaxSubs /\ \A s \in DOMAIN subs : subs[s] \in SubRow
          /\ born \in 1..MaxUsers /\ hashes \in 0..MaxHashes
          /\ orphaned \in BOOLEAN

\* change_password stores a hash only over the very row the caller proved the
\* password of: whatever resets, deactivations, deletions and reuse of the id came
\* while bcrypt ran, it replaces no password that changed meanwhile.
ReplacesVerified ==
    [][\A r \in Tasks : ChangePassword(r) /\ users' # users =>
          users[req[r].on] = req[r].row]_vars

\* A subscription serves the user it was created for.  Deleting a user takes the
\* subscriptions along, so that one is inherited by the next user with the id, or
\* left without an owner, only when its INSERT came after its owner was deleted.
ServesItsOwner ==
    \A s \in DOMAIN subs : ~subs[s].late =>
        subs[s].owner \in DOMAIN users /\ users[subs[s].owner].born = subs[s].for

\* Nobody deletes the own account, so an administrator is left, unless one who
\* was deleted meanwhile deleted another: two that delete each other.
SomeAdministrator == (\E i \in DOMAIN users : users[i].admin) \/ orphaned
=============================================================================
