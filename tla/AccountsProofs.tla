---------------------------- MODULE AccountsProofs ----------------------------
(* What the handlers of module Accounts keep, for any number of requests,    *)
(* permits, users and changes: first of the pool they share, whose bound     *)
(* composes with them, then of the tables.                                   *)
EXTENDS Accounts, FiniteSetTheorems, WellFoundedInduction, TLAPS

-----------------------------------------------------------------------------
(* The bcrypt pool, whoever uses it.                                         *)

\* Permits and threads add up, and pool says which threads run.
PoolInv == PoolTypeOK /\ ThreadsBounded

LEMMA RunningFinite == IsFiniteSet(Running) /\ Cardinality(Running) \in Nat
<1>1. Running \subseteq Tasks BY DEF Running
<1> QED BY <1>1, PoolAssumption, FS_Subset, FS_CardinalityType

LEMMA PoolStarts == PoolInit => PoolInv
<1> SUFFICES ASSUME PoolInit PROVE PoolInv OBVIOUS
<1>1. Running = {} BY DEF PoolInit, Running
<1>2. Cardinality(Running) = 0 BY <1>1, FS_EmptySet
<1> QED BY <1>2, PoolAssumption DEF PoolInit, PoolInv, PoolTypeOK, ThreadsBounded

\* A task that neither starts nor ends a thread leaves the count alone.
LEMMA SameThreads ==
    ASSUME PoolInv, PoolTypeOK', Running' = Running, UNCHANGED permits
    PROVE  PoolInv'
<1>1. Cardinality(Running') = Cardinality(Running) OBVIOUS
<1> QED BY <1>1 DEF PoolInv, ThreadsBounded

LEMMA EnterKeeps == ASSUME PoolInv, NEW t \in Tasks, Enter(t) PROVE PoolInv'
<1>1. PoolTypeOK' BY DEF PoolInv, PoolTypeOK, Enter
<1>2. Running' = Running BY DEF PoolInv, PoolTypeOK, Enter, Running
<1>3. UNCHANGED permits BY DEF Enter
<1> QED BY <1>1, <1>2, <1>3, SameThreads

LEMMA CancelQueuedKeeps == ASSUME PoolInv, NEW t \in Tasks, CancelQueued(t) PROVE PoolInv'
<1>1. PoolTypeOK' BY DEF PoolInv, PoolTypeOK, CancelQueued
<1>2. Running' = Running BY DEF PoolInv, PoolTypeOK, CancelQueued, Running
<1>3. UNCHANGED permits BY DEF CancelQueued
<1> QED BY <1>1, <1>2, <1>3, SameThreads

\* The point of the shield: a cancelled request keeps its thread counted.
LEMMA CancelRunningKeeps == ASSUME PoolInv, NEW t \in Tasks, CancelRunning(t) PROVE PoolInv'
<1>1. PoolTypeOK' BY DEF PoolInv, PoolTypeOK, CancelRunning
<1>2. Running' = Running BY DEF PoolInv, PoolTypeOK, CancelRunning, Running
<1>3. UNCHANGED permits BY DEF CancelRunning
<1> QED BY <1>1, <1>2, <1>3, SameThreads

LEMMA AcquireKeeps == ASSUME PoolInv, NEW t \in Tasks, Acquire(t) PROVE PoolInv'
<1>1. permits \in 0..Permits /\ permits > 0 /\ permits' = permits - 1 /\ Permits \in Nat
  BY PoolAssumption DEF PoolInv, PoolTypeOK, Acquire
<1>2. PoolTypeOK' BY <1>1 DEF PoolInv, PoolTypeOK, Acquire
<1>3. t \notin Running /\ Running' = Running \union {t}
  BY DEF PoolInv, PoolTypeOK, Acquire, Running
<1>4. Cardinality(Running') = Cardinality(Running) + 1
  BY <1>3, RunningFinite, FS_AddElement
<1> QED BY <1>1, <1>2, <1>4, RunningFinite DEF PoolInv, ThreadsBounded

LEMMA ThreadEndsKeeps == ASSUME PoolInv, NEW t \in Tasks, ThreadEnds(t) PROVE PoolInv'
<1>1. t \in Running /\ Running' = Running \ {t}
  BY DEF PoolInv, PoolTypeOK, ThreadEnds, Running
<1>2. Cardinality(Running') = Cardinality(Running) - 1
  BY <1>1, RunningFinite, FS_RemoveElement
<1>3. Cardinality(Running') \in Nat
  <2>1. IsFiniteSet(Running') BY <1>1, RunningFinite, FS_Subset
  <2> QED BY <2>1, FS_CardinalityType
<1>4. permits \in 0..Permits /\ permits' = permits + 1 /\ Permits \in Nat
  BY PoolAssumption DEF PoolInv, PoolTypeOK, ThreadEnds
<1>5. permits + Cardinality(Running) = Permits BY DEF PoolInv, ThreadsBounded
<1>6. permits' \in 0..Permits /\ permits' + Cardinality(Running') = Permits
  BY <1>2, <1>3, <1>4, <1>5, RunningFinite
<1>7. Cardinality(Running') <= Permits BY <1>2, <1>3, <1>4, <1>5, RunningFinite
<1>8. PoolTypeOK' BY <1>6 DEF PoolInv, PoolTypeOK, ThreadEnds
<1> QED BY <1>6, <1>7, <1>8 DEF PoolInv, ThreadsBounded

LEMMA PoolStep == PoolInv /\ [PoolNext]_<<permits, pool>> => PoolInv'
<1> SUFFICES ASSUME PoolInv, [PoolNext]_<<permits, pool>> PROVE PoolInv' OBVIOUS
<1>1. CASE UNCHANGED <<permits, pool>>
  BY <1>1 DEF PoolInv, PoolTypeOK, ThreadsBounded, Running
<1>2. ASSUME NEW t \in Tasks, Enter(t) \/ Acquire(t) \/ ThreadEnds(t) \/ CancelQueued(t) \/ CancelRunning(t)
      PROVE  PoolInv'
  BY <1>2, EnterKeeps, AcquireKeeps, ThreadEndsKeeps, CancelQueuedKeeps, CancelRunningKeeps
<1> QED BY <1>1, <1>2 DEF PoolNext

\* Whoever is cancelled and however often, _password_work never runs more bcrypt
\* threads than it has permits, and loses none, for any number of either.
THEOREM PoolBounded == PoolSpec => []ThreadsBounded
<1>1. PoolInv => ThreadsBounded BY DEF PoolInv
<1> QED BY PoolStarts, PoolStep, <1>1, PTL DEF PoolSpec

-----------------------------------------------------------------------------
(* The pool among the handlers.                                              *)

\* A handler touches the pool only by the actions of PasswordPool.
LEMMA StepsThePool == [Next]_vars => [PoolNext]_<<permits, pool>>
<1> SUFFICES ASSUME [Next]_vars PROVE [PoolNext]_<<permits, pool>> OBVIOUS
<1> USE DEF PoolNext
<1>1. CASE UNCHANGED vars BY <1>1 DEF vars
<1>2. ASSUME NEW r \in Tasks, Arrive(r) \/ Step(r) PROVE [PoolNext]_<<permits, pool>>
  <2>1. CASE Arrive(r) BY <2>1 DEF Arrive, Reads
  <2>2. CASE Lookup(r) BY <2>2 DEF Lookup, Reads
  <2>3. CASE StartBcrypt(r) BY <2>3 DEF StartBcrypt
  <2>4. CASE GetPermit(r) BY <2>4 DEF GetPermit
  <2>5. CASE BcryptDone(r) BY <2>5 DEF BcryptDone
  <2>6. CASE CancelWaiting(r) BY <2>6 DEF CancelWaiting
  <2>7. CASE CancelBcrypt(r) BY <2>7 DEF CancelBcrypt
  <2>8. CASE Commit(r)
    BY <2>8 DEF Commit, CreateUser, UpdateUser, DeleteUser, ChangePassword, CreateSub,
                DeleteSub, Committing
  <2>9. CASE Refuse(r) BY <2>9 DEF Refuse, Reads
  <2> QED BY <1>2, <2>1, <2>2, <2>3, <2>4, <2>5, <2>6, <2>7, <2>8, <2>9 DEF Step
<1> QED BY <1>1, <1>2 DEF Next

\* Every behaviour of the handlers that hash and verify is one of the pool: they
\* call _password_work only as PasswordPool says it is called.
THEOREM UsesThePool == Spec => PoolSpec
<1>1. Init => PoolInit BY DEF Init
<1> QED BY <1>1, StepsThePool, PTL DEF Spec, PoolSpec

\* So the bcrypt threads are bounded, and none is lost, among the handlers too.
THEOREM HandlersBounded == Spec => []ThreadsBounded
BY UsesThePool, PoolBounded, PTL

-----------------------------------------------------------------------------
(* The inductive invariant.                                                  *)

\* What a request carries at each stage of its operation.
NewUser == [name : Names, admin : BOOLEAN]
Asking(op, On, Arg) ==
    [op : {op}, at : {"lookup"}, me : Ids, row : UserRow, on : On, arg : Arg]
Creating == Asking("create", {0}, NewUser)
            \union [op : {"create"}, at : {"hash", "commit"}, arg : NewUser]
Patching == Asking("patch", Ids, Patches)
            \union [op : {"patch"}, at : {"hash", "commit"}, on : Ids, arg : Patches, was : BOOLEAN]
Deleting == Asking("delete", Ids, {{}})
            \union [op : {"delete"}, at : {"commit"}, on : Ids, by : 1..MaxUsers]
Subscribing == Asking("subscribe", Ids, {{}})
               \union [op : {"subscribe"}, at : {"commit"}, on : Ids, for : 1..MaxUsers]
Unsubscribing == Asking("unsubscribe", 1..MaxSubs, {{}})
                 \union [op : {"unsubscribe"}, at : {"commit"}, on : 1..MaxSubs]
Changing == [op : {"change"}, at : {"verify", "hash", "commit"}, on : Ids, row : UserRow]
Requests == {Idle} \union Creating \union Patching \union Deleting
            \union Subscribing \union Unsubscribing \union Changing

\* Ids and uuids are no larger than the number of users ever, and a hash belongs
\* to the row that has it.
RowsInv == /\ DOMAIN users \subseteq 1..born
           /\ \A i \in DOMAIN users : /\ users[i].born <= born
                                      /\ users[i].hash[1] = users[i].born
                                      /\ users[i].hash[2] <= hashes

\* A row once read: whoever has its uuid now has its id, its name and its role.
Remembered(i, row) ==
    /\ row.born <= born /\ row.hash[1] = row.born /\ row.active
    /\ \A j \in DOMAIN users : users[j].born = row.born =>
          j = i /\ users[j].name = row.name /\ users[j].admin = row.admin

\* What a request knows of its caller holds as long as the caller is a user.
Knows(c) ==
    /\ c.at = "lookup" => /\ Remembered(c.me, c.row)
                          /\ c.op = "delete" => c.row.admin
    /\ c.op = "change" => Remembered(c.on, c.row)
    /\ c.op = "delete" /\ c.at = "commit" =>
          /\ c.by <= born
          /\ \A j \in DOMAIN users : users[j].born = c.by => j # c.on /\ users[j].admin

ReqInv == req \in [Tasks -> Requests] /\ \A r \in Tasks : Knows(req[r])

Inv == PoolInv /\ TypeOK /\ RowsInv /\ ReqInv /\ ServesItsOwner /\ SomeAdministrator

-----------------------------------------------------------------------------
(* The tables.                                                               *)

\* A bounded set of numbers has its Max.
LEMMA GreatestOf ==
    ASSUME NEW n \in Nat, NEW S \in SUBSET (1..n), S # {}
    PROVE  Max(S) \in S /\ \A x \in S : x <= Max(S)
<1>0. \A x \in S : x \in Nat /\ x <= n OBVIOUS
<1> DEFINE T == {n - x : x \in S}
<1>1. T \subseteq Nat /\ T # {}
  <2>1. \A x \in S : n - x \in Nat BY <1>0
  <2>2. PICK x \in S : TRUE OBVIOUS
  <2>3. n - x \in T BY <2>2
  <2> QED BY <2>1, <2>3
<1> DEFINE R == OpToRel(<, Nat)
<1>2. PICK t \in T : \A u \in T : ~ (<<u, t>> \in R)
  <2>1. IsWellFoundedOn(R, Nat) BY NatLessThanWellFounded
  <2> HIDE DEF R, T
  <2> QED BY <1>1, <2>1, WFMin
<1>3. \A u \in T : t <= u
  <2>1. \A u \in T : u \in Nat /\ t \in Nat BY <1>1
  <2>2. \A u \in T : ~ (u < t)
    <3> HIDE DEF T
    <3> QED BY <1>2, <2>1 DEF R, OpToRel
  <2> HIDE DEF T
  <2> QED BY <2>1, <2>2
<1> HIDE DEF R
<1>4. PICK x \in S : t = n - x OBVIOUS
<1>5. \A y \in S : x >= y
  <2>1. \A y \in S : n - x <= n - y BY <1>3, <1>4
  <2> HIDE DEF T
  <2> QED BY <1>0, <2>1
<1> QED BY <1>4, <1>5 DEF Max

\* The id of a new row is in no use, and at most one more than the bound.
LEMMA NextIdFree ==
    ASSUME NEW table, NEW n \in Nat, DOMAIN table \subseteq 1..n
    PROVE  NextId(table) \in 1..(n + 1) /\ NextId(table) \notin DOMAIN table
<1>1. CASE DOMAIN table = {} BY <1>1 DEF NextId
<1>2. CASE DOMAIN table # {}
  <2>1. Max(DOMAIN table) \in DOMAIN table /\ \A x \in DOMAIN table : x <= Max(DOMAIN table)
    BY <1>2, GreatestOf
  <2> QED BY <1>2, <2>1 DEF NextId
<1> QED BY <1>1, <1>2

\* Users change so that what was known of them stays true.
Evolve == /\ born' \in Nat /\ born' >= born
          /\ \A j \in DOMAIN users' :
               \/ users'[j].born > born
               \/ /\ j \in DOMAIN users /\ users'[j].born = users[j].born
                  /\ users'[j].name = users[j].name /\ users'[j].admin = users[j].admin

LEMMA RequestTypes ==
    ASSUME NEW c \in Requests
    PROVE  /\ c.at = "lookup" \/ c.op = "change" => c.row.born \in Nat
           /\ c.op = "delete" /\ c.at = "commit" => c.by \in Nat
BY DEF Requests, Creating, Patching, Deleting, Subscribing, Unsubscribing, Changing, Asking,
       Idle, UserRow

LEMMA KnowledgeLasts ==
    ASSUME TypeOK, Evolve, NEW c \in Requests, Knows(c)
    PROVE  Knows(c)'
<1>0. born \in Nat BY DEF TypeOK
<1>1. ASSUME NEW i, NEW row, row.born \in Nat, Remembered(i, row) PROVE Remembered(i, row)'
  BY <1>0, <1>1 DEF Remembered, Evolve
<1>2. c.op = "delete" /\ c.at = "commit" =>
          /\ c.by <= born'
          /\ \A j \in DOMAIN users' : users'[j].born = c.by => j # c.on /\ users'[j].admin
  BY <1>0, RequestTypes DEF Knows, Evolve
<1> QED BY <1>1, <1>2, RequestTypes DEF Knows

\* A step of one request: what it becomes is all there is to check.
LEMMA RequestsStep ==
    ASSUME TypeOK, ReqInv, Evolve, NEW r \in Tasks, NEW c \in Requests, Becomes(r, c), Knows(c)'
    PROVE  ReqInv'
<1>1. req' \in [Tasks -> Requests] /\ \A q \in Tasks : req'[q] = IF q = r THEN c ELSE req[q]
  BY DEF ReqInv, Becomes
<1>2. \A q \in Tasks : Knows(req[q])' BY <1>1, KnowledgeLasts DEF ReqInv, Knows, Remembered
<1> QED BY <1>1, <1>2 DEF ReqInv

-----------------------------------------------------------------------------
(* Steps that leave the tables alone.                                        *)

LEMMA TablesStay ==
    ASSUME Inv, PoolInv', UNCHANGED <<users, subs, born, hashes, orphaned>>
    PROVE  Evolve /\ TypeOK' /\ RowsInv' /\ ServesItsOwner' /\ SomeAdministrator'
<1>1. Evolve BY DEF Inv, TypeOK, Evolve
<1>2. TypeOK' BY DEF Inv, TypeOK, PoolInv
<1>3. RowsInv' BY DEF Inv, RowsInv
<1>4. ServesItsOwner' BY DEF Inv, ServesItsOwner
<1>5. SomeAdministrator' BY DEF Inv, SomeAdministrator
<1> QED BY <1>1, <1>2, <1>3, <1>4, <1>5

LEMMA IdleKnows == Idle \in Requests /\ Knows(Idle) /\ Knows(Idle)'
BY DEF Requests, Idle, Knows

\* A row just read is remembered: names and uuids are unique.
LEMMA RowRead ==
    ASSUME Inv, NEW i \in DOMAIN users, users[i].active
    PROVE  users[i] \in UserRow /\ i \in Ids /\ Remembered(i, users[i])
BY DEF Inv, TypeOK, RowsInv, Remembered

LEMMA QuietKeeps ==
    ASSUME Inv, PoolInv', UNCHANGED <<users, subs, born, hashes, orphaned>>,
           NEW r \in Tasks, NEW c \in Requests, Becomes(r, c), Knows(c)
    PROVE  Inv'
<1>1. Evolve BY TablesStay
<1>2. Knows(c)' BY <1>1, KnowledgeLasts DEF Inv
<1>3. ReqInv' BY <1>1, <1>2, RequestsStep DEF Inv
<1> QED BY <1>3, TablesStay DEF Inv

LEMMA ArriveKeeps ==
    ASSUME Inv, PoolInv', NEW r \in Tasks, Arrive(r)
    PROVE  Inv'
<1>1. UNCHANGED <<users, subs, born, hashes, orphaned>> BY DEF Arrive, Reads
<1>2. PICK me \in DOMAIN users : /\ users[me].active
        /\ \/ Becomes(r, [op |-> "change", at |-> "verify", on |-> me, row |-> users[me]])
           \/ \E on \in DOMAIN users : Becomes(r, Call("subscribe", me, on, {}))
           \/ \E s \in DOMAIN subs : Becomes(r, Call("unsubscribe", me, s, {}))
           \/ /\ users[me].admin
              /\ \/ \E n \in Names, a \in BOOLEAN :
                     Becomes(r, Call("create", me, 0, [name |-> n, admin |-> a]))
                 \/ \E on \in DOMAIN users, p \in Patches : Becomes(r, Call("patch", me, on, p))
                 \/ \E on \in DOMAIN users : Becomes(r, Call("delete", me, on, {}))
  BY DEF Arrive
<1>3. users[me] \in UserRow /\ me \in Ids /\ Remembered(me, users[me]) BY <1>2, RowRead
<1>4. DOMAIN users \subseteq Ids /\ DOMAIN subs \subseteq 1..MaxSubs BY DEF Inv, TypeOK
<1>5. ASSUME NEW c \in Requests, Becomes(r, c), Knows(c) PROVE ReqInv'
  BY <1>1, <1>5, QuietKeeps DEF Inv
<1>6. ASSUME NEW c \in Requests, Becomes(r, c), c.at = "lookup", c.me = me, c.row = users[me],
             c.op # "change", c.op = "delete" => users[me].admin
      PROVE  ReqInv'
  <2>1. Knows(c) BY <1>3, <1>6 DEF Knows
  <2> QED BY <1>5, <1>6, <2>1
<1>7. ReqInv'
  <2>1. CASE Becomes(r, [op |-> "change", at |-> "verify", on |-> me, row |-> users[me]])
    <3> DEFINE c == [op |-> "change", at |-> "verify", on |-> me, row |-> users[me]]
    <3>1. c \in Requests BY <1>3 DEF Requests, Changing
    <3>2. Knows(c) BY <1>3 DEF Knows
    <3> QED BY <1>5, <2>1, <3>1, <3>2
  <2>2. ASSUME NEW on \in DOMAIN users, Becomes(r, Call("subscribe", me, on, {})) PROVE ReqInv'
    <3> DEFINE c == Call("subscribe", me, on, {})
    <3>1. c \in Requests
      BY <1>3, <1>4 DEF Requests, Subscribing, Asking, Call
    <3>2. c.at = "lookup" /\ c.me = me /\ c.row = users[me] /\ c.op = "subscribe" BY DEF Call
    <3>3. Becomes(r, c) BY <2>2
    <3> HIDE DEF c
    <3> QED BY <1>6, <3>1, <3>2, <3>3
  <2>3. ASSUME NEW s \in DOMAIN subs, Becomes(r, Call("unsubscribe", me, s, {})) PROVE ReqInv'
    <3> DEFINE c == Call("unsubscribe", me, s, {})
    <3>1. c \in Requests
      BY <1>3, <1>4 DEF Requests, Unsubscribing, Asking, Call
    <3>2. c.at = "lookup" /\ c.me = me /\ c.row = users[me] /\ c.op = "unsubscribe" BY DEF Call
    <3>3. Becomes(r, c) BY <2>3
    <3> HIDE DEF c
    <3> QED BY <1>6, <3>1, <3>2, <3>3
  <2>4. ASSUME NEW n \in Names, NEW a \in BOOLEAN,
               Becomes(r, Call("create", me, 0, [name |-> n, admin |-> a]))
        PROVE  ReqInv'
    <3> DEFINE c == Call("create", me, 0, [name |-> n, admin |-> a])
    <3>1. c \in Requests
      BY <1>3 DEF Requests, Creating, Asking, Call, NewUser
    <3>2. c.at = "lookup" /\ c.me = me /\ c.row = users[me] /\ c.op = "create" BY DEF Call
    <3>3. Becomes(r, c) BY <2>4
    <3> HIDE DEF c
    <3> QED BY <1>6, <3>1, <3>2, <3>3
  <2>5. ASSUME NEW on \in DOMAIN users, NEW p \in Patches, Becomes(r, Call("patch", me, on, p))
        PROVE  ReqInv'
    <3> DEFINE c == Call("patch", me, on, p)
    <3>1. c \in Requests
      BY <1>3, <1>4 DEF Requests, Patching, Asking, Call
    <3>2. c.at = "lookup" /\ c.me = me /\ c.row = users[me] /\ c.op = "patch" BY DEF Call
    <3>3. Becomes(r, c) BY <2>5
    <3> HIDE DEF c
    <3> QED BY <1>6, <3>1, <3>2, <3>3
  <2>6. ASSUME NEW on \in DOMAIN users, users[me].admin, Becomes(r, Call("delete", me, on, {}))
        PROVE  ReqInv'
    <3> DEFINE c == Call("delete", me, on, {})
    <3>1. c \in Requests
      BY <1>3, <1>4 DEF Requests, Deleting, Asking, Call
    <3>2. c.at = "lookup" /\ c.me = me /\ c.row = users[me] /\ c.op = "delete" BY DEF Call
    <3>3. Becomes(r, c) BY <2>6
    <3> HIDE DEF c
    <3> QED BY <1>6, <3>1, <3>2, <3>3, <2>6
  <2> QED BY <1>2, <2>1, <2>2, <2>3, <2>4, <2>5, <2>6
<1> QED BY <1>1, <1>7, TablesStay DEF Inv

\* The stage of a request tells what it carries.
LEMMA Carries ==
    ASSUME NEW c \in Requests
    PROVE  /\ c.at = "lookup" =>
                /\ c.row \in UserRow /\ c.me \in Ids
                /\ c.op = "create" => c.arg \in NewUser
                /\ c.op = "patch" => c.on \in Ids /\ c.arg \in Patches
                /\ c.op \in {"delete", "subscribe"} => c.on \in Ids
                /\ c.op = "unsubscribe" => c.on \in 1..MaxSubs
           /\ c.at = "commit" =>
                /\ c.op = "create" => c.arg \in NewUser
                /\ c.op = "patch" => c.on \in Ids /\ c.arg \in Patches /\ c.was \in BOOLEAN
                /\ c.op = "delete" => c.on \in Ids /\ c.by \in 1..MaxUsers
                /\ c.op = "subscribe" => c.on \in Ids /\ c.for \in 1..MaxUsers
                /\ c.op = "unsubscribe" => c.on \in 1..MaxSubs
                /\ c.op = "change" => c.on \in Ids /\ c.row \in UserRow
BY DEF Requests, Creating, Patching, Deleting, Subscribing, Unsubscribing, Changing, Asking, Idle

LEMMA LookupKeeps ==
    ASSUME Inv, PoolInv', NEW r \in Tasks, Lookup(r)
    PROVE  Inv'
<1> DEFINE c == req[r]
<1>1. UNCHANGED <<users, subs, born, hashes, orphaned>> BY DEF Lookup, Reads
<1>2. c \in Requests /\ c.at = "lookup" /\ Knows(c) BY DEF Lookup, Inv, ReqInv
<1>3. Remembered(c.me, c.row) /\ (c.op = "delete" => c.row.admin) BY <1>2 DEF Knows
<1>4. \A i \in DOMAIN users : users[i] \in UserRow BY DEF Inv, TypeOK
<1>5. CASE LookupCreate(r)
  <2> DEFINE d == [op |-> c.op, at |-> "hash", arg |-> c.arg]
  <2>1. d \in Requests BY <1>2, <1>5, Carries DEF LookupCreate, Requests, Creating
  <2>2. Knows(d) BY <1>5 DEF LookupCreate, Knows
  <2>3. Becomes(r, d) BY <1>5 DEF LookupCreate
  <2> QED BY <1>1, <2>1, <2>2, <2>3, QuietKeeps
<1>6. CASE LookupPatch(r)
  <2> DEFINE d == [op |-> c.op, at |-> IF c.arg.password THEN "hash" ELSE "commit",
                   on |-> c.on, arg |-> c.arg, was |-> Saw(c).active]
  <2>1. Saw(c).active \in BOOLEAN
    BY <1>2, <1>4, <1>6, Carries DEF LookupPatch, Saw, UserRow
  <2>2. d \in Requests BY <1>2, <1>6, <2>1, Carries DEF LookupPatch, Requests, Patching
  <2>3. Knows(d) BY <1>6 DEF LookupPatch, Knows
  <2>4. Becomes(r, d) BY <1>6 DEF LookupPatch
  <2> QED BY <1>1, <2>2, <2>3, <2>4, QuietKeeps
<1>7. CASE LookupDelete(r)
  <2> DEFINE d == [op |-> c.op, at |-> "commit", on |-> c.on, by |-> c.row.born]
  <2>1. d \in Requests BY <1>2, <1>7, Carries DEF LookupDelete, Requests, Deleting, UserRow
  <2>2. Knows(d) BY <1>3, <1>7 DEF LookupDelete, Knows, Remembered
  <2>3. Becomes(r, d) BY <1>7 DEF LookupDelete
  <2> QED BY <1>1, <2>1, <2>2, <2>3, QuietKeeps
<1>8. CASE LookupOwner(r)
  <2> DEFINE d == [op |-> c.op, at |-> "commit", on |-> c.on, for |-> Saw(c).born]
  <2>1. Saw(c).born \in 1..MaxUsers
    BY <1>2, <1>4, <1>8, Carries DEF LookupOwner, Saw, UserRow
  <2>2. d \in Requests BY <1>2, <1>8, <2>1, Carries DEF LookupOwner, Requests, Subscribing
  <2>3. Knows(d) BY <1>8 DEF LookupOwner, Knows
  <2>4. Becomes(r, d) BY <1>8 DEF LookupOwner
  <2> QED BY <1>1, <2>2, <2>3, <2>4, QuietKeeps
<1>9. CASE LookupSub(r)
  <2> DEFINE d == [op |-> c.op, at |-> "commit", on |-> c.on]
  <2>1. d \in Requests BY <1>2, <1>9, Carries DEF LookupSub, Requests, Unsubscribing
  <2>2. Knows(d) BY <1>9 DEF LookupSub, Knows
  <2>3. Becomes(r, d) BY <1>9 DEF LookupSub
  <2> QED BY <1>1, <2>1, <2>2, <2>3, QuietKeeps
<1> QED BY <1>5, <1>6, <1>7, <1>8, <1>9 DEF Lookup

LEMMA EndKeeps ==
    ASSUME Inv, PoolInv', UNCHANGED <<users, subs, born, hashes, orphaned>>,
           NEW r \in Tasks, Ends(r)
    PROVE  Inv'
BY IdleKnows, QuietKeeps DEF Ends

\* A password verified or hashed takes the request on, with what it carries.
LEMMA GoesKeeps ==
    ASSUME Inv, PoolInv', UNCHANGED <<users, subs, born, hashes, orphaned>>,
           NEW r \in Tasks, NEW at,
           \/ req[r].at = "verify" /\ at = "hash"
           \/ req[r].at = "hash" /\ at = "commit",
           Goes(r, at)
    PROVE  Inv'
<1> DEFINE c == req[r]
           d == [c EXCEPT !.at = at]
<1>1. c \in Requests /\ Knows(c) BY DEF Inv, ReqInv
<1>2. \/ c \in [op : {"create"}, at : {"hash"}, arg : NewUser]
      \/ c \in [op : {"patch"}, at : {"hash"}, on : Ids, arg : Patches, was : BOOLEAN]
      \/ c \in Changing /\ c.at # "commit"
  BY <1>1 DEF Requests, Creating, Patching, Deleting, Subscribing, Unsubscribing, Changing,
              Asking, Idle
<1>3. d \in Requests
  <2>1. CASE c \in [op : {"create"}, at : {"hash"}, arg : NewUser]
    BY <2>1 DEF Requests, Creating
  <2>2. CASE c \in [op : {"patch"}, at : {"hash"}, on : Ids, arg : Patches, was : BOOLEAN]
    BY <2>2 DEF Requests, Patching
  <2>3. CASE c \in Changing BY <2>3 DEF Requests, Changing
  <2> QED BY <1>2, <2>1, <2>2, <2>3
<1>4. Knows(d)
  <2>1. CASE c \in Changing BY <1>1, <2>1 DEF Changing, Knows
  <2>2. CASE c \notin Changing
    <3>1. d.op \in {"create", "patch"} /\ d.at = "commit" BY <1>2, <2>2
    <3> QED BY <3>1 DEF Knows
  <2> QED BY <2>1, <2>2
<1>5. Becomes(r, d) BY DEF Goes
<1> QED BY <1>1, <1>3, <1>4, <1>5, QuietKeeps

-----------------------------------------------------------------------------
(* Commits.                                                                  *)

\* A commit ends its request: what is left to check is the tables.
LEMMA CommitKeeps ==
    ASSUME Inv, PoolInv', Evolve, NEW r \in Tasks, Ends(r),
           TypeOK', RowsInv', ServesItsOwner', SomeAdministrator'
    PROVE  Inv'
<1>1. ReqInv' BY IdleKnows, RequestsStep DEF Ends, Inv
<1> QED BY <1>1 DEF Inv

\* The users of a commit that writes other columns than the keys of some rows.
LEMMA SameKeys ==
    ASSUME Inv, PoolInv', UNCHANGED <<subs, born, orphaned>>, NEW r \in Tasks, Ends(r),
           hashes' \in 0..MaxHashes, hashes' >= hashes, DOMAIN users' = DOMAIN users,
           \A i \in DOMAIN users :
              /\ users'[i] \in UserRow
              /\ users'[i].born = users[i].born /\ users'[i].name = users[i].name
              /\ users'[i].admin = users[i].admin
              /\ users'[i].hash[1] = users[i].born /\ users'[i].hash[2] <= hashes'
    PROVE  Inv'
<1>1. Evolve BY DEF Evolve, Inv, TypeOK
<1>2. TypeOK' BY DEF Inv, TypeOK, PoolInv
<1>3. RowsInv' BY DEF Inv, RowsInv
<1>4. ServesItsOwner' BY DEF Inv, ServesItsOwner
<1>5. SomeAdministrator' BY DEF Inv, SomeAdministrator
<1> QED BY <1>1, <1>2, <1>3, <1>4, <1>5, CommitKeeps

\* A new password is of the row it replaces the hash of, and the latest.
LEMMA NewHashTyped ==
    ASSUME Inv, NEW i \in DOMAIN users, hashes + 1 <= MaxHashes
    PROVE  /\ NewHash(i) \in (1..MaxUsers) \X (0..MaxHashes)
           /\ NewHash(i)[1] = users[i].born /\ NewHash(i)[2] <= hashes + 1
<1>1. users[i] \in UserRow /\ users[i].hash[2] <= hashes /\ hashes \in Nat
  BY DEF Inv, TypeOK, RowsInv
<1> QED BY <1>1, AccountsAssumption DEF NewHash, UserRow

LEMMA CreateUserKeeps ==
    ASSUME Inv, PoolInv', NEW r \in Tasks, CreateUser(r)
    PROVE  Inv'
<1> DEFINE c == req[r]
           n == NextId(users)
           row == User(c.arg.name, born + 1, c.arg.admin)
<1>1. c \in Requests /\ c.at = "commit" /\ c.op = "create" /\ Ends(r)
  BY DEF CreateUser, Committing, Inv, ReqInv
<1>2. CASE \E i \in DOMAIN users : users[i].name = c.arg.name
  <2>1. UNCHANGED <<users, subs, born, hashes, orphaned>> BY <1>2 DEF CreateUser
  <2> QED BY <1>1, <2>1, EndKeeps
<1>3. CASE ~ \E i \in DOMAIN users : users[i].name = c.arg.name
  <2>1. /\ born < MaxUsers /\ born' = born + 1 /\ users' = Put(users, n, row)
        /\ UNCHANGED <<subs, hashes, orphaned>>
    BY <1>3 DEF CreateUser
  <2>2. born \in 1..MaxUsers /\ DOMAIN users \subseteq 1..born /\ born \in Nat
    BY DEF Inv, TypeOK, RowsInv
  <2>3. n \in 1..(born + 1) /\ n \notin DOMAIN users BY <2>2, NextIdFree
  <2>4. c.arg.name \in Names /\ c.arg.admin \in BOOLEAN BY <1>1, Carries DEF NewUser
  <2>5. /\ row \in UserRow /\ row.born = born + 1 /\ row.name = c.arg.name
        /\ row.hash[1] = born + 1 /\ row.hash[2] = 0
    BY <2>1, <2>2, <2>4, AccountsAssumption DEF User, UserRow
  <2> HIDE DEF n, row
  <2>6. /\ DOMAIN users' = DOMAIN users \union {n} /\ users'[n] = row
        /\ \A i \in DOMAIN users : users'[i] = users[i]
    BY <2>1, <2>3 DEF Put
  <2>7. \A i \in DOMAIN users : users[i] \in UserRow /\ users[i].born <= born /\ users[i].born \in Nat
    BY DEF Inv, TypeOK, RowsInv, UserRow
  <2>8. Evolve BY <2>1, <2>2, <2>5, <2>6 DEF Evolve
  <2>9. TypeOK'
    <3>1. DOMAIN users' \subseteq Ids BY <2>1, <2>2, <2>3, <2>6, AccountsAssumption DEF Ids
    <3>2. \A i \in DOMAIN users' : users'[i] \in UserRow BY <2>5, <2>6, <2>7
    <3>3. \A i, j \in DOMAIN users' :
               i # j => users'[i].name # users'[j].name /\ users'[i].born # users'[j].born
      <4>1. \A i \in DOMAIN users : users[i].name # row.name /\ users[i].born # row.born
        BY <1>3, <2>2, <2>5, <2>7
      <4> QED BY <2>6, <4>1 DEF Inv, TypeOK
    <3>4. born' \in 1..MaxUsers BY <2>1, <2>2, AccountsAssumption
    <3> QED BY <2>1, <3>1, <3>2, <3>3, <3>4 DEF Inv, TypeOK, PoolInv
  <2>10. RowsInv'
    <3>1. DOMAIN users' \subseteq 1..born' BY <2>1, <2>2, <2>3, <2>6
    <3>2. row.born <= born' /\ row.hash[1] = row.born /\ row.hash[2] <= hashes
      BY <2>1, <2>2, <2>5 DEF Inv, TypeOK
    <3>3. \A i \in DOMAIN users : users[i].born <= born' BY <2>1, <2>2, <2>7
    <3> QED BY <2>1, <2>6, <3>1, <3>2, <3>3 DEF Inv, RowsInv
  <2>11. ServesItsOwner' BY <2>1, <2>6 DEF Inv, ServesItsOwner
  <2>12. SomeAdministrator' BY <2>1, <2>6 DEF Inv, SomeAdministrator
  <2> QED BY <1>1, <2>8, <2>9, <2>10, <2>11, <2>12, CommitKeeps
<1> QED BY <1>2, <1>3

LEMMA UpdateUserKeeps ==
    ASSUME Inv, PoolInv', NEW r \in Tasks, UpdateUser(r)
    PROVE  Inv'
<1> DEFINE c == req[r]
           i == c.on
           p == c.arg
<1>1. c \in Requests /\ c.at = "commit" /\ c.op = "patch" /\ Ends(r) /\ UNCHANGED <<subs, born, orphaned>>
  BY DEF UpdateUser, Committing, Inv, ReqInv
<1>2. CASE i \notin DOMAIN users
  <2>1. UNCHANGED <<users, subs, born, hashes, orphaned>> BY <1>2 DEF UpdateUser
  <2> QED BY <1>1, <2>1, EndKeeps
<1>3. CASE i \in DOMAIN users
  <2> DEFINE h == IF p.password THEN NewHash(i) ELSE users[i].hash
             a == IF p.active \in {{}, {c.was}} THEN users[i].active ELSE ~c.was
             row == [users[i] EXCEPT !.hash = h, !.active = a]
  <2>1. /\ hashes' = IF p.password THEN hashes + 1 ELSE hashes
        /\ hashes' <= MaxHashes
        /\ users' = [users EXCEPT ![i].hash = IF p.password THEN NewHash(i) ELSE @,
                 ![i].active = IF p.active \in {{}, {c.was}} THEN @ ELSE ~c.was]
    BY <1>3 DEF UpdateUser
  <2>2. hashes \in 0..MaxHashes /\ MaxHashes \in Nat BY AccountsAssumption DEF Inv, TypeOK
  <2>3. \A j \in DOMAIN users : /\ users[j] \in UserRow
                                /\ users[j].hash[1] = users[j].born /\ users[j].hash[2] <= hashes
                                /\ users[j].hash[2] \in Nat
    BY DEF Inv, TypeOK, RowsInv, UserRow
  <2>4. /\ h \in (1..MaxUsers) \X (0..MaxHashes)
        /\ h[1] = users[i].born /\ h[2] <= hashes'
    <3>1. CASE p.password BY <1>3, <2>1, <3>1, NewHashTyped
    <3>2. CASE ~p.password BY <1>3, <2>1, <2>3, <3>2 DEF UserRow
    <3> QED BY <3>1, <3>2
  <2>5. a \in BOOLEAN BY <1>1, <1>3, <2>3, Carries DEF UserRow
  <2>6. DOMAIN users' = DOMAIN users BY <2>1
  <2>7. users'[i] = row
    BY <1>3, <2>1, <2>3 DEF UserRow
  <2>8. \A j \in DOMAIN users \ {i} : users'[j] = users[j] BY <2>1
  <2> HIDE DEF h, a
  <2>9. row \in UserRow /\ row.hash = h /\ row.born = users[i].born
        /\ row.name = users[i].name /\ row.admin = users[i].admin
    BY <1>3, <2>3, <2>4, <2>5 DEF UserRow
  <2> HIDE DEF row
  <2>10. hashes' \in 0..MaxHashes /\ hashes' >= hashes BY <2>1, <2>2
  <2>11. \A j \in DOMAIN users :
              /\ users'[j] \in UserRow
              /\ users'[j].born = users[j].born /\ users'[j].name = users[j].name
              /\ users'[j].admin = users[j].admin
              /\ users'[j].hash[1] = users[j].born /\ users'[j].hash[2] <= hashes'
    <3>1. \A j \in DOMAIN users \ {i} : users[j].hash[2] <= hashes' BY <2>2, <2>3, <2>10
    <3> QED BY <2>3, <2>4, <2>7, <2>8, <2>9, <3>1
  <2> QED BY <1>1, <2>6, <2>10, <2>11, SameKeys
<1> QED BY <1>2, <1>3

LEMMA ChangePasswordKeeps ==
    ASSUME Inv, PoolInv', NEW r \in Tasks, ChangePassword(r)
    PROVE  Inv'
<1> DEFINE c == req[r]
           i == c.on
<1>1. c \in Requests /\ Ends(r) /\ UNCHANGED <<subs, born, orphaned>>
  BY DEF ChangePassword, Committing, Inv, ReqInv
<1>2. CASE ~Unchanged(r)
  <2>1. UNCHANGED <<users, subs, born, hashes, orphaned>> BY <1>2 DEF ChangePassword
  <2> QED BY <1>1, <2>1, EndKeeps
<1>3. CASE Unchanged(r)
  <2> DEFINE h == NewHash(i)
             row == [users[i] EXCEPT !.hash = h]
  <2>1. /\ i \in DOMAIN users /\ hashes < MaxHashes /\ hashes' = hashes + 1
        /\ users' = [users EXCEPT ![i].hash = h]
    BY <1>3 DEF ChangePassword, Unchanged
  <2>2. hashes \in 0..MaxHashes /\ MaxHashes \in Nat BY AccountsAssumption DEF Inv, TypeOK
  <2>3. \A j \in DOMAIN users : /\ users[j] \in UserRow
                                /\ users[j].hash[1] = users[j].born /\ users[j].hash[2] <= hashes
                                /\ users[j].hash[2] \in Nat
    BY DEF Inv, TypeOK, RowsInv, UserRow
  <2>4. /\ h \in (1..MaxUsers) \X (0..MaxHashes)
        /\ h[1] = users[i].born /\ h[2] <= hashes'
    BY <2>1, <2>2, NewHashTyped
  <2> HIDE DEF h
  <2>5. row \in UserRow /\ row.hash = h /\ row.born = users[i].born
        /\ row.name = users[i].name /\ row.admin = users[i].admin
    BY <2>1, <2>3, <2>4 DEF UserRow
  <2>6. users' = [users EXCEPT ![i] = row] BY <2>1
  <2> HIDE DEF row
  <2>7. DOMAIN users' = DOMAIN users BY <2>6
  <2>8. hashes' \in 0..MaxHashes /\ hashes' >= hashes BY <2>1, <2>2
  <2>9. \A j \in DOMAIN users :
              /\ users'[j] \in UserRow
              /\ users'[j].born = users[j].born /\ users'[j].name = users[j].name
              /\ users'[j].admin = users[j].admin
              /\ users'[j].hash[1] = users[j].born /\ users'[j].hash[2] <= hashes'
    <3>1. \A j \in DOMAIN users \ {i} : users[j].hash[2] <= hashes' BY <2>2, <2>3, <2>8
    <3> QED BY <2>3, <2>4, <2>5, <2>6, <3>1
  <2> QED BY <1>1, <2>7, <2>8, <2>9, SameKeys
<1> QED BY <1>2, <1>3

\* The caller who is still a user is an administrator, and not the one deleted.
LEMMA DeleteUserKeeps ==
    ASSUME Inv, PoolInv', NEW r \in Tasks, DeleteUser(r)
    PROVE  Inv'
<1> DEFINE c == req[r]
           i == c.on
<1>1. /\ c.at = "commit" /\ c.op = "delete" /\ Ends(r) /\ UNCHANGED <<born, hashes>>
      /\ users' = Without(users, {i})
      /\ subs' = Without(subs, {s \in DOMAIN subs : subs[s].owner = i})
      /\ orphaned' = (orphaned \/ \A j \in DOMAIN users : users[j].born # c.by)
  BY DEF DeleteUser, Committing, counts
<1>2. \A j \in DOMAIN users : users[j].born = c.by => j # i /\ users[j].admin
  BY <1>1 DEF Inv, ReqInv, Knows
<1>3. /\ DOMAIN users' = DOMAIN users \ {i}
      /\ \A j \in DOMAIN users \ {i} : users'[j] = users[j]
  BY <1>1 DEF Without
<1>4. /\ DOMAIN subs' = {s \in DOMAIN subs : subs[s].owner # i}
      /\ \A s \in DOMAIN subs' : subs'[s] = subs[s]
  BY <1>1 DEF Without
<1>5. orphaned' \in BOOLEAN BY <1>1 DEF Inv, TypeOK
<1> HIDE DEF c, i
<1>6. born' = born /\ hashes' = hashes /\ born \in Nat BY <1>1 DEF Inv, TypeOK
<1>7. Evolve BY <1>3, <1>6 DEF Evolve
<1>8. TypeOK'
  <2>1. /\ DOMAIN users' \subseteq Ids /\ \A j \in DOMAIN users' : users'[j] \in UserRow
        /\ \A j, k \in DOMAIN users' :
               j # k => users'[j].name # users'[k].name /\ users'[j].born # users'[k].born
    BY <1>3 DEF Inv, TypeOK
  <2>2. DOMAIN subs' \subseteq 1..MaxSubs /\ \A s \in DOMAIN subs' : subs'[s] \in SubRow
    BY <1>4 DEF Inv, TypeOK
  <2>3. born' \in 1..MaxUsers /\ hashes' \in 0..MaxHashes BY <1>6 DEF Inv, TypeOK
  <2> QED BY <1>5, <2>1, <2>2, <2>3 DEF TypeOK, PoolInv
<1>9. RowsInv' BY <1>3, <1>6 DEF Inv, RowsInv
<1>10. ServesItsOwner' BY <1>3, <1>4 DEF Inv, ServesItsOwner
<1>11. SomeAdministrator'
  <2>1. CASE orphaned' BY <2>1 DEF SomeAdministrator
  <2>2. CASE ~orphaned'
    <3>1. PICK j \in DOMAIN users : users[j].born = c.by BY <1>1, <2>2
    <3>2. j \in DOMAIN users' /\ users'[j].admin BY <1>2, <1>3, <3>1
    <3> QED BY <3>2 DEF SomeAdministrator
  <2> QED BY <2>1, <2>2
<1> QED BY <1>1, <1>7, <1>8, <1>9, <1>10, <1>11, CommitKeeps

\* Subscriptions come and go; the users stay.
LEMMA SubsKeep ==
    ASSUME Inv, PoolInv', UNCHANGED <<users, born, hashes, orphaned>>, NEW r \in Tasks, Ends(r),
           DOMAIN subs' \subseteq 1..MaxSubs, \A s \in DOMAIN subs' : subs'[s] \in SubRow,
           ServesItsOwner'
    PROVE  Inv'
<1>1. Evolve BY DEF Inv, TypeOK, Evolve
<1>2. TypeOK' BY DEF Inv, TypeOK, PoolInv
<1>3. RowsInv' BY DEF Inv, RowsInv
<1>4. SomeAdministrator' BY DEF Inv, SomeAdministrator
<1> QED BY <1>1, <1>2, <1>3, <1>4, CommitKeeps

LEMMA CreateSubKeeps ==
    ASSUME Inv, PoolInv', NEW r \in Tasks, CreateSub(r)
    PROVE  Inv'
<1> DEFINE c == req[r]
           o == c.on
           n == NextId(subs)
           row == [owner |-> o, for |-> c.for,
                   late |-> o \notin DOMAIN users \/ users[o].born # c.for]
<1>1. /\ c \in Requests /\ c.at = "commit" /\ c.op = "subscribe" /\ Ends(r)
      /\ n <= MaxSubs /\ subs' = Put(subs, n, row)
      /\ UNCHANGED <<users, born, hashes, orphaned>>
  BY DEF CreateSub, Committing, Inv, ReqInv
<1>2. n \in 1..(MaxSubs + 1) BY NextIdFree, AccountsAssumption DEF Inv, TypeOK
<1>3. row \in SubRow BY <1>1, Carries DEF SubRow
<1>4. ~row.late => row.owner \in DOMAIN users /\ users[row.owner].born = row.for OBVIOUS
<1> HIDE DEF n, row
<1>5. /\ DOMAIN subs' = DOMAIN subs \union {n}
      /\ \A s \in DOMAIN subs' : subs'[s] = IF s = n THEN row ELSE subs[s]
  BY <1>1 DEF Put
<1>6. DOMAIN subs' \subseteq 1..MaxSubs BY <1>1, <1>2, <1>5, AccountsAssumption DEF Inv, TypeOK
<1>7. \A s \in DOMAIN subs' : subs'[s] \in SubRow BY <1>3, <1>5 DEF Inv, TypeOK
<1>8. ServesItsOwner' BY <1>1, <1>4, <1>5 DEF Inv, ServesItsOwner
<1> QED BY <1>1, <1>6, <1>7, <1>8, SubsKeep

LEMMA DeleteSubKeeps ==
    ASSUME Inv, PoolInv', NEW r \in Tasks, DeleteSub(r)
    PROVE  Inv'
<1>1. /\ Ends(r) /\ subs' = Without(subs, {req[r].on})
      /\ UNCHANGED <<users, born, hashes, orphaned>>
  BY DEF DeleteSub, Committing, counts
<1>2. /\ DOMAIN subs' \subseteq DOMAIN subs
      /\ \A s \in DOMAIN subs' : subs'[s] = subs[s]
  BY <1>1 DEF Without
<1>3. ServesItsOwner' BY <1>1, <1>2 DEF Inv, ServesItsOwner
<1> QED BY <1>1, <1>2, <1>3, SubsKeep DEF Inv, TypeOK

-----------------------------------------------------------------------------
(* The theorems.                                                             *)

LEMMA Starts == Init => Inv
<1> SUFFICES ASSUME Init PROVE Inv OBVIOUS
<1>1. PoolInv BY PoolStarts DEF Init
<1>2. DOMAIN users = {1} /\ users[1] = User(First, 1, TRUE) /\ subs = << >> BY DEF Init
<1>3. users[1] \in UserRow /\ users[1].born = 1 /\ users[1].hash[1] = 1 /\ users[1].hash[2] = 0
      /\ users[1].admin
  BY <1>2, AccountsAssumption DEF User, UserRow
<1>4. TypeOK
  <2>1. born \in 1..MaxUsers /\ hashes \in 0..MaxHashes /\ orphaned \in BOOLEAN
    <3>1. born = 1 /\ hashes = 0 /\ orphaned = FALSE BY DEF Init
    <3>2. MaxHashes \in Nat /\ MaxUsers \in Nat /\ MaxUsers # 0 BY AccountsAssumption
    <3>3. 1 \in 1..MaxUsers /\ 0 \in 0..MaxHashes BY <3>2
    <3> QED BY <3>1, <3>3
  <2>2. DOMAIN users \subseteq Ids /\ \A i \in DOMAIN users : users[i] \in UserRow
    <3>1. 1 \in Ids BY AccountsAssumption DEF Ids
    <3>2. \A i \in DOMAIN users : i = 1 BY <1>2
    <3> QED BY <1>3, <3>1, <3>2
  <2>3. \A i, j \in DOMAIN users : i = j BY <1>2
  <2>4. DOMAIN subs = {} BY <1>2
  <2> QED BY <1>1, <2>1, <2>2, <2>3, <2>4 DEF TypeOK, PoolInv
<1>5. RowsInv
  <2>1. born = 1 /\ hashes = 0 BY DEF Init
  <2>2. \A i \in DOMAIN users : i = 1 BY <1>2
  <2>3. \A i \in DOMAIN users : i \in 1..born BY <2>1, <2>2
  <2>4. users[1].born <= born /\ users[1].hash[1] = users[1].born /\ users[1].hash[2] <= hashes
    BY <1>3, <2>1
  <2> QED BY <2>2, <2>3, <2>4 DEF RowsInv
<1>6. ReqInv BY IdleKnows DEF Init, ReqInv
<1>7. ServesItsOwner BY <1>2 DEF ServesItsOwner
<1>8. SomeAdministrator BY <1>2, <1>3 DEF SomeAdministrator
<1> QED BY <1>1, <1>4, <1>5, <1>6, <1>7, <1>8 DEF Inv

LEMMA InvStep == Inv /\ [Next]_vars => Inv'
<1> SUFFICES ASSUME Inv, [Next]_vars PROVE Inv' OBVIOUS
<1>1. PoolInv' BY PoolStep, StepsThePool DEF Inv
<1>2. ASSUME UNCHANGED <<users, subs, born, hashes, orphaned, req>> PROVE Inv'
  <2>1. Evolve /\ TypeOK' /\ RowsInv' /\ ServesItsOwner' /\ SomeAdministrator'
    BY <1>1, <1>2, TablesStay
  <2>2. ReqInv' BY <1>2 DEF Inv, ReqInv, Knows, Remembered
  <2> QED BY <1>1, <2>1, <2>2 DEF Inv
<1>3. CASE UNCHANGED vars BY <1>2, <1>3 DEF vars
<1>4. ASSUME NEW r \in Tasks, Arrive(r) \/ Step(r) PROVE Inv'
  <2>1. CASE Arrive(r) BY <1>1, <2>1, ArriveKeeps
  <2>2. CASE Lookup(r) BY <1>1, <2>2, LookupKeeps
  <2>3. CASE StartBcrypt(r) BY <1>2, <2>3 DEF StartBcrypt, db, counts
  <2>4. CASE GetPermit(r) BY <1>2, <2>4 DEF GetPermit, db, counts
  <2>5. CASE BcryptDone(r)
    <3>1. UNCHANGED <<users, subs, born, hashes, orphaned>> BY <2>5 DEF BcryptDone, db, counts
    <3>2. CASE Ends(r) BY <1>1, <3>1, <3>2, EndKeeps
    <3>3. CASE req[r].at = "verify" /\ Goes(r, "hash") BY <1>1, <3>1, <3>3, GoesKeeps
    <3>4. CASE req[r].at = "hash" /\ Goes(r, "commit") BY <1>1, <3>1, <3>4, GoesKeeps
    <3> QED BY <2>5, <3>2, <3>3, <3>4 DEF BcryptDone
  <2>6. CASE CancelWaiting(r) BY <1>1, <2>6, EndKeeps DEF CancelWaiting, db, counts
  <2>7. CASE CancelBcrypt(r) BY <1>2, <2>7 DEF CancelBcrypt, db, counts
  <2>8. CASE Commit(r)
    BY <1>1, <2>8, CreateUserKeeps, UpdateUserKeeps, DeleteUserKeeps, ChangePasswordKeeps,
       CreateSubKeeps, DeleteSubKeeps DEF Commit
  <2>9. CASE Refuse(r) BY <1>1, <2>9, EndKeeps DEF Refuse, Reads
  <2> QED BY <1>4, <2>1, <2>2, <2>3, <2>4, <2>5, <2>6, <2>7, <2>8, <2>9 DEF Step
<1> QED BY <1>3, <1>4 DEF Next

LEMMA InvHolds == Spec => []Inv
BY Starts, InvStep, PTL DEF Spec

\* Rows, ids and counters keep their shapes, and names and uuids stay unique.
THEOREM AccountsTyped == Spec => []TypeOK
<1>1. Inv => TypeOK BY DEF Inv
<1> QED BY <1>1, InvHolds, PTL

\* A subscription stored in time has the owner it was created for.
THEOREM SubscriptionsServe == Spec => []ServesItsOwner
<1>1. Inv => ServesItsOwner BY DEF Inv
<1> QED BY <1>1, InvHolds, PTL

\* An administrator is left, unless one who was deleted meanwhile deleted another.
THEOREM AdministratorLeft == Spec => []SomeAdministrator
<1>1. Inv => SomeAdministrator BY DEF Inv
<1> QED BY <1>1, InvHolds, PTL

\* The hash names the row by its uuid, which fixes id, name and role; the rest
\* of the row is compared.
LEMMA ChangeReplacesVerified ==
    ASSUME Inv, NEW r \in Tasks, ChangePassword(r), users' # users
    PROVE  users[req[r].on] = req[r].row
<1> DEFINE c == req[r]
           i == c.on
<1>1. c \in Requests /\ Knows(c) /\ c.at = "commit" /\ c.op = "change"
  BY DEF Inv, ReqInv, ChangePassword, Committing
<1>2. i \in DOMAIN users /\ users[i].active /\ users[i].hash = c.row.hash
  BY DEF ChangePassword, Unchanged
<1>3. Remembered(i, c.row) /\ c.row \in UserRow BY <1>1, Carries DEF Knows
<1>4. users[i] \in UserRow /\ users[i].hash[1] = users[i].born BY <1>2 DEF Inv, TypeOK, RowsInv
<1>5. users[i].born = c.row.born BY <1>2, <1>3, <1>4 DEF Remembered
<1>6. users[i].name = c.row.name /\ users[i].admin = c.row.admin /\ c.row.active
  BY <1>2, <1>3, <1>5 DEF Remembered
<1> QED BY <1>2, <1>3, <1>4, <1>5, <1>6 DEF UserRow

\* No password that changed, on no row that changed, is replaced by change_password.
THEOREM ChangesTheVerified == Spec => ReplacesVerified
<1>1. Inv /\ [Next]_vars =>
        [\A r \in Tasks : ChangePassword(r) /\ users' # users => users[req[r].on] = req[r].row]_vars
  BY ChangeReplacesVerified
<1> QED BY <1>1, InvHolds, PTL DEF Spec, ReplacesVerified
==============================================================================
