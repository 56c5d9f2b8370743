---------------------------- MODULE LoginLimiter ----------------------------
(* The limiter of password guesses, and the two requests that use it: login  *)
(* and change_password of backend/app/api/auth.py.  A request reserves an    *)
(* attempt before its first await; while the password is verified in a       *)
(* thread other requests run, so attempts end in any order.                  *)
(*                                                                           *)
(* log[i] is the LoginAttempt object whose sequence is i, kept after both    *)
(* stores forgot it; its verdict "wrong" is the flag failed.  The stores map *)
(* a key to the numbers of its attempts; a key that is not in the            *)
(* dictionary maps to {}.  Time is a tick, 30 s of the code's 900.           *)
EXTENDS Integers, Sequences, FiniteSets

CONSTANTS Accounts, Addresses,
          Requests,      \* requests that may be under way at once
          MaxAttempts,   \* _MAX_ATTEMPTS
          Lockout,       \* _LOCKOUT_SEC
          CleanupEvery,  \* ticks between two timed cleanups
          Capacity,      \* keys in a store
          MaxLog,        \* bound: attempts admitted
          MaxFaults,     \* bound: requests that end without an answer
          MaxTime        \* bound: the clock

ASSUME LimiterAssumption ==
    /\ MaxAttempts \in Nat \ {0} /\ Lockout \in Nat \ {0}
    /\ CleanupEvery \in Nat /\ Capacity \in Nat \ {0}
    /\ MaxLog \in Nat /\ MaxTime \in Nat /\ MaxFaults \in Nat
    /\ IsFiniteSet(Accounts) /\ IsFiniteSet(Addresses)

VARIABLES now, log, accounts, addresses, nextCleanup,
          request   \* request -> its attempt's number, 0 when idle

vars == <<now, log, accounts, addresses, nextCleanup, request>>

Init == /\ now = 0 /\ log = <<>> /\ nextCleanup = 0
        /\ accounts = [k \in Accounts |-> {}]
        /\ addresses = [k \in Addresses |-> {}]
        /\ request = [r \in Requests |-> 0]

-----------------------------------------------------------------------------
(* reserve.                                                                  *)

Fresh(attempts) == {i \in attempts : now - log[i].at < Lockout}
Keys(store)     == {k \in DOMAIN store : store[k] # {}}

CleanupDue == \/ now >= nextCleanup
              \/ Cardinality(Keys(accounts)) >= Capacity
              \/ Cardinality(Keys(addresses)) >= Capacity

\* Mutant: expired keys are only dropped when the timer is up.
TidyOnTimer(store) == IF now >= nextCleanup THEN [k \in DOMAIN store |-> Fresh(store[k])]
                      ELSE store

\* The store after _cleanup, when reserve calls it.
Tidy(store) == IF CleanupDue THEN [k \in DOMAIN store |-> Fresh(store[k])] ELSE store

\* Mutant: an attempt counts only once its password was found wrong.
FullOfFailures(store, key) ==
    Cardinality({i \in Fresh(store[key]) : log[i].verdict = "wrong"}) >= MaxAttempts

Full(store, key) == Cardinality(Fresh(store[key])) >= MaxAttempts

\* Mutant: one key too many.
NoRoomPast(store, key) == store[key] = {} /\ Cardinality(Keys(store)) > Capacity

NoRoom(store, key) == store[key] = {} /\ Cardinality(Keys(store)) >= Capacity

RefusedBy(store, key)     == LET tidy == Tidy(store) IN Full(tidy, key) \/ NoRoom(tidy, key)
Refused(address, account) == RefusedBy(accounts, account) \/ RefusedBy(addresses, address)

\* Mutant: the wait is counted from the last attempt.
WaitFromLast(store, key) ==
    IF Full(Tidy(store), key)
    THEN CHOOSE w \in 1 .. Lockout :
            /\ \E i \in Fresh(store[key]) : w = Lockout - (now - log[i].at)
            /\ \A i \in Fresh(store[key]) : w >= Lockout - (now - log[i].at)
    ELSE Lockout

\* The Retry-After of a key that refuses: until its oldest attempt expires.
Wait(store, key) ==
    IF Full(Tidy(store), key)
    THEN CHOOSE w \in 1 .. Lockout :
            /\ \E i \in Fresh(store[key]) : w = Lockout - (now - log[i].at)
            /\ \A i \in Fresh(store[key]) : w <= Lockout - (now - log[i].at)
    ELSE Lockout

Cleanup == nextCleanup' = IF CleanupDue THEN now + CleanupEvery ELSE nextCleanup

\* Mutant: the number is taken after it was counted up twice.
AdmitSkipping(r, address, account) ==
    LET n == Len(log) + 2
    IN  /\ request[r] = 0 /\ Len(log) < MaxLog
        /\ ~Refused(address, account)
        /\ log' = Append(log, [at |-> now, address |-> address, account |-> account,
                               verdict |-> "pending"])
        /\ accounts'  = [Tidy(accounts) EXCEPT ![account] = Fresh(@) \cup {n}]
        /\ addresses' = [Tidy(addresses) EXCEPT ![address] = Fresh(@) \cup {n}]
        /\ request' = [request EXCEPT ![r] = n]
        /\ Cleanup
        /\ UNCHANGED now

Admit(r, address, account) ==
    LET n == Len(log) + 1
    IN  /\ request[r] = 0 /\ Len(log) < MaxLog
        /\ ~Refused(address, account)
        /\ log' = Append(log, [at |-> now, address |-> address, account |-> account,
                               verdict |-> "pending"])
        /\ accounts'  = [Tidy(accounts) EXCEPT ![account] = Fresh(@) \cup {n}]
        /\ addresses' = [Tidy(addresses) EXCEPT ![address] = Fresh(@) \cup {n}]
        /\ request' = [request EXCEPT ![r] = n]
        /\ Cleanup
        /\ UNCHANGED now

\* 429: nothing is added, but a cleanup that was due is done.
Deny(r, address, account) ==
    /\ request[r] = 0
    /\ Refused(address, account)
    /\ accounts' = Tidy(accounts) /\ addresses' = Tidy(addresses)
    /\ Cleanup
    /\ UNCHANGED <<now, log, request>>

-----------------------------------------------------------------------------
(* The end of a request whose attempt is n.                                  *)

Ended(r, verdict) ==
    /\ request[r] # 0
    /\ request' = [request EXCEPT ![r] = 0]
    /\ log' = [log EXCEPT ![request[r]].verdict = verdict]
    /\ UNCHANGED <<now, nextCleanup>>

\* What release removes: the attempt, and after a success the earlier failures
\* of the same address on the same account.
Released(n, success) ==
    {n} \cup {i \in DOMAIN log : /\ success /\ log[i].verdict = "wrong" /\ i < n
                                 /\ log[i].address = log[n].address
                                 /\ log[i].account = log[n].account}

Release(r, success) ==
    LET n == request[r]
    IN  /\ accounts' = [accounts EXCEPT ![log[n].account] = @ \ Released(n, success)]
        /\ addresses' = [addresses EXCEPT ![log[n].address] = @ \ Released(n, success)]

\* The token is issued, or the new password committed.
Succeed(r) == Ended(r, "right") /\ Release(r, TRUE)

\* A wrong password or a disabled account: the attempt stays and counts.
Fail(r) == Ended(r, "wrong") /\ UNCHANGED <<accounts, addresses>>

Fault == Cardinality({i \in DOMAIN log : log[i].verdict \in {"void", "lost"}}) < MaxFaults

\* The database or bcrypt raises, the request is cancelled, or change_password
\* finds the hash changed meanwhile (409).
Interrupt(r) == Fault /\ Ended(r, "void") /\ Release(r, FALSE)

\* In a change_password: the update or the commit raises after the verification,
\* outside the try that releases the attempt.
CommitFails(r) == /\ Fault
                  /\ Ended(r, "lost")
                  /\ UNCHANGED <<accounts, addresses>>

Tick == /\ now < MaxTime
        /\ now' = now + 1
        /\ UNCHANGED <<log, accounts, addresses, nextCleanup, request>>

Login(r) == \E address \in Addresses, account \in Accounts :
               Admit(r, address, account) \/ Deny(r, address, account)

End(r) == Succeed(r) \/ Fail(r) \/ Interrupt(r) \/ CommitFails(r)

Next == (\E r \in Requests : Login(r) \/ End(r)) \/ Tick

Spec == Init /\ [][Next]_vars

-----------------------------------------------------------------------------
(* Properties.                                                               *)

Verdicts == {"pending", "right", "wrong", "void", "lost"}
Attempts == [at : Nat, address : Addresses, account : Accounts, verdict : Verdicts]

\* The state has the shape the definitions above rely on.
TypeOK == /\ now \in Nat /\ nextCleanup \in Nat
          /\ log \in Seq(Attempts)
          /\ accounts \in [Accounts -> SUBSET (1 .. Len(log))]
          /\ addresses \in [Addresses -> SUBSET (1 .. Len(log))]
          /\ request \in [Requests -> 0 .. Len(log)]

\* A later success of the same address on the same account.
Forgiven(i) == \E j \in DOMAIN log : /\ j > i /\ log[j].verdict = "right"
                                     /\ log[j].address = log[i].address
                                     /\ log[j].account = log[i].account

\* Attempts that are guesses at a password, found wrong or still verified.
Guesses == {i \in DOMAIN log : \/ log[i].verdict = "pending"
                               \/ log[i].verdict = "wrong" /\ ~Forgiven(i)}

\* In no window of Lockout are more than MaxAttempts passwords guessed at one
\* account, or from one address, however many requests overlap; only a success
\* of the same address at the same account makes room again.
NoExtraGuess ==
    /\ \A k \in Accounts  : Cardinality({i \in Fresh(Guesses) : log[i].account = k}) <= MaxAttempts
    /\ \A k \in Addresses : Cardinality({i \in Fresh(Guesses) : log[i].address = k}) <= MaxAttempts

\* A store grows with its keys, and never past its capacity.
WithinCapacity == /\ Cardinality(Keys(accounts)) <= Capacity
                  /\ Cardinality(Keys(addresses)) <= Capacity

\* No key refuses without a cause that is younger than Lockout: as many
\* requests under way, wrong passwords or lost attempts of that key; or a
\* store whose capacity is taken by other keys that each have one.
RefusalIsEarned ==
    LET recent == Fresh({i \in DOMAIN log : log[i].verdict \in {"pending", "wrong", "lost"}})
    IN  /\ \A k \in Accounts : RefusedBy(accounts, k) =>
              \/ Cardinality({i \in recent : log[i].account = k}) >= MaxAttempts
              \/ Cardinality({log[i].account : i \in recent} \ {k}) >= Capacity
        /\ \A k \in Addresses : RefusedBy(addresses, k) =>
              \/ Cardinality({i \in recent : log[i].address = k}) >= MaxAttempts
              \/ Cardinality({log[i].address : i \in recent} \ {k}) >= Capacity

\* Retry-After is exact for a key that is full: its attempts of today still
\* fill it one tick before, and do not when it is over.
RetryAfterIsExact ==
    LET Left(store, key, t) == Cardinality({i \in store[key] : t - log[i].at < Lockout})
        Exact(store, key) == Full(store, key) =>
                                LET t == now + Wait(store, key)
                                IN  /\ Left(store, key, t) < MaxAttempts
                                    /\ Left(store, key, t - 1) >= MaxAttempts
    IN  (\A k \in Accounts : Exact(accounts, k)) /\ (\A k \in Addresses : Exact(addresses, k))

\* auth.py says that infrastructure errors are not credential failures: what
\* counts is a request under way or a password found wrong.
OnlyGuessesCount ==
    \A k \in Accounts : \A i \in accounts[k] : log[i].verdict \in {"pending", "wrong"}
=============================================================================
