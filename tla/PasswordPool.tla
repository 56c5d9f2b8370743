----------------------------- MODULE PasswordPool -----------------------------
(* The bcrypt threads behind async_hash_password and async_verify_password:  *)
(* _password_work (backend/app/core/security.py), a semaphore around a       *)
(* thread that a cancelled caller still waits for.  A task of Tasks uses it  *)
(* any number of times, once at a time.  The semaphore serves its waiters    *)
(* in the order they came; here any of them, with strong fairness.           *)
EXTENDS Naturals, FiniteSets

CONSTANTS
    Tasks,     \* the requests that hash or verify
    Permits    \* _PASSWORD_CONCURRENCY

ASSUME PoolAssumption == IsFiniteSet(Tasks) /\ Permits \in Nat \ {0}

VARIABLES
    permits,   \* the semaphore's value
    pool       \* where each task is: its thread runs in the last two

Running == {t \in Tasks : pool[t] \in {"running", "abandoned"}}

PoolInit == permits = Permits /\ pool = [t \in Tasks |-> "out"]

Enter(t) == /\ pool[t] = "out"
            /\ pool' = [pool EXCEPT ![t] = "queued"]
            /\ UNCHANGED permits

Acquire(t) == /\ pool[t] = "queued" /\ permits > 0
              /\ pool' = [pool EXCEPT ![t] = "running"]
              /\ permits' = permits - 1

\* bcrypt is done, and the context manager gives the permit back.
ThreadEnds(t) == /\ t \in Running
                 /\ pool' = [pool EXCEPT ![t] = "out"]
                 /\ permits' = permits + 1

\* Cancelled in the queue: out of it.  Cancelled while the thread runs, once or
\* again and again: the loop goes on waiting for the thread.
CancelQueued(t) == /\ pool[t] = "queued"
                   /\ pool' = [pool EXCEPT ![t] = "out"]
                   /\ UNCHANGED permits

\* Mutant: the await of a cancelled request is not shielded: the permit is back at once.
CancelForgets(t) == /\ t \in Running
                    /\ pool' = [pool EXCEPT ![t] = "abandoned"]
                    /\ permits' = permits + 1

CancelRunning(t) == /\ t \in Running
                    /\ pool' = [pool EXCEPT ![t] = "abandoned"]
                    /\ UNCHANGED permits

PoolNext == \E t \in Tasks : \/ Enter(t) \/ Acquire(t) \/ ThreadEnds(t)
                             \/ CancelQueued(t) \/ CancelRunning(t)

PoolSpec == PoolInit /\ [][PoolNext]_<<permits, pool>>

PoolTypeOK == /\ permits \in 0..Permits
              /\ pool \in [Tasks -> {"out", "queued", "running", "abandoned"}]

\* Whoever is cancelled and however often, no more bcrypt threads run than
\* there are permits, and none is lost: those not held can be taken.
ThreadsBounded == /\ Cardinality(Running) <= Permits
                  /\ permits + Cardinality(Running) = Permits
=============================================================================
