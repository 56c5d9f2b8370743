-------------------------- MODULE LoginLimiterProofs --------------------------
(* The limit on password guesses, for any limit, lockout and capacity, and   *)
(* any number of requests, accounts and addresses.                           *)
EXTENDS LoginLimiter, SequenceTheorems, FiniteSetTheorems, TLAPS

\* No attempt is of the future.
ClockInv == \A i \in 1 .. Len(log) : log[i].at <= now

\* A request verifies an attempt of its own.
RequestInv ==
    \A r \in Requests : request[r] # 0 =>
        /\ log[request[r]].verdict = "pending"
        /\ \A q \in Requests : request[q] = request[r] => q = r

\* What a key holds are its own attempts, of which none was released.
Counting == {"pending", "wrong", "lost"}
KeyInv ==
    /\ \A k \in Accounts : \A i \in accounts[k] :
          log[i].account = k /\ log[i].verdict \in Counting
    /\ \A k \in Addresses : \A i \in addresses[k] :
          log[i].address = k /\ log[i].verdict \in Counting

\* Both stores hold every guess of today: nothing else may make room.
GuessInv ==
    \A i \in 1 .. Len(log) : i \in Fresh(Guesses) =>
        i \in accounts[log[i].account] /\ i \in addresses[log[i].address]

\* Neither holds more than the limit.
Limited(store) == \A k \in DOMAIN store : Cardinality(Fresh(store[k])) <= MaxAttempts
LimitInv == Limited(accounts) /\ Limited(addresses)

Inv == /\ TypeOK /\ ClockInv /\ RequestInv /\ KeyInv
       /\ GuessInv /\ LimitInv /\ WithinCapacity

-----------------------------------------------------------------------------
(* Sets of attempts.                                                         *)

LEMMA LogFacts ==
    ASSUME TypeOK
    PROVE  /\ Len(log) \in Nat /\ DOMAIN log = 1 .. Len(log)
           /\ \A i \in 1 .. Len(log) : log[i] \in Attempts
BY ElementOfSeq, LenProperties DEF TypeOK

LEMMA AttemptsFinite ==
    ASSUME TypeOK, NEW S, S \subseteq 1 .. Len(log)
    PROVE  IsFiniteSet(S) /\ Cardinality(S) \in Nat
<1>1. IsFiniteSet(1 .. Len(log)) BY LogFacts, FS_Interval
<1> QED BY <1>1, FS_Subset, FS_CardinalityType

LEMMA FewerAttempts ==
    ASSUME TypeOK, NEW S, S \subseteq 1 .. Len(log), NEW T, T \subseteq S
    PROVE  Cardinality(T) \in Nat /\ Cardinality(S) \in Nat /\ Cardinality(T) <= Cardinality(S)
<1>1. IsFiniteSet(S) BY AttemptsFinite
<1> QED BY <1>1, AttemptsFinite, FS_Subset

\* A cleanup drops only what has expired, which no longer counts anyway.
LEMMA TidyKeepsFresh ==
    ASSUME NEW store, NEW k \in DOMAIN store
    PROVE  /\ DOMAIN Tidy(store) = DOMAIN store
           /\ Tidy(store)[k] \subseteq store[k]
           /\ Fresh(Tidy(store)[k]) = Fresh(store[k])
BY DEF Tidy, Fresh

LEMMA TidyKeys ==
    ASSUME NEW store
    PROVE  Keys(Tidy(store)) \subseteq Keys(store) /\ Keys(store) \subseteq DOMAIN store
BY DEF Tidy, Fresh, Keys

LEMMA KeysFinite ==
    ASSUME TypeOK
    PROVE  /\ IsFiniteSet(Keys(accounts)) /\ Cardinality(Keys(accounts)) \in Nat
           /\ IsFiniteSet(Keys(addresses)) /\ Cardinality(Keys(addresses)) \in Nat
<1>1. Keys(accounts) \subseteq Accounts /\ Keys(addresses) \subseteq Addresses
  BY DEF TypeOK, Keys
<1>2. IsFiniteSet(Accounts) /\ IsFiniteSet(Addresses) BY LimiterAssumption
<1> QED BY <1>1, <1>2, FS_Subset, FS_CardinalityType

-----------------------------------------------------------------------------
(* What the steps do to the log.                                             *)

LEMMA AdmitLogs ==
    ASSUME TypeOK, NEW r \in Requests, NEW a \in Addresses, NEW k \in Accounts, Admit(r, a, k)
    PROVE  /\ Len(log') = Len(log) + 1 /\ log' \in Seq(Attempts)
           /\ \A i \in 1 .. Len(log) : log'[i] = log[i]
           /\ log'[Len(log) + 1] = [at |-> now, address |-> a, account |-> k, verdict |-> "pending"]
<1> DEFINE new == [at |-> now, address |-> a, account |-> k, verdict |-> "pending"]
<1>1. new \in Attempts BY DEF TypeOK, Attempts, Verdicts
<1>2. log' = Append(log, new) BY DEF Admit
<1> HIDE DEF new
<1>3. log \in Seq(Attempts) BY DEF TypeOK
<1>4. /\ Len(log') = Len(log) + 1 /\ log' \in Seq(Attempts)
      /\ \A i \in 1 .. Len(log) : log'[i] = log[i]
      /\ log'[Len(log) + 1] = new
  BY <1>1, <1>2, <1>3, AppendProperties
<1> QED BY <1>4 DEF new

LEMMA EndLogs ==
    ASSUME TypeOK, NEW r \in Requests, NEW v \in Verdicts, Ended(r, v)
    PROVE  /\ Len(log') = Len(log) /\ log' \in Seq(Attempts)
           /\ request[r] \in 1 .. Len(log)
           /\ \A i \in 1 .. Len(log) :
                 /\ log'[i].at = log[i].at /\ log'[i].address = log[i].address
                 /\ log'[i].account = log[i].account
                 /\ log'[i].verdict = IF i = request[r] THEN v ELSE log[i].verdict
<1> DEFINE n == request[r]
           e == [log[n] EXCEPT !.verdict = v]
<1>1. n \in 1 .. Len(log) BY LogFacts DEF TypeOK, Ended
<1>2. log[n] \in Attempts BY <1>1, LogFacts
<1>3. /\ e \in Attempts /\ e.at = log[n].at /\ e.address = log[n].address
      /\ e.account = log[n].account /\ e.verdict = v
  BY <1>2 DEF Attempts
<1>4. log \in Seq(Attempts) BY DEF TypeOK
<1>5. log' = [log EXCEPT ![n] = e] BY DEF Ended
<1> HIDE DEF n, e
<1>6. /\ Len(log') = Len(log) /\ log' \in Seq(Attempts)
      /\ \A i \in 1 .. Len(log) : log'[i] = IF i = n THEN e ELSE log[i]
  BY <1>1, <1>3, <1>4, <1>5, ExceptSeq
<1>7. \A i \in 1 .. Len(log) :
                 /\ log'[i].at = log[i].at /\ log'[i].address = log[i].address
                 /\ log'[i].account = log[i].account
                 /\ log'[i].verdict = IF i = n THEN v ELSE log[i].verdict
  BY <1>3, <1>6
<1> QED BY <1>1, <1>6, <1>7 DEF n

-----------------------------------------------------------------------------
(* The beginning.                                                            *)

LEMMA InitInv == Init => Inv
<1> SUFFICES ASSUME Init PROVE Inv OBVIOUS
<1>1. log \in Seq(Attempts) /\ Len(log) = 0 BY EmptySeq DEF Init
<1>2. TypeOK BY <1>1 DEF Init, TypeOK
<1>3. ClockInv /\ RequestInv /\ KeyInv /\ GuessInv
  BY <1>1 DEF Init, ClockInv, RequestInv, KeyInv, GuessInv
<1>4. \A k \in Accounts : Fresh(accounts[k]) = {} BY DEF Init, Fresh
<1>5. \A k \in Addresses : Fresh(addresses[k]) = {} BY DEF Init, Fresh
<1>6. LimitInv
  <2>1. Cardinality({}) = 0 BY FS_EmptySet
  <2>2. DOMAIN accounts = Accounts /\ DOMAIN addresses = Addresses BY DEF Init
  <2>3. \A k \in Accounts : Cardinality(Fresh(accounts[k])) <= MaxAttempts
    BY <1>4, <2>1, LimiterAssumption
  <2>4. \A k \in Addresses : Cardinality(Fresh(addresses[k])) <= MaxAttempts
    BY <1>5, <2>1, LimiterAssumption
  <2> QED BY <2>2, <2>3, <2>4 DEF LimitInv, Limited
<1>7. Keys(accounts) = {} /\ Keys(addresses) = {} BY DEF Init, Keys
<1>8. WithinCapacity BY <1>7, FS_EmptySet, LimiterAssumption DEF WithinCapacity
<1> QED BY <1>2, <1>3, <1>6, <1>8 DEF Inv

-----------------------------------------------------------------------------
(* A request is admitted.                                                    *)

LEMMA AdmitTypes ==
    ASSUME TypeOK, NEW r \in Requests, NEW a \in Addresses, NEW k \in Accounts, Admit(r, a, k)
    PROVE  TypeOK'
<1>1. Len(log') = Len(log) + 1 /\ log' \in Seq(Attempts) /\ Len(log) \in Nat
  BY AdmitLogs, LogFacts
<1>2. now' \in Nat /\ nextCleanup' \in Nat
  BY LimiterAssumption DEF TypeOK, Admit, Cleanup
<1>3. accounts' \in [Accounts -> SUBSET (1 .. Len(log'))]
  <2>1. Tidy(accounts) \in [Accounts -> SUBSET (1 .. Len(log))] BY DEF TypeOK, Tidy, Fresh
  <2> QED BY <1>1, <2>1 DEF Admit, Fresh
<1>4. addresses' \in [Addresses -> SUBSET (1 .. Len(log'))]
  <2>1. Tidy(addresses) \in [Addresses -> SUBSET (1 .. Len(log))] BY DEF TypeOK, Tidy, Fresh
  <2> QED BY <1>1, <2>1 DEF Admit, Fresh
<1>5. request' \in [Requests -> 0 .. Len(log')] BY <1>1 DEF TypeOK, Admit
<1> QED BY <1>1, <1>2, <1>3, <1>4, <1>5 DEF TypeOK

LEMMA AdmitClock ==
    ASSUME Inv, NEW r \in Requests, NEW a \in Addresses, NEW k \in Accounts, Admit(r, a, k)
    PROVE  ClockInv'
<1>1. now' = now /\ now \in Nat BY DEF Inv, TypeOK, Admit
<1>2. /\ Len(log') = Len(log) + 1 /\ Len(log) \in Nat
      /\ \A i \in 1 .. Len(log) : log'[i] = log[i]
      /\ log'[Len(log) + 1] = [at |-> now, address |-> a, account |-> k, verdict |-> "pending"]
  BY AdmitLogs, LogFacts DEF Inv
<1>3. log'[Len(log) + 1].at = now BY <1>2
<1>4. \A i \in 1 .. Len(log') : i \in 1 .. Len(log) \/ i = Len(log) + 1 BY <1>2
<1> QED BY <1>1, <1>2, <1>3, <1>4 DEF Inv, ClockInv

LEMMA AdmitRequests ==
    ASSUME Inv, NEW r \in Requests, NEW a \in Addresses, NEW k \in Accounts, Admit(r, a, k)
    PROVE  RequestInv'
<1>1. /\ request \in [Requests -> 0 .. Len(log)] /\ Len(log) \in Nat
      /\ request' = [request EXCEPT ![r] = Len(log) + 1]
  BY LogFacts DEF Inv, TypeOK, Admit
<1>2. /\ \A i \in 1 .. Len(log) : log'[i] = log[i]
      /\ log'[Len(log) + 1] = [at |-> now, address |-> a, account |-> k, verdict |-> "pending"]
  BY AdmitLogs DEF Inv
<1>3. log'[Len(log) + 1].verdict = "pending" BY <1>2
<1> QED BY <1>1, <1>2, <1>3 DEF Inv, RequestInv

LEMMA AdmitKeys ==
    ASSUME Inv, NEW r \in Requests, NEW a \in Addresses, NEW k \in Accounts, Admit(r, a, k)
    PROVE  KeyInv'
<1>1. /\ \A i \in 1 .. Len(log) : log'[i] = log[i]
      /\ log'[Len(log) + 1] = [at |-> now, address |-> a, account |-> k, verdict |-> "pending"]
  BY AdmitLogs DEF Inv
<1>2. \A q \in Accounts : /\ accounts'[q] \subseteq accounts[q] \cup {Len(log) + 1}
                          /\ q # k => accounts'[q] \subseteq accounts[q]
  BY TidyKeepsFresh DEF Inv, TypeOK, Admit, Fresh
<1>3. \A q \in Addresses : /\ addresses'[q] \subseteq addresses[q] \cup {Len(log) + 1}
                           /\ q # a => addresses'[q] \subseteq addresses[q]
  BY TidyKeepsFresh DEF Inv, TypeOK, Admit, Fresh
<1>4. accounts \in [Accounts -> SUBSET (1 .. Len(log))] /\ addresses \in [Addresses -> SUBSET (1 .. Len(log))]
  BY DEF Inv, TypeOK
<1> QED BY <1>1, <1>2, <1>3, <1>4 DEF Inv, KeyInv, Counting

\* The one new guess is in both stores, and no older one was dropped.
LEMMA AdmitGuesses ==
    ASSUME Inv, NEW r \in Requests, NEW a \in Addresses, NEW k \in Accounts, Admit(r, a, k)
    PROVE  GuessInv'
<1> DEFINE n == Len(log) + 1
<1>1. /\ Len(log') = n /\ Len(log) \in Nat /\ DOMAIN log = 1 .. Len(log) /\ DOMAIN log' = 1 .. n
      /\ \A i \in 1 .. Len(log) : log'[i] = log[i]
      /\ log'[n] = [at |-> now, address |-> a, account |-> k, verdict |-> "pending"]
  BY AdmitLogs, LogFacts, AdmitTypes, LenProperties DEF Inv, TypeOK
<1>2. now' = now BY DEF Admit
<1>3. \A i \in 1 .. Len(log) : i \in Fresh(Guesses)' => i \in Fresh(Guesses)
  BY <1>1, <1>2 DEF Fresh, Guesses, Forgiven
<1>4. \A q \in Accounts : Fresh(accounts[q]) \subseteq accounts'[q]
  BY TidyKeepsFresh DEF Inv, TypeOK, Admit, Fresh
<1>5. \A q \in Addresses : Fresh(addresses[q]) \subseteq addresses'[q]
  BY TidyKeepsFresh DEF Inv, TypeOK, Admit, Fresh
<1>6. n \in accounts'[k] /\ n \in addresses'[a]
  BY TidyKeepsFresh DEF Inv, TypeOK, Admit
<1>7. ASSUME NEW i \in 1 .. Len(log), i \in Fresh(Guesses)'
      PROVE  i \in accounts'[log'[i].account] /\ i \in addresses'[log'[i].address]
  <2>1. i \in Fresh(Guesses) /\ log[i] \in Attempts BY <1>3, <1>7, LogFacts DEF Inv
  <2>2. log[i].account \in Accounts /\ log[i].address \in Addresses BY <2>1 DEF Attempts
  <2>3. i \in Fresh(accounts[log[i].account]) /\ i \in Fresh(addresses[log[i].address])
    BY <2>1 DEF Inv, GuessInv, Fresh
  <2> QED BY <1>1, <1>4, <1>5, <2>2, <2>3
<1> QED BY <1>1, <1>6, <1>7 DEF GuessInv

\* A key that is not full has room for one more.
LEMMA AdmitLimit ==
    ASSUME Inv, NEW r \in Requests, NEW a \in Addresses, NEW k \in Accounts, Admit(r, a, k)
    PROVE  LimitInv'
<1> DEFINE n == Len(log) + 1
<1>1. /\ Len(log) \in Nat /\ now' = now
      /\ \A i \in 1 .. Len(log) : log'[i] = log[i]
  BY AdmitLogs, LogFacts DEF Inv, Admit
<1>2. ASSUME NEW store, NEW K, store \in [K -> SUBSET (1 .. Len(log))], NEW c \in K,
             Limited(store), ~RefusedBy(store, c),
             NEW q \in K
      PROVE  LET new == [Tidy(store) EXCEPT ![c] = Fresh(@) \cup {n}]
             IN  Cardinality({i \in new[q] : now' - log'[i].at < Lockout}) <= MaxAttempts
  <2> DEFINE new == [Tidy(store) EXCEPT ![c] = Fresh(@) \cup {n}]
             left == {i \in new[q] : now' - log'[i].at < Lockout}
  <2>1. /\ DOMAIN Tidy(store) = K /\ Tidy(store)[q] \subseteq store[q]
        /\ Fresh(Tidy(store)[q]) = Fresh(store[q])
        /\ store[q] \subseteq 1 .. Len(log)
    BY <1>2, TidyKeepsFresh
  <2>2. Fresh(store[q]) \subseteq 1 .. Len(log) BY <2>1 DEF Fresh
  <2>3. IsFiniteSet(Fresh(store[q])) /\ Cardinality(Fresh(store[q])) \in Nat
    BY <2>2, AttemptsFinite DEF Inv
  <2>4. MaxAttempts \in Nat BY LimiterAssumption
  <2>5. CASE q # c
    <3>1. new[q] = Tidy(store)[q] BY <2>1, <2>5
    <3>2. left = Fresh(Tidy(store)[q])
      BY <1>1, <2>1, <3>1 DEF Fresh
    <3> QED BY <1>2, <2>1, <3>2 DEF Limited
  <2>6. CASE q = c
    <3>1. new[q] = Fresh(store[q]) \cup {n} BY <2>1, <2>6
    <3>2. left \subseteq Fresh(store[q]) \cup {n} BY <3>1
    <3>3. ~Full(Tidy(store), q) BY <1>2, <2>6 DEF RefusedBy
    <3>4. ~(Cardinality(Fresh(store[q])) >= MaxAttempts) BY <2>1, <3>3 DEF Full
    <3>5. /\ IsFiniteSet(Fresh(store[q]) \cup {n})
          /\ Cardinality(Fresh(store[q]) \cup {n}) <= Cardinality(Fresh(store[q])) + 1
      <4> HIDE DEF n
      <4>1. /\ IsFiniteSet(Fresh(store[q]) \cup {n})
            /\ Cardinality(Fresh(store[q]) \cup {n}) =
                  IF n \in Fresh(store[q]) THEN Cardinality(Fresh(store[q]))
                  ELSE Cardinality(Fresh(store[q])) + 1
        BY <2>3, FS_AddElement
      <4> QED BY <2>3, <4>1
    <3>6. IsFiniteSet(left) /\ Cardinality(left) <= Cardinality(Fresh(store[q]) \cup {n})
      BY <3>2, <3>5, FS_Subset
    <3>7. Cardinality(left) \in Nat /\ Cardinality(Fresh(store[q]) \cup {n}) \in Nat
      BY <3>5, <3>6, FS_CardinalityType
    <3> HIDE DEF left
    <3>8. Cardinality(left) <= MaxAttempts BY <2>3, <2>4, <3>4, <3>5, <3>6, <3>7
    <3> QED BY <3>8 DEF left
  <2> QED BY <2>5, <2>6
<1>3. ~RefusedBy(accounts, k) /\ ~RefusedBy(addresses, a) BY DEF Admit, Refused
<1>4. Limited(accounts)'
  <2>1. accounts \in [Accounts -> SUBSET (1 .. Len(log))] /\ Limited(accounts)
    BY DEF Inv, TypeOK, LimitInv
  <2>2. accounts' = [Tidy(accounts) EXCEPT ![k] = Fresh(@) \cup {n}] BY DEF Admit
  <2>3. \A q \in Accounts :
           Cardinality({i \in accounts'[q] : now' - log'[i].at < Lockout}) <= MaxAttempts
    BY <1>2, <1>3, <2>1, <2>2
  <2>4. DOMAIN accounts' = Accounts BY <2>1, <2>2 DEF Tidy
  <2> QED BY <2>3, <2>4 DEF Limited, Fresh
<1>5. Limited(addresses)'
  <2>1. addresses \in [Addresses -> SUBSET (1 .. Len(log))] /\ Limited(addresses)
    BY DEF Inv, TypeOK, LimitInv
  <2>2. addresses' = [Tidy(addresses) EXCEPT ![a] = Fresh(@) \cup {n}] BY DEF Admit
  <2>3. \A q \in Addresses :
           Cardinality({i \in addresses'[q] : now' - log'[i].at < Lockout}) <= MaxAttempts
    BY <1>2, <1>3, <2>1, <2>2
  <2>4. DOMAIN addresses' = Addresses BY <2>1, <2>2 DEF Tidy
  <2> QED BY <2>3, <2>4 DEF Limited, Fresh
<1> QED BY <1>4, <1>5 DEF LimitInv

\* A new key needs room in its store.
LEMMA AdmitCapacity ==
    ASSUME Inv, NEW r \in Requests, NEW a \in Addresses, NEW k \in Accounts, Admit(r, a, k)
    PROVE  WithinCapacity'
<1> DEFINE n == Len(log) + 1
<1>1. ASSUME NEW store, NEW K, DOMAIN store = K, NEW c \in K, ~NoRoom(Tidy(store), c),
             IsFiniteSet(Keys(store)), Cardinality(Keys(store)) <= Capacity
      PROVE  Cardinality(Keys([Tidy(store) EXCEPT ![c] = Fresh(@) \cup {n}])) <= Capacity
  <2> DEFINE tidy == Tidy(store)
             new == [tidy EXCEPT ![c] = Fresh(@) \cup {n}]
  <2>1. /\ DOMAIN tidy = K /\ Keys(tidy) \subseteq Keys(store)
    BY <1>1, TidyKeys, TidyKeepsFresh
  <2>2. /\ IsFiniteSet(Keys(tidy)) /\ Cardinality(Keys(tidy)) <= Cardinality(Keys(store))
        /\ Cardinality(Keys(tidy)) \in Nat /\ Cardinality(Keys(store)) \in Nat
    BY <1>1, <2>1, FS_Subset, FS_CardinalityType
  <2>3. ~(tidy[c] = {} /\ Cardinality(Keys(tidy)) >= Capacity) BY <1>1 DEF NoRoom
  <2> HIDE DEF tidy
  <2>4. Keys(new) = Keys(tidy) \cup {c}
    <3>1. \A q \in K : new[q] # {} <=> (q = c \/ tidy[q] # {}) BY <2>1
    <3> QED BY <2>1, <3>1 DEF Keys
  <2>5. Cardinality(Keys(tidy) \cup {c}) =
           IF c \in Keys(tidy) THEN Cardinality(Keys(tidy)) ELSE Cardinality(Keys(tidy)) + 1
    BY <2>2, FS_AddElement
  <2>6. c \notin Keys(tidy) => tidy[c] = {} BY <2>1 DEF Keys
  <2>7. Capacity \in Nat BY LimiterAssumption
  <2>8. Cardinality(Keys(tidy) \cup {c}) <= Capacity
    BY <1>1, <2>2, <2>3, <2>5, <2>6, <2>7
  <2> QED BY <2>4, <2>8 DEF tidy
<1>2. ~NoRoom(Tidy(accounts), k) /\ ~NoRoom(Tidy(addresses), a) BY DEF Admit, Refused, RefusedBy
<1>3. DOMAIN accounts = Accounts /\ DOMAIN addresses = Addresses BY DEF Inv, TypeOK
<1>4. /\ IsFiniteSet(Keys(accounts)) /\ Cardinality(Keys(accounts)) <= Capacity
      /\ IsFiniteSet(Keys(addresses)) /\ Cardinality(Keys(addresses)) <= Capacity
  BY KeysFinite DEF Inv, WithinCapacity
<1>5. /\ accounts'  = [Tidy(accounts) EXCEPT ![k] = Fresh(@) \cup {n}]
      /\ addresses' = [Tidy(addresses) EXCEPT ![a] = Fresh(@) \cup {n}]
  BY DEF Admit
<1>6. Cardinality(Keys(accounts')) <= Capacity BY <1>1, <1>2, <1>3, <1>4, <1>5
<1>7. Cardinality(Keys(addresses')) <= Capacity BY <1>1, <1>2, <1>3, <1>4, <1>5
<1> QED BY <1>6, <1>7 DEF WithinCapacity, Keys

LEMMA AdmitKeeps ==
    ASSUME Inv, NEW r \in Requests, NEW a \in Addresses, NEW k \in Accounts, Admit(r, a, k)
    PROVE  Inv'
<1>1. TypeOK' BY AdmitTypes DEF Inv
<1> QED BY <1>1, AdmitClock, AdmitRequests, AdmitKeys, AdmitGuesses, AdmitLimit, AdmitCapacity
        DEF Inv

-----------------------------------------------------------------------------
(* Steps that add nothing to the stores.                                     *)

\* With no attempt added and none made younger, the limits stay.
LEMMA ShrinkKeeps ==
    ASSUME Inv, TypeOK', Len(log') = Len(log), now' >= now,
           \A i \in 1 .. Len(log) : log'[i].at = log[i].at,
           \A k \in Accounts  : accounts'[k] \subseteq accounts[k],
           \A k \in Addresses : addresses'[k] \subseteq addresses[k]
    PROVE  LimitInv' /\ WithinCapacity'
<1>1. /\ accounts \in [Accounts -> SUBSET (1 .. Len(log))]
      /\ addresses \in [Addresses -> SUBSET (1 .. Len(log))]
      /\ DOMAIN accounts' = Accounts /\ DOMAIN addresses' = Addresses
      /\ now \in Nat /\ now' \in Nat /\ Lockout \in Nat
  BY LimiterAssumption DEF Inv, TypeOK
<1>2. \A i \in 1 .. Len(log) : log[i].at \in Nat BY LogFacts DEF Inv, Attempts
<1>3. ASSUME NEW k \in Accounts PROVE Cardinality(Fresh(accounts[k])') <= MaxAttempts
  <2>1. Fresh(accounts[k])' \subseteq Fresh(accounts[k])
    <3>1. \A i \in accounts'[k] : i \in accounts[k] /\ i \in 1 .. Len(log) BY <1>1
    <3> QED BY <1>1, <1>2, <3>1 DEF Fresh
  <2>2. Fresh(accounts[k]) \subseteq 1 .. Len(log) BY <1>1 DEF Fresh
  <2>3. Cardinality(Fresh(accounts[k])) <= MaxAttempts BY <1>1 DEF Inv, LimitInv, Limited
  <2> QED BY <2>1, <2>2, <2>3, FewerAttempts, LimiterAssumption DEF Inv
<1>4. ASSUME NEW k \in Addresses PROVE Cardinality(Fresh(addresses[k])') <= MaxAttempts
  <2>1. Fresh(addresses[k])' \subseteq Fresh(addresses[k])
    <3>1. \A i \in addresses'[k] : i \in addresses[k] /\ i \in 1 .. Len(log) BY <1>1
    <3> QED BY <1>1, <1>2, <3>1 DEF Fresh
  <2>2. Fresh(addresses[k]) \subseteq 1 .. Len(log) BY <1>1 DEF Fresh
  <2>3. Cardinality(Fresh(addresses[k])) <= MaxAttempts BY <1>1 DEF Inv, LimitInv, Limited
  <2> QED BY <2>1, <2>2, <2>3, FewerAttempts, LimiterAssumption DEF Inv
<1>5. LimitInv' BY <1>1, <1>3, <1>4 DEF LimitInv, Limited
<1>6. Keys(accounts)' \subseteq Keys(accounts) /\ Keys(addresses)' \subseteq Keys(addresses)
  BY <1>1 DEF Keys
<1>7. /\ Cardinality(Keys(accounts)') <= Cardinality(Keys(accounts))
      /\ Cardinality(Keys(addresses)') <= Cardinality(Keys(addresses))
  BY <1>6, KeysFinite, FS_Subset DEF Inv
<1>8. /\ Cardinality(Keys(accounts)') \in Nat /\ Cardinality(Keys(addresses)') \in Nat
      /\ Cardinality(Keys(accounts)) \in Nat /\ Cardinality(Keys(addresses)) \in Nat
      /\ Capacity \in Nat
  BY <1>6, KeysFinite, FS_Subset, FS_CardinalityType, LimiterAssumption DEF Inv
<1>9. WithinCapacity' BY <1>7, <1>8 DEF Inv, WithinCapacity
<1> QED BY <1>5, <1>9

\* A cleanup, when a request is refused.
LEMMA DenyKeeps ==
    ASSUME Inv, NEW r \in Requests, NEW a \in Addresses, NEW k \in Accounts, Deny(r, a, k)
    PROVE  Inv'
<1>1. UNCHANGED <<now, log, request>> BY DEF Deny
<1>2. /\ accounts' \in [Accounts -> SUBSET (1 .. Len(log))]
      /\ addresses' \in [Addresses -> SUBSET (1 .. Len(log))]
      /\ nextCleanup' \in Nat
  BY LimiterAssumption DEF Inv, TypeOK, Deny, Tidy, Fresh, Cleanup
<1>3. TypeOK' BY <1>1, <1>2 DEF Inv, TypeOK
<1>4. /\ \A q \in Accounts : accounts'[q] \subseteq accounts[q] /\ Fresh(accounts[q]) \subseteq accounts'[q]
      /\ \A q \in Addresses : addresses'[q] \subseteq addresses[q] /\ Fresh(addresses[q]) \subseteq addresses'[q]
  BY TidyKeepsFresh DEF Inv, TypeOK, Deny, Fresh
<1>5. ClockInv' /\ RequestInv' BY <1>1 DEF Inv, ClockInv, RequestInv
<1>6. KeyInv' BY <1>1, <1>4 DEF Inv, KeyInv
<1>7. GuessInv'
  <2> SUFFICES ASSUME NEW i \in 1 .. Len(log), i \in Fresh(Guesses)'
               PROVE  i \in accounts'[log[i].account] /\ i \in addresses'[log[i].address]
    BY <1>1 DEF GuessInv
  <2>1. i \in Fresh(Guesses) BY <1>1 DEF Fresh, Guesses, Forgiven
  <2>2. log[i].account \in Accounts /\ log[i].address \in Addresses BY LogFacts DEF Inv, Attempts
  <2>3. i \in Fresh(accounts[log[i].account]) /\ i \in Fresh(addresses[log[i].address])
    BY <2>1 DEF Inv, GuessInv, Fresh
  <2> QED BY <1>4, <2>2, <2>3
<1>8. now \in Nat BY DEF Inv, TypeOK
<1>9. LimitInv' /\ WithinCapacity' BY <1>1, <1>3, <1>4, <1>8, ShrinkKeeps
<1> QED BY <1>3, <1>5, <1>6, <1>7, <1>9 DEF Inv

LEMMA TickKeeps == ASSUME Inv, Tick PROVE Inv'
<1>1. UNCHANGED <<log, accounts, addresses, nextCleanup, request>> BY DEF Tick
<1>2. now \in Nat /\ now' = now + 1 /\ Lockout \in Nat BY LimiterAssumption DEF Inv, TypeOK, Tick
<1>3. TypeOK' BY <1>1, <1>2 DEF Inv, TypeOK
<1>4. \A i \in 1 .. Len(log) : log[i].at \in Nat BY LogFacts DEF Inv, Attempts
<1>5. ClockInv' BY <1>1, <1>2, <1>4 DEF Inv, ClockInv
<1>6. RequestInv' /\ KeyInv' BY <1>1 DEF Inv, RequestInv, KeyInv
<1>7. GuessInv'
  <2>1. \A i \in 1 .. Len(log) : i \in Fresh(Guesses)' => i \in Fresh(Guesses)
    BY <1>1, <1>2, <1>4 DEF Fresh, Guesses, Forgiven
  <2> QED BY <1>1, <2>1 DEF Inv, GuessInv
<1>8. LimitInv' /\ WithinCapacity' BY <1>1, <1>2, <1>3, ShrinkKeeps
<1> QED BY <1>3, <1>5, <1>6, <1>7, <1>8 DEF Inv

-----------------------------------------------------------------------------
(* A request ends.                                                           *)

\* An attempt that ends makes no other one count as a guess.
LEMMA EndGuesses ==
    ASSUME Inv, NEW r \in Requests, NEW v \in Verdicts, Ended(r, v), v # "pending"
    PROVE  \A i \in 1 .. Len(log) : i \in Guesses' => i \in Guesses
<1> DEFINE n == request[r]
<1>1. /\ Len(log') = Len(log) /\ n \in 1 .. Len(log)
      /\ \A i \in 1 .. Len(log) :
            /\ log'[i].at = log[i].at /\ log'[i].address = log[i].address
            /\ log'[i].account = log[i].account
            /\ log'[i].verdict = IF i = n THEN v ELSE log[i].verdict
  BY EndLogs DEF Inv
<1>2. DOMAIN log = 1 .. Len(log) /\ DOMAIN log' = 1 .. Len(log)
  BY <1>1, EndLogs, LogFacts, LenProperties DEF Inv
<1>3. log[n].verdict = "pending" BY DEF Inv, RequestInv, Ended
<1>4. \A i \in 1 .. Len(log) : Forgiven(i) => Forgiven(i)' BY <1>1, <1>2, <1>3 DEF Forgiven
<1> SUFFICES ASSUME NEW i \in 1 .. Len(log), i \in Guesses' PROVE i \in Guesses OBVIOUS
<1>5. log'[i].verdict = "pending" \/ (log'[i].verdict = "wrong" /\ ~Forgiven(i)')
  BY DEF Guesses, Forgiven
<1> QED BY <1>1, <1>2, <1>3, <1>4, <1>5 DEF Guesses

\* Whatever the verdict: a request ends well when its attempt is out of the
\* stores unless it still counts, and no guess of today goes with it.
LEMMA EndKeeps ==
    ASSUME Inv, NEW r \in Requests, NEW v \in Verdicts, Ended(r, v), v # "pending",
           accounts' \in [Accounts -> SUBSET (1 .. Len(log))],
           addresses' \in [Addresses -> SUBSET (1 .. Len(log))],
           \A k \in Accounts  : accounts'[k] \subseteq accounts[k],
           \A k \in Addresses : addresses'[k] \subseteq addresses[k],
           v \notin Counting => /\ \A k \in Accounts  : request[r] \notin accounts'[k]
                                /\ \A k \in Addresses : request[r] \notin addresses'[k],
           \A i \in 1 .. Len(log) : i \in Guesses' =>
              /\ i \in accounts[log[i].account] => i \in accounts'[log[i].account]
              /\ i \in addresses[log[i].address] => i \in addresses'[log[i].address]
    PROVE  Inv'
<1> DEFINE n == request[r]
<1>1. /\ Len(log') = Len(log) /\ log' \in Seq(Attempts) /\ n \in 1 .. Len(log)
      /\ \A i \in 1 .. Len(log) :
            /\ log'[i].at = log[i].at /\ log'[i].address = log[i].address
            /\ log'[i].account = log[i].account
            /\ log'[i].verdict = IF i = n THEN v ELSE log[i].verdict
  BY EndLogs DEF Inv
<1>2. /\ UNCHANGED <<now, nextCleanup>> /\ n # 0 /\ request' = [request EXCEPT ![r] = 0]
      /\ request \in [Requests -> 0 .. Len(log)] /\ Len(log) \in Nat
  BY LogFacts DEF Ended, Inv, TypeOK
<1>3. TypeOK' BY <1>1, <1>2 DEF Inv, TypeOK
<1>4. ClockInv' BY <1>1, <1>2 DEF Inv, ClockInv
<1>5. RequestInv'
  <2> SUFFICES ASSUME NEW q \in Requests, request'[q] # 0
               PROVE  /\ log'[request'[q]].verdict = "pending"
                      /\ \A p \in Requests : request'[p] = request'[q] => p = q
    BY DEF RequestInv
  <2>1. q # r /\ request'[q] = request[q] BY <1>2
  <2>2. /\ log[request[q]].verdict = "pending"
        /\ \A p \in Requests : request[p] = request[q] => p = q
    BY <2>1 DEF Inv, RequestInv
  <2>3. request[q] # n /\ request[q] \in 1 .. Len(log) BY <1>2, <2>1, <2>2
  <2> QED BY <1>1, <1>2, <2>1, <2>2, <2>3
<1>6. KeyInv'
  <2>1. ASSUME NEW k \in Accounts, NEW i \in accounts'[k]
        PROVE  log'[i].account = k /\ log'[i].verdict \in Counting
    <3>1. i \in accounts[k] /\ i \in 1 .. Len(log) OBVIOUS
    <3>2. log[i].account = k /\ log[i].verdict \in Counting BY <3>1 DEF Inv, KeyInv
    <3> QED BY <1>1, <2>1, <3>1, <3>2
  <2>2. ASSUME NEW k \in Addresses, NEW i \in addresses'[k]
        PROVE  log'[i].address = k /\ log'[i].verdict \in Counting
    <3>1. i \in addresses[k] /\ i \in 1 .. Len(log) OBVIOUS
    <3>2. log[i].address = k /\ log[i].verdict \in Counting BY <3>1 DEF Inv, KeyInv
    <3> QED BY <1>1, <2>2, <3>1, <3>2
  <2> QED BY <2>1, <2>2 DEF KeyInv
<1>7. GuessInv'
  <2> SUFFICES ASSUME NEW i \in 1 .. Len(log), i \in Fresh(Guesses)'
               PROVE  i \in accounts'[log'[i].account] /\ i \in addresses'[log'[i].address]
    BY <1>1 DEF GuessInv
  <2>1. i \in Guesses' BY DEF Fresh
  <2>2. i \in Fresh(Guesses) BY <1>1, <1>2, <2>1, EndGuesses DEF Fresh
  <2>3. i \in accounts[log[i].account] /\ i \in addresses[log[i].address]
    BY <2>2 DEF Inv, GuessInv
  <2> QED BY <1>1, <2>1, <2>3
<1>8. now' >= now BY <1>2 DEF Inv, TypeOK
<1>9. LimitInv' /\ WithinCapacity' BY <1>1, <1>3, <1>8, ShrinkKeeps
<1> QED BY <1>3, <1>4, <1>5, <1>6, <1>7, <1>9 DEF Inv

\* What release removes from the stores are the attempt itself and failures that
\* its success forgives.
LEMMA ReleaseKeeps ==
    ASSUME Inv, NEW r \in Requests, NEW success \in BOOLEAN, Release(r, success),
           Ended(r, IF success THEN "right" ELSE "void")
    PROVE  Inv'
<1> DEFINE n == request[r]
           v == IF success THEN "right" ELSE "void"
           gone == Released(n, success)
<1>0. v \in Verdicts /\ v # "pending" /\ v \notin Counting BY DEF Verdicts, Counting
<1>1. /\ Len(log') = Len(log) /\ n \in 1 .. Len(log)
      /\ \A i \in 1 .. Len(log) :
            /\ log'[i].address = log[i].address /\ log'[i].account = log[i].account
            /\ log'[i].verdict = IF i = n THEN v ELSE log[i].verdict
      /\ DOMAIN log = 1 .. Len(log) /\ DOMAIN log' = 1 .. Len(log)
  BY <1>0, EndLogs, LogFacts, LenProperties DEF Inv
<1>2. /\ accounts \in [Accounts -> SUBSET (1 .. Len(log))]
      /\ addresses \in [Addresses -> SUBSET (1 .. Len(log))]
      /\ accounts' = [accounts EXCEPT ![log[n].account] = @ \ gone]
      /\ addresses' = [addresses EXCEPT ![log[n].address] = @ \ gone]
  BY DEF Inv, TypeOK, Release
<1>3. log[n].account \in Accounts /\ log[n].address \in Addresses BY <1>1, LogFacts DEF Inv, Attempts
<1>4. n \in gone BY DEF Released
<1>5. ASSUME NEW i \in gone, i \in 1 .. Len(log) PROVE i \notin Guesses'
  <2>1. CASE i = n BY <1>0, <1>1, <2>1 DEF Guesses
  <2>2. CASE i # n
    <3>1. /\ success /\ log[i].verdict = "wrong" /\ i < n
          /\ log[i].address = log[n].address /\ log[i].account = log[n].account
      BY <2>2 DEF Released
    <3>2. /\ n \in DOMAIN log' /\ n > i /\ log'[n].verdict = "right"
          /\ log'[i].verdict = "wrong"
          /\ log'[n].address = log'[i].address /\ log'[n].account = log'[i].account
      BY <1>1, <1>5, <2>2, <3>1
    <3> QED BY <3>2 DEF Guesses, Forgiven
  <2> QED BY <2>1, <2>2
<1> HIDE DEF gone, v
<1>6. /\ accounts' \in [Accounts -> SUBSET (1 .. Len(log))]
      /\ addresses' \in [Addresses -> SUBSET (1 .. Len(log))]
      /\ \A k \in Accounts  : accounts'[k] \subseteq accounts[k]
      /\ \A k \in Addresses : addresses'[k] \subseteq addresses[k]
  BY <1>2, <1>3
<1>7. \A k \in Accounts : n \notin accounts'[k] BY <1>2, <1>3, <1>4 DEF Inv, KeyInv
<1>8. \A k \in Addresses : n \notin addresses'[k] BY <1>2, <1>3, <1>4 DEF Inv, KeyInv
<1>9. \A i \in 1 .. Len(log) : i \in Guesses' =>
         /\ i \in accounts[log[i].account] => i \in accounts'[log[i].account]
         /\ i \in addresses[log[i].address] => i \in addresses'[log[i].address]
  BY <1>2, <1>3, <1>5
<1>10. Ended(r, v) BY DEF v
<1> QED BY <1>0, <1>6, <1>7, <1>8, <1>9, <1>10, EndKeeps

\* A failure and a lost attempt go on counting.
LEMMA CountsOnKeeps ==
    ASSUME Inv, NEW r \in Requests, NEW v \in {"wrong", "lost"}, Ended(r, v),
           UNCHANGED <<accounts, addresses>>
    PROVE  Inv'
<1>1. v \in Verdicts /\ v # "pending" /\ v \in Counting BY DEF Verdicts, Counting
<1>2. /\ accounts' \in [Accounts -> SUBSET (1 .. Len(log))]
      /\ addresses' \in [Addresses -> SUBSET (1 .. Len(log))]
  BY DEF Inv, TypeOK
<1> QED BY <1>1, <1>2, EndKeeps

LEMMA Step == Inv /\ [Next]_vars => Inv'
<1> SUFFICES ASSUME Inv, [Next]_vars PROVE Inv' OBVIOUS
<1>1. CASE UNCHANGED vars
  BY <1>1 DEF vars, Inv, TypeOK, ClockInv, RequestInv, KeyInv, GuessInv, LimitInv, Limited,
              WithinCapacity, Fresh, Guesses, Forgiven, Keys
<1>2. CASE Tick BY <1>2, TickKeeps
<1>3. ASSUME NEW r \in Requests, Login(r) PROVE Inv' BY <1>3, AdmitKeeps, DenyKeeps DEF Login
<1>4. ASSUME NEW r \in Requests, End(r) PROVE Inv'
  <2>1. CASE Succeed(r) BY <2>1, ReleaseKeeps DEF Succeed
  <2>2. CASE Interrupt(r) BY <2>2, ReleaseKeeps DEF Interrupt
  <2>3. CASE Fail(r) BY <2>3, CountsOnKeeps DEF Fail
  <2>4. CASE CommitFails(r) BY <2>4, CountsOnKeeps DEF CommitFails
  <2> QED BY <1>4, <2>1, <2>2, <2>3, <2>4 DEF End
<1> QED BY <1>1, <1>2, <1>3, <1>4 DEF Next

LEMMA InvHolds == Spec => []Inv
BY InitInv, Step, PTL DEF Spec

-----------------------------------------------------------------------------
(* What follows.                                                             *)

\* Every state has its shape.
THEOREM LimiterTyped == Spec => []TypeOK
<1>1. Inv => TypeOK BY DEF Inv
<1> QED BY InvHolds, <1>1, PTL

\* In no window of the lockout are more than MaxAttempts passwords guessed at one
\* account, or from one address, whatever requests overlap and however they end.
THEOREM NoMoreGuesses == Spec => []NoExtraGuess
<1>1. Inv => NoExtraGuess
  <2> SUFFICES ASSUME Inv PROVE NoExtraGuess OBVIOUS
  <2>1. DOMAIN log = 1 .. Len(log) /\ \A i \in 1 .. Len(log) : log[i] \in Attempts
    BY LogFacts DEF Inv
  <2>2. /\ accounts \in [Accounts -> SUBSET (1 .. Len(log))]
        /\ addresses \in [Addresses -> SUBSET (1 .. Len(log))]
    BY DEF Inv, TypeOK
  <2>3. \A i \in Fresh(Guesses) : i \in 1 .. Len(log) BY <2>1 DEF Fresh, Guesses
  <2>4. ASSUME NEW k \in Accounts
        PROVE  Cardinality({i \in Fresh(Guesses) : log[i].account = k}) <= MaxAttempts
    <3>1. {i \in Fresh(Guesses) : log[i].account = k} \subseteq Fresh(accounts[k])
      BY <2>3 DEF Inv, GuessInv, Fresh
    <3>2. Fresh(accounts[k]) \subseteq 1 .. Len(log) BY <2>2 DEF Fresh
    <3>3. Cardinality(Fresh(accounts[k])) <= MaxAttempts BY <2>2 DEF Inv, LimitInv, Limited
    <3> QED BY <3>1, <3>2, <3>3, FewerAttempts, LimiterAssumption DEF Inv
  <2>5. ASSUME NEW k \in Addresses
        PROVE  Cardinality({i \in Fresh(Guesses) : log[i].address = k}) <= MaxAttempts
    <3>1. {i \in Fresh(Guesses) : log[i].address = k} \subseteq Fresh(addresses[k])
      BY <2>3 DEF Inv, GuessInv, Fresh
    <3>2. Fresh(addresses[k]) \subseteq 1 .. Len(log) BY <2>2 DEF Fresh
    <3>3. Cardinality(Fresh(addresses[k])) <= MaxAttempts BY <2>2 DEF Inv, LimitInv, Limited
    <3> QED BY <3>1, <3>2, <3>3, FewerAttempts, LimiterAssumption DEF Inv
  <2> QED BY <2>4, <2>5 DEF NoExtraGuess
<1> QED BY InvHolds, <1>1, PTL

\* No store grows past its capacity.
THEOREM StoresBounded == Spec => []WithinCapacity
<1>1. Inv => WithinCapacity BY DEF Inv
<1> QED BY InvHolds, <1>1, PTL

\* A key that refuses is full of recent attempts, or new to a store whose capacity
\* other keys with recent attempts take.
LEMMA RefusalCause ==
    ASSUME NEW store \in {accounts, addresses}, NEW K, DOMAIN store = K,
           NEW k \in K, RefusedBy(store, k)
    PROVE  \/ Cardinality(Fresh(store[k])) >= MaxAttempts
           \/ Cardinality({q \in K \ {k} : Fresh(store[q]) # {}}) >= Capacity
<1> DEFINE busy == {q \in K \ {k} : Fresh(store[q]) # {}}
<1>1. Full(Tidy(store), k) => Cardinality(Fresh(store[k])) >= MaxAttempts
  BY TidyKeepsFresh DEF Full
<1>2. CASE NoRoom(Tidy(store), k)
  <2>1. Tidy(store)[k] = {} /\ Cardinality(Keys(Tidy(store))) >= Capacity BY <1>2 DEF NoRoom
  <2>2. CASE CleanupDue
    <3>1. Tidy(store) = [q \in K |-> Fresh(store[q])] BY <2>2 DEF Tidy
    <3>2. Keys(Tidy(store)) = busy BY <2>1, <3>1 DEF Keys
    <3> QED BY <2>1, <3>1, <3>2
  <2>3. CASE ~CleanupDue
    <3>1. Tidy(store) = store BY <2>3 DEF Tidy
    <3> QED BY <2>1, <2>3, <3>1 DEF CleanupDue
  <2> QED BY <2>2, <2>3
<1> QED BY <1>1, <1>2 DEF RefusedBy

\* No key refuses without a cause that is younger than the lockout.
THEOREM RefusalsAreEarned == Spec => []RefusalIsEarned
<1>1. Inv => RefusalIsEarned
  <2> SUFFICES ASSUME Inv PROVE RefusalIsEarned OBVIOUS
  <2> DEFINE counted == {i \in DOMAIN log : log[i].verdict \in {"pending", "wrong", "lost"}}
             recent == Fresh(counted)
  <2>1. DOMAIN log = 1 .. Len(log) /\ \A i \in 1 .. Len(log) : log[i] \in Attempts
    BY LogFacts DEF Inv
  <2>2. /\ accounts \in [Accounts -> SUBSET (1 .. Len(log))]
        /\ addresses \in [Addresses -> SUBSET (1 .. Len(log))]
    BY DEF Inv, TypeOK
  <2>3. recent \subseteq 1 .. Len(log) BY <2>1 DEF Fresh
  <2>4. /\ MaxAttempts \in Nat /\ Capacity \in Nat /\ IsFiniteSet(Accounts) /\ IsFiniteSet(Addresses)
    BY LimiterAssumption
  <2>5. ASSUME NEW k \in Accounts, RefusedBy(accounts, k)
        PROVE  \/ Cardinality({i \in recent : log[i].account = k}) >= MaxAttempts
               \/ Cardinality({log[i].account : i \in recent} \ {k}) >= Capacity
    <3> DEFINE others == {log[i].account : i \in recent} \ {k}
               busy == {q \in Accounts \ {k} : Fresh(accounts[q]) # {}}
    <3>1. \A q \in Accounts : Fresh(accounts[q]) \subseteq {i \in recent : log[i].account = q}
      BY <2>1, <2>2 DEF Inv, KeyInv, Counting, Fresh
    <3>2. CASE Cardinality(Fresh(accounts[k])) >= MaxAttempts
      <4> DEFINE mine == {i \in recent : log[i].account = k}
      <4>1. mine \subseteq 1 .. Len(log) /\ Fresh(accounts[k]) \subseteq mine BY <2>3, <3>1
      <4> HIDE DEF mine
      <4>2. /\ Cardinality(Fresh(accounts[k])) \in Nat /\ Cardinality(mine) \in Nat
            /\ Cardinality(Fresh(accounts[k])) <= Cardinality(mine)
        BY <4>1, FewerAttempts DEF Inv
      <4>3. Cardinality(mine) >= MaxAttempts BY <2>4, <3>2, <4>2
      <4> QED BY <4>3 DEF mine
    <3>3. CASE Cardinality(busy) >= Capacity
      <4>1. busy \subseteq others
        <5> SUFFICES ASSUME NEW q \in busy PROVE q \in others OBVIOUS
        <5>1. PICK i \in Fresh(accounts[q]) : TRUE OBVIOUS
        <5>2. i \in recent /\ log[i].account = q BY <3>1, <5>1
        <5> QED BY <5>2
      <4>2. others \subseteq Accounts BY <2>1, <2>3 DEF Attempts
      <4>3. IsFiniteSet(others) BY <2>4, <4>2, FS_Subset
      <4>4. /\ Cardinality(others) \in Nat /\ Cardinality(busy) \in Nat
            /\ Cardinality(busy) <= Cardinality(others)
        BY <4>1, <4>3, FS_Subset, FS_CardinalityType
      <4> QED BY <2>4, <3>3, <4>4
    <3> QED BY <2>2, <2>5, <3>2, <3>3, RefusalCause
  <2>6. ASSUME NEW k \in Addresses, RefusedBy(addresses, k)
        PROVE  \/ Cardinality({i \in recent : log[i].address = k}) >= MaxAttempts
               \/ Cardinality({log[i].address : i \in recent} \ {k}) >= Capacity
    <3> DEFINE others == {log[i].address : i \in recent} \ {k}
               busy == {q \in Addresses \ {k} : Fresh(addresses[q]) # {}}
    <3>1. \A q \in Addresses : Fresh(addresses[q]) \subseteq {i \in recent : log[i].address = q}
      BY <2>1, <2>2 DEF Inv, KeyInv, Counting, Fresh
    <3>2. CASE Cardinality(Fresh(addresses[k])) >= MaxAttempts
      <4> DEFINE mine == {i \in recent : log[i].address = k}
      <4>1. mine \subseteq 1 .. Len(log) /\ Fresh(addresses[k]) \subseteq mine BY <2>3, <3>1
      <4> HIDE DEF mine
      <4>2. /\ Cardinality(Fresh(addresses[k])) \in Nat /\ Cardinality(mine) \in Nat
            /\ Cardinality(Fresh(addresses[k])) <= Cardinality(mine)
        BY <4>1, FewerAttempts DEF Inv
      <4>3. Cardinality(mine) >= MaxAttempts BY <2>4, <3>2, <4>2
      <4> QED BY <4>3 DEF mine
    <3>3. CASE Cardinality(busy) >= Capacity
      <4>1. busy \subseteq others
        <5> SUFFICES ASSUME NEW q \in busy PROVE q \in others OBVIOUS
        <5>1. PICK i \in Fresh(addresses[q]) : TRUE OBVIOUS
        <5>2. i \in recent /\ log[i].address = q BY <3>1, <5>1
        <5> QED BY <5>2
      <4>2. others \subseteq Addresses BY <2>1, <2>3 DEF Attempts
      <4>3. IsFiniteSet(others) BY <2>4, <4>2, FS_Subset
      <4>4. /\ Cardinality(others) \in Nat /\ Cardinality(busy) \in Nat
            /\ Cardinality(busy) <= Cardinality(others)
        BY <4>1, <4>3, FS_Subset, FS_CardinalityType
      <4> QED BY <2>4, <3>3, <4>4
    <3> QED BY <2>2, <2>6, <3>2, <3>3, RefusalCause
  <2> QED BY <2>5, <2>6 DEF RefusalIsEarned
<1> QED BY InvHolds, <1>1, PTL

\* Numbers have a least one among them.
LEMMA LeastOf ==
    ASSUME NEW S, S \subseteq Nat, S # {}
    PROVE  \E m \in S : \A n \in S : m <= n
<1> DEFINE R == OpToRel(<, Nat)
<1>1. IsWellFoundedOn(R, Nat) BY NatLessThanWellFounded
<1>2. PICK m \in S : \A n \in S : ~ (<<n, m>> \in R)
  <2> HIDE DEF R
  <2> QED BY <1>1, WFMin
<1>3. \A n \in S : n \in Nat /\ m \in Nat OBVIOUS
<1>4. \A n \in S : ~ (n < m) BY <1>2, <1>3 DEF OpToRel
<1> QED BY <1>3, <1>4

\* What a full key is told to wait is what its oldest attempt has left.
LEMMA WaitIsLeast ==
    ASSUME Inv, NEW store, NEW k \in DOMAIN store, store[k] \subseteq 1 .. Len(log), Full(store, k)
    PROVE  /\ Wait(store, k) \in 1 .. Lockout
           /\ \E i \in Fresh(store[k]) : Wait(store, k) = Lockout - (now - log[i].at)
           /\ \A i \in Fresh(store[k]) : Wait(store, k) <= Lockout - (now - log[i].at)
<1> DEFINE left(i) == Lockout - (now - log[i].at)
           lefts == {left(i) : i \in Fresh(store[k])}
           Least(w) == /\ \E i \in Fresh(store[k]) : w = Lockout - (now - log[i].at)
                       /\ \A i \in Fresh(store[k]) : w <= Lockout - (now - log[i].at)
<1>1. /\ now \in Nat /\ Lockout \in Nat /\ MaxAttempts \in Nat /\ MaxAttempts > 0
      /\ \A i \in 1 .. Len(log) : log[i].at \in Nat /\ log[i].at <= now
  BY LogFacts, LimiterAssumption DEF Inv, TypeOK, ClockInv, Attempts
<1>2. \A i \in Fresh(store[k]) : left(i) \in 1 .. Lockout BY <1>1 DEF Fresh
<1>3. Full(Tidy(store), k) BY TidyKeepsFresh DEF Full
<1>4. Fresh(store[k]) # {}
  <2>1. Fresh(store[k]) = {} => Cardinality(Fresh(store[k])) = 0 BY FS_EmptySet
  <2>2. Cardinality(Fresh(store[k])) >= MaxAttempts BY DEF Full
  <2> QED BY <1>1, <2>1, <2>2
<1>5. PICK w \in lefts : \A v \in lefts : w <= v
  <2>1. lefts \subseteq Nat /\ lefts # {} BY <1>2, <1>4
  <2> HIDE DEF lefts
  <2> QED BY <2>1, LeastOf
<1>6. w \in 1 .. Lockout /\ Least(w) BY <1>2, <1>5
<1>7. Wait(store, k) = CHOOSE v \in 1 .. Lockout : Least(v) BY <1>3 DEF Wait
<1> HIDE DEF Least
<1>8. Wait(store, k) \in 1 .. Lockout /\ Least(Wait(store, k)) BY <1>6, <1>7
<1> QED BY <1>8 DEF Least

\* What is fresh later is fresh now.
LEMMA StillFresh ==
    ASSUME NEW n \in Nat, NEW at \in Nat, NEW wait \in Nat, NEW lockout \in Nat,
           (n + wait) - at < lockout
    PROVE  n - at < lockout
OBVIOUS

\* When it is over, an attempt is as old as the lockout.
LEMMA WaitOver ==
    ASSUME NEW n \in Nat, NEW at \in Nat, NEW wait \in Nat, NEW lockout \in Nat,
           wait = lockout - (n - at)
    PROVE  (n + wait) - at = lockout
OBVIOUS

\* One tick before its wait ends, an attempt is still fresh.
LEMMA TickBefore ==
    ASSUME NEW n \in Nat, NEW at \in Nat, NEW wait \in Nat, NEW lockout \in Nat,
           wait <= lockout - (n - at)
    PROVE  ((n + wait) - 1) - at < lockout
OBVIOUS

\* Retry-After is exact: one tick before, as many attempts fill the key as now;
\* when it is over, one of them is gone.
LEMMA WaitIsExact ==
    ASSUME Inv, NEW store, NEW k \in DOMAIN store, store[k] \subseteq 1 .. Len(log),
           Limited(store), Full(store, k), NEW t, t = now + Wait(store, k)
    PROVE  /\ Cardinality({i \in store[k] : t - log[i].at < Lockout}) < MaxAttempts
           /\ Cardinality({i \in store[k] : (t - 1) - log[i].at < Lockout}) >= MaxAttempts
<1> DEFINE after == {i \in store[k] : t - log[i].at < Lockout}
           before == {i \in store[k] : (t - 1) - log[i].at < Lockout}
           fresh == Fresh(store[k])
<1>1. /\ now \in Nat /\ Lockout \in Nat /\ MaxAttempts \in Nat
      /\ \A i \in 1 .. Len(log) : log[i].at \in Nat /\ log[i].at <= now
  BY LogFacts, LimiterAssumption DEF Inv, TypeOK, ClockInv, Attempts
<1>2. /\ Wait(store, k) \in 1 .. Lockout
      /\ \E i \in fresh : Wait(store, k) = Lockout - (now - log[i].at)
      /\ \A i \in fresh : Wait(store, k) <= Lockout - (now - log[i].at)
      /\ Wait(store, k) \in Nat
  BY <1>1, WaitIsLeast
<1>3. PICK first \in fresh : Wait(store, k) = Lockout - (now - log[first].at) BY <1>2
<1>4. first \in store[k] /\ t - log[first].at = Lockout
  <2>1. first \in store[k] /\ first \in 1 .. Len(log) BY DEF Fresh
  <2> HIDE DEF fresh
  <2>2. log[first].at \in Nat BY <1>1, <2>1
  <2>3. (now + Wait(store, k)) - log[first].at = Lockout BY <1>1, <1>2, <1>3, <2>2, WaitOver
  <2> QED BY <2>1, <2>3
<1>5. after \subseteq fresh \ {first}
  <2> SUFFICES ASSUME NEW i \in after PROVE i \in fresh \ {first} OBVIOUS
  <2>1. i \in store[k] /\ i \in 1 .. Len(log) /\ t - log[i].at < Lockout OBVIOUS
  <2>2. log[i].at \in Nat BY <1>1, <2>1
  <2>3. now - log[i].at < Lockout BY <1>1, <1>2, <2>1, <2>2, StillFresh
  <2>4. i \in fresh BY <2>1, <2>3 DEF Fresh
  <2>5. i # first
    <3> HIDE DEF after, fresh
    <3> QED BY <1>1, <1>2, <1>4, <2>1, <2>2
  <2> QED BY <2>4, <2>5
<1>6. fresh \subseteq before
  <2> SUFFICES ASSUME NEW i \in fresh PROVE i \in before OBVIOUS
  <2>1. i \in store[k] /\ i \in 1 .. Len(log) BY DEF Fresh
  <2>2. Wait(store, k) <= Lockout - (now - log[i].at) BY <1>2
  <2>3. log[i].at \in Nat BY <1>1, <2>1
  <2>4. ((now + Wait(store, k)) - 1) - log[i].at < Lockout BY <1>1, <1>2, <2>2, <2>3, TickBefore
  <2> QED BY <2>1, <2>4
<1>7. fresh \subseteq 1 .. Len(log) /\ before \subseteq 1 .. Len(log) BY DEF Fresh
<1>8. Cardinality(fresh) <= MaxAttempts /\ Cardinality(fresh) >= MaxAttempts
  BY DEF Limited, Full
<1> HIDE DEF fresh, before, after
<1>9. /\ IsFiniteSet(fresh) /\ Cardinality(fresh) \in Nat
      /\ Cardinality(fresh \ {first}) = Cardinality(fresh) - 1
      /\ IsFiniteSet(fresh \ {first})
  BY <1>3, <1>7, AttemptsFinite, FS_RemoveElement DEF Inv
<1>10. Cardinality(after) \in Nat /\ Cardinality(after) <= Cardinality(fresh \ {first})
  BY <1>5, <1>9, FS_Subset, FS_CardinalityType
<1>11. Cardinality(before) \in Nat /\ Cardinality(fresh) <= Cardinality(before)
  BY <1>6, <1>7, FewerAttempts DEF Inv
<1>12. Cardinality(after) < MaxAttempts /\ Cardinality(before) >= MaxAttempts
  BY <1>1, <1>8, <1>9, <1>10, <1>11
<1> QED BY <1>12 DEF after, before

\* A full key is told exactly when it will be free again.
THEOREM RetryAfterExact == Spec => []RetryAfterIsExact
<1>1. Inv => RetryAfterIsExact
  <2> SUFFICES ASSUME Inv PROVE RetryAfterIsExact OBVIOUS
  <2>1. /\ accounts \in [Accounts -> SUBSET (1 .. Len(log))] /\ Limited(accounts)
        /\ addresses \in [Addresses -> SUBSET (1 .. Len(log))] /\ Limited(addresses)
    BY DEF Inv, TypeOK, LimitInv
  <2>2. \A k \in Accounts : Full(accounts, k) =>
           LET t == now + Wait(accounts, k)
           IN  /\ Cardinality({i \in accounts[k] : t - log[i].at < Lockout}) < MaxAttempts
               /\ Cardinality({i \in accounts[k] : (t - 1) - log[i].at < Lockout}) >= MaxAttempts
    BY <2>1, WaitIsExact
  <2>3. \A k \in Addresses : Full(addresses, k) =>
           LET t == now + Wait(addresses, k)
           IN  /\ Cardinality({i \in addresses[k] : t - log[i].at < Lockout}) < MaxAttempts
               /\ Cardinality({i \in addresses[k] : (t - 1) - log[i].at < Lockout}) >= MaxAttempts
    BY <2>1, WaitIsExact
  <2> QED BY <2>2, <2>3 DEF RetryAfterIsExact
<1> QED BY InvHolds, <1>1, PTL
==============================================================================
