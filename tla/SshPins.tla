------------------------------- MODULE SshPins -------------------------------
(* SSHClient.connect of backend/app/core/ssh.py: connections to managed      *)
(* servers, opened by auto-setup and by the self-healing service, enroll     *)
(* host keys in one known_hosts file.  One lock per event loop serialises    *)
(* them; the file is read and written in threads, which run on when the      *)
(* task that waits for them is cancelled.                                    *)
(*                                                                           *)
(* A pin is the pair of a host (with its port) and a key; the file is a set  *)
(* of pins.  Lines an operator adds by hand (revoked keys, authorities) are  *)
(* left out.  A server may show any key: it was reinstalled, or it is not    *)
(* the server.                                                               *)
EXTENDS Naturals

CONSTANTS Hosts, HostKeys, Tasks, NoTask

ASSUME SshAssumption == NoTask \notin Tasks /\ Hosts # {} /\ HostKeys # {}

VARIABLES
    file,      \* the pins in known_hosts
    lock,      \* the task that holds _pin_locks[loop]
    pc,        \* task -> where its connect is
    host,      \* task -> the host it connects to
    snapshot,  \* task -> the pins its verifier was built from
    key,       \* task -> the key its server showed
    thread     \* task -> its writing thread: "none", "running", "done", "failed"

vars == <<file, lock, pc, host, snapshot, key, thread>>

Pins == Hosts \X HostKeys

\* "draining" is "writing" after a cancellation, "closing" the except branch.
Places == {"idle", "waiting", "reading", "handshake", "verified", "writing", "draining",
           "closing", "connected"}

AnyHost == CHOOSE h \in Hosts : TRUE
AnyKey  == CHOOSE k \in HostKeys : TRUE

Init == /\ file = {} /\ lock = NoTask
        /\ pc = [t \in Tasks |-> "idle"]
        /\ host = [t \in Tasks |-> AnyHost]
        /\ snapshot = [t \in Tasks |-> {}]
        /\ key = [t \in Tasks |-> AnyKey]
        /\ thread = [t \in Tasks |-> "none"]

Goto(t, place) == pc' = [pc EXCEPT ![t] = place]

\* Mutant: an exception leaves the lock taken.
RaiseLocked(t) == /\ Goto(t, "idle")
                  /\ host' = [host EXCEPT ![t] = AnyHost]
                  /\ snapshot' = [snapshot EXCEPT ![t] = {}]
                  /\ key' = [key EXCEPT ![t] = AnyKey]
                  /\ thread' = [thread EXCEPT ![t] = "none"]
                  /\ UNCHANGED lock

\* Leaving connect with an exception.
Raise(t) == /\ Goto(t, "idle")
            /\ lock' = IF lock = t THEN NoTask ELSE lock
            /\ host' = [host EXCEPT ![t] = AnyHost]
            /\ snapshot' = [snapshot EXCEPT ![t] = {}]
            /\ key' = [key EXCEPT ![t] = AnyKey]
            /\ thread' = [thread EXCEPT ![t] = "none"]

-----------------------------------------------------------------------------
Call(t, h) == /\ pc[t] = "idle"
              /\ Goto(t, "waiting")
              /\ host' = [host EXCEPT ![t] = h]
              /\ UNCHANGED <<file, lock, snapshot, key, thread>>

Acquire(t) == /\ pc[t] = "waiting" /\ lock = NoTask
              /\ lock' = t
              /\ Goto(t, "reading")
              /\ UNCHANGED <<file, host, snapshot, key, thread>>

\* Mutant: the pins were read before the lock was taken.
ReadPinsUnlocked(t) == /\ pc[t] = "reading"
                       /\ \E old \in SUBSET file :
                             snapshot' = [snapshot EXCEPT ![t] = old]
                       /\ Goto(t, "handshake")
                       /\ UNCHANGED <<file, lock, host, key, thread>>

\* _read_pins in a thread; then the private key is imported.
ReadPins(t) == /\ pc[t] = "reading"
               /\ snapshot' = [snapshot EXCEPT ![t] = file]
               /\ Goto(t, "handshake")
               /\ UNCHANGED <<file, lock, host, key, thread>>

Trusted(t) == {k \in HostKeys : <<host[t], k>> \in snapshot[t]}

\* validate_host_public_key accepts the key the server shows.
Accept(t, k) == /\ pc[t] = "handshake"
                /\ Trusted(t) = {} \/ k \in Trusted(t)
                /\ key' = [key EXCEPT ![t] = k]
                /\ Goto(t, "verified")
                /\ UNCHANGED <<file, lock, host, snapshot, thread>>

\* It rejects the key, the login fails, the connection times out, or a file
\* cannot be read.
ConnectFails(t) == /\ pc[t] \in {"reading", "handshake"}
                   /\ Raise(t)
                   /\ UNCHANGED file

Enrolls(t) == Trusted(t) = {}

\* Mutant: the connection is handed out while the pin is still written.
VerifiedEarly(t) == /\ pc[t] = "verified"
                    /\ Goto(t, "connected")
                    /\ lock' = NoTask
                    /\ thread' = IF Enrolls(t) THEN [thread EXCEPT ![t] = "running"] ELSE thread
                    /\ UNCHANGED <<file, host, snapshot, key>>

\* A known key is done; for a new one a thread starts to write the file.
Verified(t) == /\ pc[t] = "verified"
               /\ IF Enrolls(t)
                  THEN /\ Goto(t, "writing")
                       /\ thread' = [thread EXCEPT ![t] = "running"]
                       /\ UNCHANGED lock
                  ELSE Goto(t, "connected") /\ lock' = NoTask /\ UNCHANGED thread
               /\ UNCHANGED <<file, host, snapshot, key>>

\* Mutant: the line has the key before the host.
ThreadWritesSwapped(t) == /\ thread[t] = "running"
                          /\ file' = snapshot[t] \cup {<<key[t], host[t]>>}
                          /\ thread' = [thread EXCEPT ![t] = "done"]
                          /\ UNCHANGED <<lock, pc, host, snapshot, key>>

\* _write_pins: what was read and the new pin, in one os.replace.
ThreadWrites(t) == /\ thread[t] = "running"
                   /\ file' = snapshot[t] \cup {<<host[t], key[t]>>}
                   /\ thread' = [thread EXCEPT ![t] = "done"]
                   /\ UNCHANGED <<lock, pc, host, snapshot, key>>

ThreadFails(t) == /\ thread[t] = "running"
                  /\ thread' = [thread EXCEPT ![t] = "failed"]
                  /\ UNCHANGED <<file, lock, pc, host, snapshot, key>>

\* The shielded await returns.
Enrolled(t) == /\ pc[t] = "writing" /\ thread[t] = "done"
               /\ Goto(t, "connected")
               /\ lock' = NoTask
               /\ thread' = [thread EXCEPT ![t] = "none"]
               /\ UNCHANGED <<file, host, snapshot, key>>

\* It raises, or the thread a cancelled task waited for has ended either way.
WriteRaises(t) == /\ \/ pc[t] = "writing" /\ thread[t] = "failed"
                     \/ pc[t] = "draining" /\ thread[t] \in {"done", "failed"}
                  /\ Goto(t, "closing")
                  /\ thread' = [thread EXCEPT ![t] = "none"]
                  /\ UNCHANGED <<file, lock, host, snapshot, key>>

\* connection.close() and wait_closed(), still under the lock.
Close(t) == pc[t] = "closing" /\ Raise(t) /\ UNCHANGED file

Disconnect(t) == pc[t] = "connected" /\ Raise(t) /\ UNCHANGED file

-----------------------------------------------------------------------------
\* Mutant: a cancelled task does not wait for the thread.
CancelAtOnce(t) == /\ pc[t] \in {"waiting", "reading", "handshake", "writing"}
                   /\ Goto(t, "idle")
                   /\ lock' = IF lock = t THEN NoTask ELSE lock
                   /\ UNCHANGED <<file, host, snapshot, key, thread>>

\* The task is cancelled, once, when the service stops.  While the file is
\* written it waits for the thread; the threads that read do no harm.
Cancel(t) == \/ /\ pc[t] \in {"waiting", "reading", "handshake"}
                /\ Raise(t) /\ UNCHANGED file
             \/ /\ pc[t] = "writing"
                /\ Goto(t, "draining")
                /\ UNCHANGED <<file, lock, host, snapshot, key, thread>>

\* The process dies; only the file is left.
Crash == /\ lock' = NoTask
         /\ pc' = [t \in Tasks |-> "idle"]
         /\ host' = [t \in Tasks |-> AnyHost]
         /\ snapshot' = [t \in Tasks |-> {}]
         /\ key' = [t \in Tasks |-> AnyKey]
         /\ thread' = [t \in Tasks |-> "none"]
         /\ UNCHANGED file

Step(t) == \/ ReadPins(t) \/ (\E k \in HostKeys : Accept(t, k)) \/ ConnectFails(t)
           \/ Verified(t) \/ ThreadWrites(t) \/ ThreadFails(t)
           \/ Enrolled(t) \/ WriteRaises(t) \/ Close(t) \/ Disconnect(t)

Next == \/ \E t \in Tasks : Step(t) \/ Acquire(t) \/ Cancel(t) \/ \E h \in Hosts : Call(t, h)
        \/ Crash

Spec == Init /\ [][Next]_vars

\* connect has a timeout, a thread ends, a user of the connection closes it in
\* its finally; asyncio.Lock serves its waiters in their order.
FairSpec == /\ Spec
            /\ \A t \in Tasks : WF_vars(Step(t)) /\ SF_vars(Acquire(t))

-----------------------------------------------------------------------------
(* Properties.                                                               *)

\* The state has the shape the definitions above rely on.
TypeOK == /\ file \subseteq Pins
          /\ lock \in Tasks \cup {NoTask}
          /\ pc \in [Tasks -> Places]
          /\ host \in [Tasks -> Hosts]
          /\ snapshot \in [Tasks -> SUBSET Pins]
          /\ key \in [Tasks -> HostKeys]
          /\ thread \in [Tasks -> {"none", "running", "done", "failed"}]

\* The file is written and closed off by the holder of the lock alone, a
\* cancelled one included: "the enrollment lock must cover its whole lifetime".
WritesUnderLock ==
    \A t \in Tasks : thread[t] # "none" \/ pc[t] \in {"writing", "draining", "closing"}
                        => lock = t

\* Whoever got a connection got it with the key that is enrolled for its host:
\* two first contacts that overlap cannot both trust what they were shown.
ConnectedIsPinned ==
    \A t \in Tasks : pc[t] = "connected" => {k \in HostKeys : <<host[t], k>> \in file} = {key[t]}

\* The file is a trust-on-first-use register, however connections overlap, are
\* cancelled, fail or die: no key is replaced, none is lost, no host has two.
Register == INSTANCE TrustOnFirstUse
              WITH pins <- [h \in Hosts |-> {k \in HostKeys : <<h, k>> \in file}]
TrustsFirstUse == Register!Spec

\* A connect that was called ends, with a connection or an exception.
EveryConnectEnds == \A t \in Tasks : pc[t] = "waiting" ~> pc[t] \in {"connected", "idle"}
=============================================================================
