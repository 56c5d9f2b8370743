---------------------------- MODULE SshPinsProofs ----------------------------
(* The enrollment of host keys, for any number of hosts, keys and tasks.     *)
EXTENDS SshPins, TLAPS

\* From reading the file to closing a connection whose enrollment failed.
Guarded == {"reading", "handshake", "verified", "writing", "draining", "closing"}

\* Who is past the lock holds it, and a thread runs only for who waits for it.
LockInv == \A t \in Tasks : /\ pc[t] \in Guarded => lock = t
                            /\ thread[t] # "none" => pc[t] \in {"writing", "draining"}

\* What the holder read is still the file until its own thread has written it,
\* and that thread was started because the host had no key.
SnapshotInv ==
    \A t \in Tasks :
       /\ pc[t] \in {"handshake", "verified"} => snapshot[t] = file
       /\ pc[t] = "verified" => Trusted(t) = {} \/ key[t] \in Trusted(t)
       /\ thread[t] = "running" => snapshot[t] = file /\ Trusted(t) = {}
       /\ thread[t] = "done" => <<host[t], key[t]>> \in file

\* No host has two keys, and a connection has the one of its host.
FileInv == /\ \A h \in Hosts : \A k, l \in HostKeys :
                 <<h, k>> \in file /\ <<h, l>> \in file => k = l
           /\ \A t \in Tasks : pc[t] = "connected" => <<host[t], key[t]>> \in file

Inv == TypeOK /\ LockInv /\ SnapshotInv /\ FileInv

LEMMA InitInv == Init => Inv
<1> SUFFICES ASSUME Init PROVE Inv OBVIOUS
<1>1. AnyHost \in Hosts /\ AnyKey \in HostKeys BY SshAssumption DEF AnyHost, AnyKey
<1>2. TypeOK BY <1>1 DEF Init, TypeOK, Places, Pins
<1>3. LockInv BY DEF Init, LockInv, Guarded
<1>4. SnapshotInv BY DEF Init, SnapshotInv
<1>5. FileInv BY DEF Init, FileInv
<1> QED BY <1>2, <1>3, <1>4, <1>5 DEF Inv

-----------------------------------------------------------------------------
(* Types.                                                                    *)

LEMMA TypeStep == TypeOK /\ [Next]_vars => TypeOK'
<1> SUFFICES ASSUME TypeOK, [Next]_vars PROVE TypeOK' OBVIOUS
<1> USE DEF TypeOK, Places, Pins, Goto
<1>0. AnyHost \in Hosts /\ AnyKey \in HostKeys BY SshAssumption DEF AnyHost, AnyKey
<1>1. CASE UNCHANGED vars BY <1>1 DEF vars
<1>2. CASE Crash BY <1>0, <1>2 DEF Crash
<1>3. ASSUME NEW t \in Tasks, NEW h \in Hosts, Call(t, h) PROVE TypeOK' BY <1>3 DEF Call
<1>4. ASSUME NEW t \in Tasks, Acquire(t) PROVE TypeOK' BY <1>4 DEF Acquire
<1>5. ASSUME NEW t \in Tasks, ReadPins(t) PROVE TypeOK' BY <1>5 DEF ReadPins
<1>6. ASSUME NEW t \in Tasks, NEW k \in HostKeys, Accept(t, k) PROVE TypeOK'
  BY <1>6 DEF Accept
<1>7. ASSUME NEW t \in Tasks, Raise(t), UNCHANGED file PROVE TypeOK'
  BY <1>0, <1>7 DEF Raise
<1>8. ASSUME NEW t \in Tasks, Verified(t) PROVE TypeOK'
  <2>1. CASE Enrolls(t) BY <1>8, <2>1 DEF Verified
  <2>2. CASE ~Enrolls(t) BY <1>8, <2>2 DEF Verified
  <2> QED BY <2>1, <2>2
<1>9. ASSUME NEW t \in Tasks, ThreadWrites(t) PROVE TypeOK' BY <1>9 DEF ThreadWrites
<1>10. ASSUME NEW t \in Tasks, ThreadFails(t) PROVE TypeOK' BY <1>10 DEF ThreadFails
<1>11. ASSUME NEW t \in Tasks, Enrolled(t) PROVE TypeOK' BY <1>11 DEF Enrolled
<1>12. ASSUME NEW t \in Tasks, WriteRaises(t) PROVE TypeOK' BY <1>12 DEF WriteRaises
<1>13. ASSUME NEW t \in Tasks, Cancel(t) PROVE TypeOK' BY <1>7, <1>13 DEF Cancel
<1> QED BY <1>1, <1>2, <1>3, <1>4, <1>5, <1>6, <1>7, <1>8, <1>9, <1>10, <1>11, <1>12, <1>13
        DEF Next, Step, ConnectFails, Close, Disconnect

-----------------------------------------------------------------------------
(* The lock.                                                                 *)

LEMMA LockStep == TypeOK /\ LockInv /\ [Next]_vars => LockInv'
<1> SUFFICES ASSUME TypeOK, LockInv, [Next]_vars PROVE LockInv' OBVIOUS
<1> USE SshAssumption DEF TypeOK, LockInv, Guarded, Goto
<1>1. CASE UNCHANGED vars BY <1>1 DEF vars
<1>2. CASE Crash BY <1>2 DEF Crash
<1>3. ASSUME NEW t \in Tasks, NEW h \in Hosts, Call(t, h) PROVE LockInv' BY <1>3 DEF Call
<1>4. ASSUME NEW t \in Tasks, Acquire(t) PROVE LockInv' BY <1>4 DEF Acquire
<1>5. ASSUME NEW t \in Tasks, ReadPins(t) PROVE LockInv' BY <1>5 DEF ReadPins
<1>6. ASSUME NEW t \in Tasks, NEW k \in HostKeys, Accept(t, k) PROVE LockInv'
  BY <1>6 DEF Accept
<1>7. ASSUME NEW t \in Tasks, Raise(t) PROVE LockInv' BY <1>7 DEF Raise
<1>8. ASSUME NEW t \in Tasks, Verified(t) PROVE LockInv'
  <2>1. CASE Enrolls(t) BY <1>8, <2>1 DEF Verified
  <2>2. CASE ~Enrolls(t) BY <1>8, <2>2 DEF Verified
  <2> QED BY <2>1, <2>2
<1>9. ASSUME NEW t \in Tasks, ThreadWrites(t) PROVE LockInv' BY <1>9 DEF ThreadWrites
<1>10. ASSUME NEW t \in Tasks, ThreadFails(t) PROVE LockInv' BY <1>10 DEF ThreadFails
<1>11. ASSUME NEW t \in Tasks, Enrolled(t) PROVE LockInv' BY <1>11 DEF Enrolled
<1>12. ASSUME NEW t \in Tasks, WriteRaises(t) PROVE LockInv' BY <1>12 DEF WriteRaises
<1>13. ASSUME NEW t \in Tasks, Cancel(t) PROVE LockInv' BY <1>7, <1>13 DEF Cancel
<1> QED BY <1>1, <1>2, <1>3, <1>4, <1>5, <1>6, <1>7, <1>8, <1>9, <1>10, <1>11, <1>12, <1>13
        DEF Next, Step, ConnectFails, Close, Disconnect

-----------------------------------------------------------------------------
(* The file.                                                                 *)

\* The one step that writes the file adds the first key of a host: its thread's
\* task holds the lock, so what it read is what the file is.
LEMMA WriteEnrolls ==
    ASSUME Inv, NEW t \in Tasks, ThreadWrites(t)
    PROVE  /\ file' = file \cup {<<host[t], key[t]>>}
           /\ \A k \in HostKeys : <<host[t], k>> \notin file
           /\ \A s \in Tasks \ {t} : pc[s] \notin Guarded /\ thread[s] = "none"
<1>1. thread[t] = "running" /\ snapshot[t] = file /\ Trusted(t) = {}
  BY DEF Inv, SnapshotInv, ThreadWrites
<1>2. \A k \in HostKeys : <<host[t], k>> \notin file BY <1>1 DEF Trusted
<1>3. pc[t] \in Guarded BY <1>1 DEF Inv, LockInv, Guarded
<1>4. \A s \in Tasks \ {t} : pc[s] \notin Guarded /\ thread[s] = "none"
  BY <1>3 DEF Inv, LockInv, Guarded
<1> QED BY <1>1, <1>2, <1>4 DEF ThreadWrites

\* A step that writes no file and shows no key keeps what is known of both.
LEMMA SnapshotStep == Inv /\ [Next]_vars => SnapshotInv'
<1> SUFFICES ASSUME Inv, [Next]_vars PROVE SnapshotInv' OBVIOUS
<1> USE DEF Inv, TypeOK, SnapshotInv, Goto, Trusted
<1>1. CASE UNCHANGED vars BY <1>1 DEF vars
<1>2. CASE Crash BY <1>2 DEF Crash
<1>3. ASSUME NEW t \in Tasks, NEW h \in Hosts, Call(t, h) PROVE SnapshotInv'
  BY <1>3 DEF Call, LockInv
<1>4. ASSUME NEW t \in Tasks, Acquire(t) PROVE SnapshotInv' BY <1>4 DEF Acquire
<1>5. ASSUME NEW t \in Tasks, ReadPins(t) PROVE SnapshotInv' BY <1>5 DEF ReadPins, LockInv
<1>6. ASSUME NEW t \in Tasks, NEW k \in HostKeys, Accept(t, k) PROVE SnapshotInv'
  BY <1>6 DEF Accept, LockInv
<1>7. ASSUME NEW t \in Tasks, Raise(t), UNCHANGED file PROVE SnapshotInv' BY <1>7 DEF Raise
<1>8. ASSUME NEW t \in Tasks, Verified(t) PROVE SnapshotInv'
  <2>1. CASE Enrolls(t) BY <1>8, <2>1 DEF Verified, Enrolls
  <2>2. CASE ~Enrolls(t) BY <1>8, <2>2 DEF Verified
  <2> QED BY <2>1, <2>2
<1>9. ASSUME NEW t \in Tasks, ThreadWrites(t) PROVE SnapshotInv'
  <2>1. pc[t] \in {"writing", "draining"} BY <1>9 DEF ThreadWrites, LockInv
  <2> QED BY <1>9, <2>1, WriteEnrolls DEF ThreadWrites, Guarded
<1>10. ASSUME NEW t \in Tasks, ThreadFails(t) PROVE SnapshotInv' BY <1>10 DEF ThreadFails
<1>11. ASSUME NEW t \in Tasks, Enrolled(t) PROVE SnapshotInv' BY <1>11 DEF Enrolled
<1>12. ASSUME NEW t \in Tasks, WriteRaises(t) PROVE SnapshotInv' BY <1>12 DEF WriteRaises
<1>13. ASSUME NEW t \in Tasks, Cancel(t) PROVE SnapshotInv' BY <1>7, <1>13 DEF Cancel
<1> QED BY <1>1, <1>2, <1>3, <1>4, <1>5, <1>6, <1>7, <1>8, <1>9, <1>10, <1>11, <1>12, <1>13
        DEF Next, Step, ConnectFails, Close, Disconnect

LEMMA FileStep == Inv /\ [Next]_vars => FileInv'
<1> SUFFICES ASSUME Inv, [Next]_vars PROVE FileInv' OBVIOUS
<1> USE DEF Inv, TypeOK, FileInv, Goto
<1>1. CASE UNCHANGED vars BY <1>1 DEF vars
<1>2. CASE Crash BY <1>2 DEF Crash
<1>3. ASSUME NEW t \in Tasks, NEW h \in Hosts, Call(t, h) PROVE FileInv' BY <1>3 DEF Call
<1>4. ASSUME NEW t \in Tasks, Acquire(t) PROVE FileInv' BY <1>4 DEF Acquire
<1>5. ASSUME NEW t \in Tasks, ReadPins(t) PROVE FileInv' BY <1>5 DEF ReadPins
<1>6. ASSUME NEW t \in Tasks, NEW k \in HostKeys, Accept(t, k) PROVE FileInv'
  BY <1>6 DEF Accept
<1>7. ASSUME NEW t \in Tasks, Raise(t), UNCHANGED file PROVE FileInv' BY <1>7 DEF Raise
<1>8. ASSUME NEW t \in Tasks, Verified(t) PROVE FileInv'
  <2>1. CASE Enrolls(t) BY <1>8, <2>1 DEF Verified
  <2>2. CASE ~Enrolls(t)
    BY <1>8, <2>2 DEF Verified, Enrolls, SnapshotInv, Trusted
  <2> QED BY <2>1, <2>2
<1>9. ASSUME NEW t \in Tasks, ThreadWrites(t) PROVE FileInv'
  BY <1>9, WriteEnrolls DEF ThreadWrites
<1>10. ASSUME NEW t \in Tasks, ThreadFails(t) PROVE FileInv' BY <1>10 DEF ThreadFails
<1>11. ASSUME NEW t \in Tasks, Enrolled(t) PROVE FileInv' BY <1>11 DEF Enrolled, SnapshotInv
<1>12. ASSUME NEW t \in Tasks, WriteRaises(t) PROVE FileInv' BY <1>12 DEF WriteRaises
<1>13. ASSUME NEW t \in Tasks, Cancel(t) PROVE FileInv' BY <1>7, <1>13 DEF Cancel
<1> QED BY <1>1, <1>2, <1>3, <1>4, <1>5, <1>6, <1>7, <1>8, <1>9, <1>10, <1>11, <1>12, <1>13
        DEF Next, Step, ConnectFails, Close, Disconnect

LEMMA InvHolds == Spec => []Inv
<1>1. Inv /\ [Next]_vars => Inv'
  <2> SUFFICES ASSUME Inv, [Next]_vars PROVE Inv' OBVIOUS
  <2>1. TypeOK' BY TypeStep DEF Inv
  <2>2. LockInv' BY LockStep DEF Inv
  <2> QED BY <2>1, <2>2, SnapshotStep, FileStep DEF Inv
<1> QED BY InitInv, <1>1, PTL DEF Spec

-----------------------------------------------------------------------------
(* What follows.                                                             *)

\* Every state has its shape.
THEOREM SshTyped == Spec => []TypeOK
<1>1. Inv => TypeOK BY DEF Inv
<1> QED BY InvHolds, <1>1, PTL

\* Only the holder of the lock writes known_hosts or closes off an enrollment,
\* also when it was cancelled while its thread writes.
THEOREM OnlyHolderWrites == Spec => []WritesUnderLock
<1>1. Inv => WritesUnderLock BY DEF Inv, LockInv, Guarded, WritesUnderLock
<1> QED BY InvHolds, <1>1, PTL

\* Whoever got a connection got it with the one key enrolled for its host.
THEOREM ConnectionsArePinned == Spec => []ConnectedIsPinned
<1>1. Inv => ConnectedIsPinned BY DEF Inv, TypeOK, FileInv, ConnectedIsPinned
<1> QED BY InvHolds, <1>1, PTL

\* A step writes no file, or enrolls the first key of one host.
LEMMA StepEnrolls ==
    ASSUME Inv, [Next]_vars, file' # file
    PROVE  \E t \in Tasks : ThreadWrites(t)
BY DEF Next, Step, vars, Crash, Call, Acquire, ReadPins, Accept, ConnectFails, Verified, ThreadFails,
       Enrolled, WriteRaises, Close, Disconnect, Cancel

\* known_hosts is a trust-on-first-use register, for any number of tasks whose
\* connections overlap, are cancelled, fail or die.
THEOREM ImplementsTrustOnFirstUse == Spec => TrustsFirstUse
<1> DEFINE pinsOf == [h \in Hosts |-> {k \in HostKeys : <<h, k>> \in file}]
<1>1. Init => Register!Init BY DEF Init, Register!Init
<1>2. ASSUME Inv, [Next]_vars PROVE Register!Next \/ UNCHANGED pinsOf
  <2>1. CASE UNCHANGED file BY <2>1
  <2>2. CASE file' # file
    <3>1. PICK t \in Tasks : ThreadWrites(t) BY <1>2, <2>2, StepEnrolls
    <3>2. host[t] \in Hosts /\ key[t] \in HostKeys BY <1>2 DEF Inv, TypeOK
    <3>3. pinsOf[host[t]] = {} BY <1>2, <3>1, <3>2, WriteEnrolls
    <3>4. pinsOf' = [pinsOf EXCEPT ![host[t]] = {key[t]}]
      BY <1>2, <3>1, <3>2, WriteEnrolls
    <3> QED BY <3>2, <3>3, <3>4 DEF Register!Next, Register!Enroll
  <2> QED BY <2>1, <2>2
<1> QED BY <1>1, <1>2, InvHolds, PTL DEF Spec, TrustsFirstUse, Register!Spec
=============================================================================
