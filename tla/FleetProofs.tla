----------------------------- MODULE FleetProofs ------------------------------
(* What routes, background jobs and the self-healing cycle keep of nodes,    *)
(* protocols and machines, for any number of jobs, nodes and configurations. *)
EXTENDS Fleet, WellFoundedInduction, TLAPS

Statuses == {"unknown", "online", "offline", "error"}

-----------------------------------------------------------------------------
(* The inductive invariant, by the state that each part is about.            *)

\* Rows, ids and uuids; a node stored as online may be restarted.
NodesInv ==
    /\ born \in 0..MaxNodes /\ DOMAIN nodes \subseteq 1..born
    /\ \A i \in DOMAIN nodes : nodes[i] \in NodeRow /\ nodes[i].born <= born
    /\ \A i, k \in DOMAIN nodes : nodes[i].born = nodes[k].born => i = k
    /\ healed \subseteq 1..born
    /\ \A i \in DOMAIN nodes : nodes[i].status = "online" => nodes[i].born \notin healed

ProtosInv ==
    /\ protos \subseteq [node : Ids, for : Ids, cred : 1..MaxCreds, alone : BOOLEAN, late : BOOLEAN]
    /\ StrayOnlyLate

\* What a check of the cycle knows at each stage.
Answers == {"online", "offline"}
Checks == {Out} \union [at : {"get"}] \union [at : {"read"}, new : Answers, up : BOOLEAN]
          \union [at : {"commit"}, new : Answers, up : BOOLEAN, old : Statuses, node : Ids]
          \union [at : {"restart"}, up : BOOLEAN, node : Ids]
Met(i) == heal[i].at \in {"commit", "restart"}

\* The uuid a check has read is of its id alone, and who was online when it was
\* read has not been restarted since.
HealInv ==
    /\ heal \in [Ids -> Checks]
    /\ \A i \in Ids : Met(i) =>
          /\ heal[i].node <= born
          /\ \A k \in DOMAIN nodes : nodes[k].born = heal[i].node => k = i
          /\ \A k \in Ids : Met(k) /\ heal[k].node = heal[i].node => k = i
    /\ \A i \in Ids : heal[i].at = "commit" /\ heal[i].old = "online" => heal[i].node \notin healed

ProbeInv == probe.at = "asking" =>
    /\ probe = [at |-> "asking", todo |-> probe.todo, seen |-> probe.seen]
    /\ \A i \in DOMAIN probe.seen : probe.seen[i].new \in Answers

\* What a setup knows at each stage.
Stages == {"install", "write", "restart", "commit", "fail"}
Setups == {Out} \union [at : {"start"}, on : Ids]
          \union [at : Stages, on : Ids, saw : NodeRow, cred : 1..MaxCreds, alone : BOOLEAN]
Started(j) == setup[j].at \notin {"out", "start"}

\* A setup alone on its machine has nobody beside it; what it has written there is
\* in the file, and once started in the service too, unless a restart by the cycle
\* failed.
Undisturbed(j) ==
    /\ \A k \in Jobs : Started(k) /\ setup[k].saw.born = setup[j].saw.born => k = j
    /\ setup[j].at \in {"restart", "commit"} => machine[setup[j].saw.born].file = setup[j].cred
    /\ setup[j].at = "commit" => machine[setup[j].saw.born].live \in {setup[j].cred, Cut}
SetupInv ==
    /\ setup \in [Jobs -> Setups]
    /\ machine \in [Ids -> [file : 0..MaxCreds, live : 0..Cut]]
    /\ \A j \in Jobs : Started(j) /\ setup[j].alone => Undisturbed(j)

AddingInv == adding.at = "insert" => adding.on \in Ids /\ adding.saw \in NodeRow
CountsInv == creds \in 0..MaxCreds /\ work \in 0..MaxWork

Inv == NodesInv /\ ProtosInv /\ HealInv /\ ProbeInv /\ SetupInv /\ AddingInv /\ CountsInv

LEMMA Bounds == MaxNodes \in Nat /\ MaxCreds \in Nat /\ MaxWork \in Nat
BY FleetAssumption

\* A configuration that can be in a file can be in a service, and so can what a failed
\* restart leaves.
LEMMA Services == Cut \in 0..Cut /\ 0 \in 0..Cut /\ 0..MaxCreds \subseteq 0..Cut
BY Bounds DEF Cut

LEMMA InvTyped == Inv => TypeOK
<1> SUFFICES ASSUME Inv PROVE TypeOK OBVIOUS
<1>1. DOMAIN nodes \subseteq Ids BY Bounds DEF Inv, NodesInv, Ids
<1> QED BY <1>1 DEF Inv, NodesInv, ProtosInv, SetupInv, CountsInv, TypeOK

LEMMA Starts == Init => Inv
<1> SUFFICES ASSUME Init PROVE Inv OBVIOUS
<1>1. born = 0 /\ healed = {} /\ DOMAIN nodes = {} BY DEF Init
<1>2. 0 \in 0..MaxNodes /\ 0 \in 0..MaxCreds /\ 0 \in 0..MaxWork BY Bounds
<1>3. NodesInv BY <1>1, <1>2 DEF NodesInv
<1>4. ProtosInv BY DEF Init, ProtosInv, StrayOnlyLate
<1>5. HealInv BY DEF Init, HealInv, Checks, Met, Out
<1>6. ProbeInv /\ AddingInv BY DEF Init, ProbeInv, AddingInv, Out
<1>7. SetupInv BY <1>2, Services DEF Init, SetupInv, Setups, Started, Out, Other
<1>8. CountsInv BY <1>2 DEF Init, CountsInv
<1> QED BY <1>3, <1>4, <1>5, <1>6, <1>7, <1>8 DEF Inv

-----------------------------------------------------------------------------
(* The tables.                                                               *)

\* A bounded set of numbers has its Max.
LEMMA GreatestOf ==
    ASSUME NEW n \in Nat, NEW S \in SUBSET (1..n), S # {}
    PROVE  Max(S) \in S /\ \A x \in S : x <= Max(S)
<1>0. \A x \in S : x \in Nat /\ x <= n OBVIOUS
<1> DEFINE T == {n - x : x \in S}
<1>1. T \subseteq Nat /\ T # {}
  <2>1. \A x \in S : n - x \in Nat BY <1>0
  <2>2. PICK x \in S : TRUE OBVIOUS
  <2>3. n - x \in T BY <2>2
  <2> QED BY <2>1, <2>3
<1> DEFINE R == OpToRel(<, Nat)
<1>2. PICK t \in T : \A u \in T : ~ (<<u, t>> \in R)
  <2>1. IsWellFoundedOn(R, Nat) BY NatLessThanWellFounded
  <2> HIDE DEF R, T
  <2> QED BY <1>1, <2>1, WFMin
<1>3. \A u \in T : t <= u
  <2>1. \A u \in T : u \in Nat /\ t \in Nat BY <1>1
  <2>2. \A u \in T : ~ (u < t)
    <3> HIDE DEF T
    <3> QED BY <1>2, <2>1 DEF R, OpToRel
  <2> HIDE DEF T
  <2> QED BY <2>1, <2>2
<1> HIDE DEF R
<1>4. PICK x \in S : t = n - x OBVIOUS
<1>5. \A y \in S : x >= y
  <2>1. \A y \in S : n - x <= n - y BY <1>3, <1>4
  <2> HIDE DEF T
  <2> QED BY <1>0, <2>1
<1> QED BY <1>4, <1>5 DEF Max

LEMMA NextIdFree == ASSUME NodesInv PROVE NextId \in 1..(born + 1) /\ NextId \notin DOMAIN nodes
<1>1. born \in Nat /\ DOMAIN nodes \subseteq 1..born BY Bounds DEF NodesInv
<1>2. CASE DOMAIN nodes = {} BY <1>1, <1>2 DEF NextId
<1>3. CASE DOMAIN nodes # {}
  <2>1. Max(DOMAIN nodes) \in DOMAIN nodes /\ \A x \in DOMAIN nodes : x <= Max(DOMAIN nodes)
    BY <1>1, <1>3, GreatestOf
  <2>2. NextId = Max(DOMAIN nodes) + 1 BY <1>3 DEF NextId
  <2>3. Max(DOMAIN nodes) \in 1..born BY <1>1, <2>1
  <2>4. \A x \in DOMAIN nodes : x \in Nat BY <1>1
  <2> QED BY <1>1, <2>1, <2>2, <2>3, <2>4
<1> QED BY <1>2, <1>3

\* A uuid that is in use was in use with this id before, or is new.
Evolve == /\ born' \in Nat /\ born' >= born
          /\ \A i \in DOMAIN nodes' : \/ nodes'[i].born > born
                                      \/ i \in DOMAIN nodes /\ nodes'[i].born = nodes[i].born

\* The checks of a cycle last as the nodes change, unless one more is restarted.
LEMMA HealLasts ==
    ASSUME HealInv, NodesInv, Evolve, healed' \subseteq healed, UNCHANGED heal
    PROVE  HealInv'
<1>1. born \in Nat BY DEF NodesInv
<1>2. \A i \in Ids : Met(i) => heal[i].node \in Nat
  <2> SUFFICES ASSUME NEW i \in Ids, Met(i) PROVE heal[i].node \in Nat OBVIOUS
  <2>1. heal[i] \in Checks BY DEF HealInv
  <2> QED BY <2>1 DEF Met, Checks, Ids, Out
<1>3. ASSUME NEW i \in Ids, Met(i)
      PROVE  heal[i].node <= born' /\ \A k \in DOMAIN nodes' : nodes'[k].born = heal[i].node => k = i
  BY <1>1, <1>2, <1>3 DEF HealInv, Evolve
<1> QED BY <1>3 DEF HealInv, Met

\* Deleting rows, or writing columns of some that leave their uuids alone.
LEMMA ProtosLast ==
    ASSUME ProtosInv, protos' \subseteq protos,
           \A p \in protos' : p.node \in DOMAIN nodes =>
              p.node \in DOMAIN nodes' /\ nodes'[p.node].born = nodes[p.node].born
    PROVE  ProtosInv'
BY DEF ProtosInv, StrayOnlyLate

\* A row for a protocol is late exactly when its node is gone.
LEMMA RowStored ==
    ASSUME ProtosInv, NEW i \in Ids, NEW saw \in NodeRow, NEW cred \in 1..MaxCreds,
           NEW alone \in BOOLEAN, protos' = protos \union {Row(i, saw, cred, alone)},
           DOMAIN nodes' = DOMAIN nodes,
           \A k \in DOMAIN nodes : nodes'[k].born = nodes[k].born
    PROVE  ProtosInv'
<1> DEFINE row == Row(i, saw, cred, alone)
<1>1. row \in [node : Ids, for : Ids, cred : 1..MaxCreds, alone : BOOLEAN, late : BOOLEAN]
  BY DEF Row, NodeRow
<1>2. ~row.late => row.node \in DOMAIN nodes /\ nodes[row.node].born = row.for BY DEF Row
<1> HIDE DEF row
<1>3. \A p \in protos' : p \in protos \/ p = row BY DEF row
<1> QED BY <1>1, <1>2, <1>3 DEF ProtosInv, StrayOnlyLate

\* Statuses stored over the rows of S, the same ids and uuids as before.
Restatus(S) ==
    /\ UNCHANGED born /\ DOMAIN nodes' = DOMAIN nodes
    /\ \A i \in DOMAIN nodes : nodes'[i] \in NodeRow /\ nodes'[i].born = nodes[i].born
    /\ \A i \in DOMAIN nodes \ S : nodes'[i].status = nodes[i].status

LEMMA RestatusEvolves ==
    ASSUME NodesInv, NEW S, Restatus(S)
    PROVE  Evolve /\ \A k \in DOMAIN nodes : nodes'[k].born = nodes[k].born
BY DEF NodesInv, Restatus, Evolve

\* Who is stored as online is forgotten, and may be restarted again.
LEMMA RecoveredNodes ==
    ASSUME NodesInv, NEW S \in SUBSET (DOMAIN nodes), Restatus(S), healed' = Recovered(S)
    PROVE  NodesInv' /\ healed' \subseteq healed
<1>1. \A i \in DOMAIN nodes : nodes'[i].status = "online" => nodes[i].born \notin healed'
  BY DEF NodesInv, Restatus, Recovered
<1>2. healed' \subseteq healed BY DEF Recovered
<1> QED BY <1>1, <1>2 DEF NodesInv, Restatus

\* Parts of the invariant whose variables a step leaves alone.
LEMMA Untouched ==
    ASSUME Inv
    PROVE  /\ UNCHANGED <<nodes, born, healed>> => NodesInv'
           /\ UNCHANGED <<nodes, protos>> => ProtosInv'
           /\ UNCHANGED <<nodes, born, healed, heal>> => HealInv'
           /\ UNCHANGED probe => ProbeInv'
           /\ UNCHANGED <<setup, machine>> => SetupInv'
           /\ UNCHANGED adding => AddingInv'
           /\ UNCHANGED <<creds, work>> => CountsInv'
<1>1. UNCHANGED <<nodes, born, healed>> => NodesInv' BY DEF Inv, NodesInv
<1>2. UNCHANGED <<nodes, protos>> => ProtosInv' BY DEF Inv, ProtosInv, StrayOnlyLate
<1>3. UNCHANGED <<nodes, born, healed, heal>> => HealInv' BY DEF Inv, HealInv, Met
<1>4. UNCHANGED probe => ProbeInv' BY DEF Inv, ProbeInv
<1>5. UNCHANGED <<setup, machine>> => SetupInv' BY DEF Inv, SetupInv, Started, Undisturbed
<1>6. UNCHANGED adding => AddingInv' BY DEF Inv, AddingInv
<1>7. UNCHANGED <<creds, work>> => CountsInv' BY DEF Inv, CountsInv
<1> QED BY <1>1, <1>2, <1>3, <1>4, <1>5, <1>6, <1>7

-----------------------------------------------------------------------------
(* Nodes, protocols and the checks of the routes.                            *)

LEMMA CreateNodeKeeps == ASSUME Inv, CreateNode PROVE Inv'
<1> DEFINE n == NextId
           row == [born |-> born + 1, status |-> "unknown", meta |-> "none"]
<1>1. /\ born < MaxNodes /\ born' = born + 1
      /\ nodes' = [j \in DOMAIN nodes \union {n} |-> IF j \in DOMAIN nodes THEN nodes[j] ELSE row]
      /\ UNCHANGED <<work, protos, machine, heal, probe, setup, adding, creds, healed>>
  BY DEF CreateNode
<1>2. n \in 1..(born + 1) /\ n \notin DOMAIN nodes BY NextIdFree DEF Inv
<1>3. born \in Nat /\ born + 1 \in Ids /\ born + 1 \in 0..MaxNodes
  BY <1>1, Bounds DEF Inv, NodesInv, Ids
<1>4. row \in NodeRow /\ row.born = born + 1 /\ row.status = "unknown" BY <1>3 DEF NodeRow
<1> HIDE DEF n, row
<1>5. /\ DOMAIN nodes' = DOMAIN nodes \union {n} /\ nodes'[n] = row
      /\ \A i \in DOMAIN nodes : nodes'[i] = nodes[i]
  BY <1>1, <1>2
<1>6. \A i \in DOMAIN nodes : nodes[i].born \in Nat /\ nodes[i].born <= born
  BY DEF Inv, NodesInv, NodeRow, Ids
<1>7. NodesInv'
  <2>1. DOMAIN nodes' \subseteq 1..born' BY <1>1, <1>2, <1>3, <1>5 DEF Inv, NodesInv
  <2>2. \A i \in DOMAIN nodes' : nodes'[i] \in NodeRow /\ nodes'[i].born <= born'
    BY <1>1, <1>3, <1>4, <1>5, <1>6 DEF Inv, NodesInv
  <2>3. \A i, k \in DOMAIN nodes' : nodes'[i].born = nodes'[k].born => i = k
    BY <1>3, <1>4, <1>5, <1>6 DEF Inv, NodesInv
  <2>4. healed' \subseteq 1..born' BY <1>1, <1>3 DEF Inv, NodesInv
  <2>5. \A i \in DOMAIN nodes' : nodes'[i].status = "online" => nodes'[i].born \notin healed'
    BY <1>1, <1>4, <1>5 DEF Inv, NodesInv
  <2> QED BY <1>1, <1>3, <2>1, <2>2, <2>3, <2>4, <2>5 DEF NodesInv
<1>8. Evolve BY <1>1, <1>3, <1>4, <1>5 DEF Evolve
<1>9. HealInv' BY <1>1, <1>8, HealLasts DEF Inv
<1>10. ProtosInv' BY <1>1, <1>5, ProtosLast DEF Inv
<1> QED BY <1>1, <1>7, <1>9, <1>10, Untouched DEF Inv

LEMMA DeleteNodeKeeps == ASSUME Inv, NEW i \in Ids, DeleteNode(i) PROVE Inv'
<1>1. /\ nodes' = [j \in DOMAIN nodes \ {i} |-> nodes[j]]
      /\ protos' = {p \in protos : p.node # i}
      /\ UNCHANGED <<work, machine, heal, probe, setup, adding, born, creds, healed>>
  BY DEF DeleteNode
<1>2. DOMAIN nodes' = DOMAIN nodes \ {i} /\ \A k \in DOMAIN nodes' : nodes'[k] = nodes[k]
  BY <1>1
<1>3. NodesInv' BY <1>1, <1>2 DEF Inv, NodesInv
<1>4. Evolve BY <1>1, <1>2, Bounds DEF Inv, NodesInv, Evolve
<1>5. HealInv' BY <1>1, <1>4, HealLasts DEF Inv
<1>6. ProtosInv' BY <1>1, <1>2, ProtosLast DEF Inv
<1> QED BY <1>1, <1>3, <1>5, <1>6, Untouched DEF Inv

LEMMA BeginKeeps == ASSUME Inv, Begin, UNCHANGED creds PROVE CountsInv'
BY Bounds DEF Inv, CountsInv, Begin

LEMMA FindNodeKeeps == ASSUME Inv, NEW i \in Ids, FindNode(i) PROVE Inv'
<1>1. UNCHANGED <<nodes, protos, born, creds, healed, machine, heal, probe, setup>> /\ Begin
  BY DEF FindNode, net
<1>2. AddingInv' BY DEF Inv, NodesInv, AddingInv, FindNode
<1>3. CountsInv' BY <1>1, BeginKeeps
<1> QED BY <1>1, <1>2, <1>3, Untouched DEF Inv

LEMMA CreateProtocolKeeps == ASSUME Inv, CreateProtocol PROVE Inv'
<1>1. /\ creds < MaxCreds /\ creds' = creds + 1 /\ adding' = Out
      /\ protos' = protos \union {Row(adding.on, adding.saw, creds + 1, FALSE)}
      /\ UNCHANGED <<work, nodes, born, healed, machine, heal, probe, setup>>
  BY DEF CreateProtocol
<1>2. creds \in Nat /\ creds + 1 \in 1..MaxCreds BY <1>1, Bounds DEF Inv, CountsInv
<1>3. adding.on \in Ids /\ adding.saw \in NodeRow BY DEF Inv, AddingInv, CreateProtocol
<1>4. ProtosInv' BY <1>1, <1>2, <1>3, RowStored DEF Inv
<1>5. AddingInv' BY <1>1 DEF AddingInv, Out
<1>6. CountsInv' BY <1>1, <1>2, Bounds DEF Inv, CountsInv
<1> QED BY <1>1, <1>4, <1>5, <1>6, Untouched DEF Inv

LEMMA DeleteProtocolKeeps == ASSUME Inv, NEW p \in protos, DeleteProtocol(p) PROVE Inv'
<1>1. /\ protos' \subseteq protos
      /\ UNCHANGED <<work, nodes, born, creds, healed, machine, heal, probe, setup, adding>>
  BY DEF DeleteProtocol
<1>2. ProtosInv' BY <1>1, ProtosLast DEF Inv
<1> QED BY <1>1, <1>2, Untouched DEF Inv

LEMMA ProbeKeeps == ASSUME Inv, NEW ids, Probe(ids) PROVE Inv'
<1>1. UNCHANGED <<nodes, protos, born, creds, healed, machine, heal, setup, adding>> /\ Begin
  BY DEF Probe, net
<1>2. ProbeInv' BY DEF Probe, ProbeInv
<1>3. CountsInv' BY <1>1, BeginKeeps
<1> QED BY <1>1, <1>2, <1>3, Untouched DEF Inv

LEMMA AskKeeps == ASSUME Inv, NEW i \in Ids, Ask(i) PROVE Inv'
<1>1. UNCHANGED <<nodes, protos, born, creds, healed, work, machine, heal, setup, adding>>
  BY DEF Ask, net
<1>2. ProbeInv'
  <2>1. PICK todo, old :
        /\ probe = [at |-> "asking", todo |-> todo, seen |-> old]
        /\ \A k \in DOMAIN old : old[k].new \in Answers
    BY DEF Ask, Inv, ProbeInv
  <2>2. PICK s \in Answers :
          probe' = [probe EXCEPT !.todo = @ \ {i},
                 !.seen = IF i \notin DOMAIN nodes THEN @
                          ELSE [k \in DOMAIN @ \union {i} |->
                                 IF k = i THEN [old |-> nodes[i].status, new |-> s] ELSE @[k]]]
    BY DEF Ask, Answers
  <2> DEFINE new == IF i \notin DOMAIN nodes THEN old
                    ELSE [k \in DOMAIN old \union {i} |->
                                 IF k = i THEN [old |-> nodes[i].status, new |-> s] ELSE old[k]]
  <2>3. probe' = [at |-> "asking", todo |-> todo \ {i}, seen |-> new] BY <2>1, <2>2
  <2>4. \A k \in DOMAIN new : new[k].new \in Answers BY <2>1
  <2> HIDE DEF new
  <2> QED BY <2>3, <2>4 DEF ProbeInv
<1> QED BY <1>1, <1>2, Untouched DEF Inv

LEMMA ProbeCommitKeeps == ASSUME Inv, ProbeCommit PROVE Inv'
<1> DEFINE seen == probe.seen
<1>1. /\ probe.at = "asking" /\ probe' = Out
      /\ UNCHANGED <<work, protos, born, creds, machine, heal, setup, adding>>
  BY DEF ProbeCommit
<1>2. ProbeInv' BY <1>1 DEF ProbeInv, Out
<1>3. CASE UNCHANGED <<nodes, healed>> BY <1>1, <1>2, <1>3, Untouched DEF Inv
<1>4. CASE ~ UNCHANGED <<nodes, healed>>
  <2>1. /\ DOMAIN seen \subseteq DOMAIN nodes
        /\ nodes' = [i \in DOMAIN nodes |-> IF i \notin DOMAIN seen THEN nodes[i] ELSE
                   [nodes[i] EXCEPT !.status = Stored(@, seen[i].old, seen[i].new)]]
        /\ healed' = Recovered(DOMAIN seen)
    BY <1>4 DEF ProbeCommit
  <2>2. \A i \in DOMAIN seen : seen[i].new \in Statuses
    BY <1>1 DEF Inv, ProbeInv, Answers, Statuses
  <2>3. \A i \in DOMAIN nodes : nodes[i] \in NodeRow BY DEF Inv, NodesInv
  <2> HIDE DEF seen
  <2>4. Restatus(DOMAIN seen)
    <3>1. \A i \in DOMAIN nodes : nodes'[i] \in NodeRow /\ nodes'[i].born = nodes[i].born
      BY <2>1, <2>2, <2>3 DEF NodeRow, Statuses, Stored
    <3> QED BY <1>1, <2>1, <3>1 DEF Restatus
  <2>5. NodesInv' /\ healed' \subseteq healed BY <2>1, <2>4, RecoveredNodes DEF Inv
  <2>6. Evolve /\ \A k \in DOMAIN nodes : nodes'[k].born = nodes[k].born
    BY <2>4, RestatusEvolves DEF Inv
  <2>7. HealInv' BY <1>1, <2>5, <2>6, HealLasts DEF Inv
  <2>8. ProtosInv' BY <1>1, <2>1, <2>6, ProtosLast DEF Inv
  <2> QED BY <1>1, <1>2, <2>5, <2>7, <2>8, Untouched DEF Inv
<1> QED BY <1>3, <1>4

-----------------------------------------------------------------------------
(* The self-healing cycle.                                                   *)

\* A check that goes on: what it knows of its node is all there is to check.
LEMMA CheckGoesOn ==
    ASSUME Inv, UNCHANGED <<nodes, born>>, healed' \subseteq healed, NEW i \in Ids,
           NEW c \in Checks, heal' = [heal EXCEPT ![i] = c],
           c.at \in {"commit", "restart"} =>
              /\ c.node <= born
              /\ \A k \in DOMAIN nodes : nodes[k].born = c.node => k = i
              /\ \A k \in Ids : Met(k) /\ heal[k].node = c.node => k = i,
           c.at = "commit" /\ c.old = "online" => c.node \notin healed
    PROVE  HealInv'
<1>1. heal' \in [Ids -> Checks] /\ heal'[i] = c /\ \A k \in Ids \ {i} : heal'[k] = heal[k]
  BY DEF Inv, HealInv
<1>2. \A k \in Ids : Met(k)' <=> IF k = i THEN c.at \in {"commit", "restart"} ELSE Met(k)
  BY <1>1 DEF Met
<1>3. \A k \in Ids : Met(k)' =>
         heal'[k].node <= born /\ \A m \in DOMAIN nodes : nodes[m].born = heal'[k].node => m = k
  BY <1>1, <1>2 DEF Inv, HealInv
<1>4. \A k \in Ids : Met(k)' => \A m \in Ids : Met(m)' /\ heal'[m].node = heal'[k].node => m = k
  BY <1>1, <1>2 DEF Inv, HealInv
<1>5. \A k \in Ids : heal'[k].at = "commit" /\ heal'[k].old = "online" => heal'[k].node \notin healed'
  BY <1>1 DEF Inv, HealInv
<1> QED BY <1>1, <1>3, <1>4, <1>5 DEF HealInv

LEMMA OutKnowsNothing == Out \in Checks /\ Out.at \notin {"commit", "restart"}
BY DEF Checks, Out

LEMMA StartCycleKeeps == ASSUME Inv, StartCycle PROVE Inv'
<1>1. UNCHANGED <<nodes, protos, born, creds, healed, machine, probe, setup, adding>> /\ Begin
  BY DEF StartCycle, net
<1>2. heal' = [i \in Ids |-> IF i \in DOMAIN nodes THEN [at |-> "get"] ELSE Out] BY DEF StartCycle
<1>3. heal' \in [Ids -> Checks] BY <1>2 DEF Checks
<1>4. \A i \in Ids : heal'[i].at \in {"get", "out"} BY <1>2 DEF Out
<1>5. HealInv' BY <1>3, <1>4 DEF HealInv, Met
<1>6. CountsInv' BY <1>1, BeginKeeps
<1> QED BY <1>1, <1>5, <1>6, Untouched DEF Inv

LEMMA CheckUrlKeeps == ASSUME Inv, NEW i \in Ids, CheckUrl(i) PROVE Inv'
<1>1. UNCHANGED <<nodes, protos, born, creds, healed, work, machine, probe, setup, adding>>
  BY DEF CheckUrl, net
<1>2. PICK s \in Answers, up \in BOOLEAN :
        heal' = [heal EXCEPT ![i] = [at |-> "read", new |-> s, up |-> up]]
  BY DEF CheckUrl, Answers
<1> DEFINE c == [at |-> "read", new |-> s, up |-> up]
<1>3. c \in Checks /\ c.at = "read" BY DEF Checks
<1>4. heal' = [heal EXCEPT ![i] = c] BY <1>2
<1> HIDE DEF c
<1>5. HealInv' BY <1>1, <1>3, <1>4, CheckGoesOn
<1> QED BY <1>1, <1>5, Untouched DEF Inv

LEMMA ReadStatusKeeps == ASSUME Inv, NEW i \in Ids, ReadStatus(i) PROVE Inv'
<1>1. UNCHANGED <<nodes, protos, born, creds, healed, work, machine, probe, setup, adding>>
  BY DEF ReadStatus, net
<1>2. HealInv'
  <2>1. CASE i \notin DOMAIN nodes
    <3>1. heal' = [heal EXCEPT ![i] = Out] BY <2>1 DEF ReadStatus
    <3> QED BY <1>1, <3>1, OutKnowsNothing, CheckGoesOn
  <2>2. CASE i \in DOMAIN nodes
    <3> DEFINE c == [at |-> "commit", new |-> heal[i].new, up |-> heal[i].up,
                     old |-> nodes[i].status, node |-> nodes[i].born]
    <3>1. heal' = [heal EXCEPT ![i] = c] BY <2>2 DEF ReadStatus, Inv, HealInv
    <3>2. nodes[i] \in NodeRow /\ nodes[i].born <= born BY <2>2 DEF Inv, NodesInv
    <3>3. heal[i].new \in Answers /\ heal[i].up \in BOOLEAN
      <4>1. heal[i] \in Checks /\ heal[i].at = "read" BY DEF ReadStatus, Inv, HealInv
      <4> QED BY <4>1 DEF Checks, Out
    <3>4. c \in Checks BY <3>2, <3>3 DEF Checks, NodeRow, Statuses
    <3>5. c.node = nodes[i].born /\ c.old = nodes[i].status OBVIOUS
    <3> HIDE DEF c
    <3>6. \A k \in DOMAIN nodes : nodes[k].born = c.node => k = i
      BY <2>2, <3>5 DEF Inv, NodesInv
    <3>7. \A k \in Ids : Met(k) /\ heal[k].node = c.node => k = i
      BY <2>2, <3>5 DEF Inv, HealInv
    <3>8. c.old = "online" => c.node \notin healed BY <2>2, <3>5 DEF Inv, NodesInv
    <3> QED BY <1>1, <3>1, <3>2, <3>4, <3>5, <3>6, <3>7, <3>8, CheckGoesOn
  <2> QED BY <2>1, <2>2
<1> QED BY <1>1, <1>2, Untouched DEF Inv

\* Whoever went offline is stored as offline in the step that decides the restart.
LEMMA StoreStatusKeeps == ASSUME Inv, NEW i \in Ids, StoreStatus(i) PROVE Inv'
<1> DEFINE c == heal[i]
<1>1. c.at = "commit" /\ UNCHANGED <<work, protos, born, creds, machine, probe, setup, adding>>
  BY DEF StoreStatus
<1>2. c \in Checks /\ c.new \in Answers /\ c.up \in BOOLEAN /\ c.node \in Ids
  <2>1. c \in Checks BY DEF Inv, HealInv
  <2> QED BY <1>1, <2>1 DEF Checks, Out
<1>3. CASE i \notin DOMAIN nodes
  <2>1. heal' = [heal EXCEPT ![i] = Out] /\ UNCHANGED <<nodes, healed>>
    BY <1>3 DEF StoreStatus
  <2>2. HealInv' BY <1>1, <2>1, OutKnowsNothing, CheckGoesOn
  <2> QED BY <1>1, <2>1, <2>2, Untouched DEF Inv
<1>4. CASE i \in DOMAIN nodes
  <2>1. nodes' = [nodes EXCEPT ![i].status = Stored(@, c.old, c.new)] BY <1>4 DEF StoreStatus
  <2>2. nodes[i] \in NodeRow BY <1>4 DEF Inv, NodesInv
  <2>3. /\ DOMAIN nodes' = DOMAIN nodes
        /\ nodes'[i] \in NodeRow /\ nodes'[i].born = nodes[i].born
        /\ nodes'[i].status = Stored(nodes[i].status, c.old, c.new)
        /\ \A k \in DOMAIN nodes \ {i} : nodes'[k] = nodes[k]
    BY <1>2, <1>4, <2>1, <2>2 DEF NodeRow, Answers, Stored
  <2>4. Restatus({i}) BY <1>1, <2>3 DEF Restatus, Inv, NodesInv
  <2>5. Evolve /\ \A k \in DOMAIN nodes : nodes'[k].born = nodes[k].born
    BY <2>4, RestatusEvolves DEF Inv
  <2>6. ProtosInv' BY <1>1, <2>3, <2>5, ProtosLast DEF Inv
  <2>7. /\ c.node <= born
        /\ \A k \in DOMAIN nodes : nodes[k].born = c.node => k = i
        /\ \A k \in Ids : Met(k) /\ heal[k].node = c.node => k = i
    BY <1>1 DEF Inv, HealInv, Met
  <2>8. CASE ~WentOffline(c)
    <3>1. healed' = Recovered({i}) /\ heal' = [heal EXCEPT ![i] = Out]
      BY <1>4, <2>8 DEF StoreStatus
    <3>2. NodesInv' /\ healed' \subseteq healed BY <1>4, <2>4, <3>1, RecoveredNodes DEF Inv
    <3>3. HealInv'
      <4>1. heal' \in [Ids -> Checks] /\ heal'[i] = Out /\ \A k \in Ids \ {i} : heal'[k] = heal[k]
        BY <3>1, OutKnowsNothing DEF Inv, HealInv
      <4>2. \A k \in Ids : Met(k)' <=> k # i /\ Met(k) BY <4>1, OutKnowsNothing DEF Met
      <4>3. \A k \in Ids : Met(k)' =>
              /\ heal'[k].node <= born'
              /\ \A m \in DOMAIN nodes' : nodes'[m].born = heal'[k].node => m = k
              /\ \A m \in Ids : Met(m)' /\ heal'[m].node = heal'[k].node => m = k
        BY <1>1, <2>3, <2>5, <4>1, <4>2 DEF Inv, HealInv
      <4>4. \A k \in Ids : heal'[k].at = "commit" /\ heal'[k].old = "online" =>
              heal'[k].node \notin healed'
        BY <3>2, <4>1, OutKnowsNothing DEF Inv, HealInv
      <4> QED BY <4>1, <4>3, <4>4 DEF HealInv
    <3> QED BY <1>1, <2>6, <3>2, <3>3, Untouched DEF Inv
  <2>9. CASE WentOffline(c)
    <3> DEFINE d == [at |-> "restart", up |-> c.up, node |-> c.node]
    <3>1. healed' = healed \union {c.node} /\ heal' = [heal EXCEPT ![i] = d]
      BY <1>4, <2>9 DEF StoreStatus
    <3>2. d \in Checks /\ d.at = "restart" /\ d.node = c.node BY <1>2 DEF Checks
    <3> HIDE DEF d
    <3>3. nodes'[i].status = "offline" BY <2>3, <2>9 DEF WentOffline, Stored
    <3>4. NodesInv'
      <4>1. \A k \in DOMAIN nodes' : nodes'[k].status = "online" => nodes'[k].born \notin healed'
        BY <2>3, <2>7, <3>1, <3>3 DEF Inv, NodesInv
      <4>2. healed' \subseteq 1..born'
        <5>1. c.node \in Nat /\ c.node >= 1 /\ born \in Nat BY <1>2 DEF Inv, NodesInv, Ids
        <5>2. c.node \in 1..born BY <2>7, <5>1
        <5> QED BY <1>1, <3>1, <5>2 DEF Inv, NodesInv
      <4> QED BY <1>1, <2>3, <2>5, <4>1, <4>2 DEF Inv, NodesInv
    <3>5. HealInv'
      <4>1. heal' \in [Ids -> Checks] /\ heal'[i] = d /\ \A k \in Ids \ {i} : heal'[k] = heal[k]
        BY <3>1, <3>2 DEF Inv, HealInv
      <4>2. Met(i) /\ \A k \in Ids : Met(k)' <=> Met(k) BY <1>1, <3>2, <4>1 DEF Met
      <4>3. \A k \in Ids : Met(k) => heal'[k].node = heal[k].node BY <3>2, <4>1
      <4>4. \A k \in Ids : Met(k)' =>
              /\ heal'[k].node <= born'
              /\ \A m \in DOMAIN nodes' : nodes'[m].born = heal'[k].node => m = k
              /\ \A m \in Ids : Met(m)' /\ heal'[m].node = heal'[k].node => m = k
        BY <1>1, <2>3, <2>5, <4>2, <4>3 DEF Inv, HealInv
      <4>5. \A k \in Ids : heal'[k].at = "commit" /\ heal'[k].old = "online" =>
              heal'[k].node \notin healed'
        BY <2>7, <3>1, <3>2, <4>1 DEF Inv, HealInv, Met
      <4> QED BY <4>1, <4>4, <4>5 DEF HealInv
    <3> QED BY <1>1, <2>6, <3>4, <3>5, Untouched DEF Inv
  <2> QED BY <2>8, <2>9
<1> QED BY <1>3, <1>4

\* A restart makes the service run its file, or fails: a file is left alone.
LEMMA RestartNodeKeeps == ASSUME Inv, NEW i \in Ids, RestartNode(i) PROVE Inv'
<1>1. /\ heal[i].at = "restart" /\ heal' = [heal EXCEPT ![i] = Out]
      /\ UNCHANGED <<nodes, protos, born, creds, healed, work, probe, setup, adding>>
  BY DEF RestartNode, net
<1>2. HealInv' BY <1>1, OutKnowsNothing, CheckGoesOn
<1>3. SetupInv'
  <2>1. CASE UNCHANGED machine BY <1>1, <2>1, Untouched
  <2>2. CASE ~ UNCHANGED machine
    <3> DEFINE b == heal[i].node
    <3>1. PICK l \in {machine[b].file, Cut} : machine' = [machine EXCEPT ![b].live = l]
      BY <2>2 DEF RestartNode
    <3>2. b \in Ids
      <4>1. heal[i] \in Checks BY DEF Inv, HealInv
      <4> QED BY <1>1, <4>1 DEF Checks, Out
    <3>3. machine \in [Ids -> [file : 0..MaxCreds, live : 0..Cut]] BY DEF Inv, SetupInv
    <3> HIDE DEF b
    <3>4. /\ machine' \in [Ids -> [file : 0..MaxCreds, live : 0..Cut]]
          /\ \A m \in Ids : /\ machine'[m].file = machine[m].file
                            /\ machine'[m].live \in {machine[m].live, machine[m].file, Cut}
      <4> DEFINE new == [machine[b] EXCEPT !.live = l]
      <4>1. machine[b] \in [file : 0..MaxCreds, live : 0..Cut] BY <3>2, <3>3
      <4>2. l \in 0..Cut BY <3>1, <4>1, Services
      <4>3. /\ new \in [file : 0..MaxCreds, live : 0..Cut]
            /\ new.file = machine[b].file /\ new.live \in {machine[b].file, Cut}
        BY <3>1, <4>1, <4>2
      <4>4. machine' = [machine EXCEPT ![b] = new] BY <3>1
      <4> HIDE DEF new
      <4>5. \A m \in Ids : machine'[m] = IF m = b THEN new ELSE machine[m] BY <3>3, <4>4
      <4> QED BY <3>3, <4>3, <4>4, <4>5
    <3>5. \A j \in Jobs : Started(j) => setup[j].saw.born \in Ids
      BY DEF Inv, SetupInv, Setups, Started, Out, NodeRow
    <3>6. \A j \in Jobs : Started(j) /\ Undisturbed(j) => Undisturbed(j)'
      BY <1>1, <3>4, <3>5 DEF Undisturbed, Started
    <3>7. \A j \in Jobs : Started(j)' /\ setup'[j].alone => Undisturbed(j)'
      BY <1>1, <3>6 DEF Inv, SetupInv, Started
    <3> QED BY <1>1, <3>4, <3>7 DEF Inv, SetupInv
  <2> QED BY <2>1, <2>2
<1> QED BY <1>1, <1>2, <1>3, Untouched DEF Inv

-----------------------------------------------------------------------------
(* Auto-setups.                                                              *)

Config == [file : 0..MaxCreds, live : 0..Cut]
AtWork == [at : Stages, on : Ids, saw : NodeRow, cred : 1..MaxCreds, alone : BOOLEAN]

LEMMA StartedTyped ==
    ASSUME Inv, NEW j \in Jobs, Started(j)
    PROVE  setup[j] \in AtWork /\ setup[j].saw.born \in Ids
<1>1. setup[j] \in Setups BY DEF Inv, SetupInv
<1> QED BY <1>1 DEF Started, Setups, AtWork, Out, NodeRow

\* A stage done: a setup changes its own machine, where no other is alone.
LEMMA SetupGoesOn ==
    ASSUME Inv, NEW j \in Jobs, Started(j), NEW at \in Stages, Goes(j, at),
           machine' \in [Ids -> Config],
           \A m \in Ids \ {setup[j].saw.born} : machine'[m] = machine[m],
           setup[j].alone =>
              /\ at \in {"restart", "commit"} => machine'[setup[j].saw.born].file = setup[j].cred
              /\ at = "commit" => machine'[setup[j].saw.born].live \in {setup[j].cred, Cut}
    PROVE  SetupInv'
<1> DEFINE d == [setup[j] EXCEPT !.at = at]
<1>1. setup[j] \in AtWork /\ setup[j].saw.born \in Ids BY StartedTyped
<1>2. /\ d \in AtWork /\ d.at = at /\ d.saw = setup[j].saw /\ d.cred = setup[j].cred
      /\ d.alone = setup[j].alone
  BY <1>1 DEF AtWork
<1>3. setup' = [setup EXCEPT ![j] = d] BY DEF Goes
<1> HIDE DEF d
<1>4. d \in Setups BY <1>2 DEF AtWork, Setups
<1>5. setup' \in [Jobs -> Setups] /\ setup'[j] = d /\ \A k \in Jobs \ {j} : setup'[k] = setup[k]
  BY <1>3, <1>4 DEF Inv, SetupInv
<1>6. \A k \in Jobs : /\ Started(k)' <=> Started(k)
                      /\ Started(k) => /\ setup'[k].saw = setup[k].saw
                                       /\ setup'[k].alone = setup[k].alone
                                       /\ setup'[k].cred = setup[k].cred
  BY <1>2, <1>5 DEF Started, Stages
<1>7. ASSUME NEW k \in Jobs, Started(k), setup[k].alone PROVE Undisturbed(k)'
  <2>1. Undisturbed(k) BY <1>7 DEF Inv, SetupInv
  <2>2. \A m \in Jobs : Started(m)' /\ setup'[m].saw.born = setup'[k].saw.born => m = k
    BY <1>6, <1>7, <2>1 DEF Undisturbed
  <2>3. CASE k = j BY <1>2, <1>5, <1>7, <2>2, <2>3 DEF Undisturbed
  <2>4. CASE k # j
    <3>1. setup[k].saw.born \in Ids \ {setup[j].saw.born}
      BY <1>7, <2>1, <2>4, StartedTyped DEF Undisturbed
    <3> QED BY <1>5, <2>1, <2>2, <2>4, <3>1 DEF Undisturbed
  <2> QED BY <2>3, <2>4
<1> QED BY <1>5, <1>6, <1>7 DEF SetupInv, Config

LEMMA SetupEnds ==
    ASSUME Inv, NEW j \in Jobs, setup' = [setup EXCEPT ![j] = Out], UNCHANGED machine
    PROVE  SetupInv'
<1>1. setup' \in [Jobs -> Setups] /\ setup'[j] = Out /\ \A k \in Jobs \ {j} : setup'[k] = setup[k]
  BY DEF Inv, SetupInv, Setups
<1>2. \A k \in Jobs : Started(k)' <=> k # j /\ Started(k) BY <1>1 DEF Started, Out
<1>3. \A k \in Jobs : Started(k)' /\ setup'[k].alone => Undisturbed(k)'
  BY <1>1, <1>2 DEF Inv, SetupInv, Undisturbed
<1> QED BY <1>1, <1>3 DEF Inv, SetupInv

LEMMA AutoSetupKeeps == ASSUME Inv, NEW j \in Jobs, NEW i \in Ids, AutoSetup(j, i) PROVE Inv'
<1> DEFINE d == [at |-> "start", on |-> i]
<1>1. /\ Begin /\ setup' = [setup EXCEPT ![j] = d]
      /\ UNCHANGED <<nodes, protos, born, creds, healed, machine, heal, probe, adding>>
  BY DEF AutoSetup, net
<1>2. d \in Setups /\ d.at = "start" BY DEF Setups
<1> HIDE DEF d
<1>3. setup' \in [Jobs -> Setups] /\ setup'[j] = d /\ \A k \in Jobs \ {j} : setup'[k] = setup[k]
  BY <1>1, <1>2 DEF Inv, SetupInv
<1>4. \A k \in Jobs : Started(k)' <=> k # j /\ Started(k) BY <1>2, <1>3 DEF Started
<1>5. \A k \in Jobs : Started(k)' /\ setup'[k].alone => Undisturbed(k)'
  BY <1>1, <1>3, <1>4 DEF Inv, SetupInv, Undisturbed
<1>6. SetupInv' BY <1>1, <1>3, <1>5 DEF Inv, SetupInv
<1>7. CountsInv' BY <1>1, BeginKeeps
<1> QED BY <1>1, <1>6, <1>7, Untouched DEF Inv

\* Who starts beside another makes both count as disturbed.
LEMMA SetupStartsKeeps == ASSUME Inv, NEW j \in Jobs, SetupStarts(j) PROVE Inv'
<1> DEFINE i == setup[j].on
<1>1. setup[j].at = "start" /\ UNCHANGED <<work, nodes, protos, born, healed, machine, heal, probe, adding>>
  BY DEF SetupStarts
<1>2. i \in Ids
  <2>1. setup[j] \in Setups BY DEF Inv, SetupInv
  <2> QED BY <1>1, <2>1 DEF Setups, Out, Stages
<1>3. CASE i \notin DOMAIN nodes
  <2>1. setup' = [setup EXCEPT ![j] = Out] /\ UNCHANGED creds BY <1>3 DEF SetupStarts
  <2> QED BY <1>1, <2>1, SetupEnds, Untouched DEF Inv
<1>4. CASE i \in DOMAIN nodes
  <2> DEFINE b == nodes[i].born
             d == [at |-> "install", on |-> i, saw |-> nodes[i], cred |-> creds + 1,
                   alone |-> Near(b) = {}]
  <2>1. /\ creds < MaxCreds /\ creds' = creds + 1
        /\ setup' = [k \in Jobs |-> IF k = j THEN d
                       ELSE IF k \in Near(b) THEN [setup[k] EXCEPT !.alone = FALSE] ELSE setup[k]]
    BY <1>4 DEF SetupStarts
  <2>2. creds \in Nat /\ creds + 1 \in 1..MaxCreds /\ creds + 1 \in 0..MaxCreds
    BY <2>1, Bounds DEF Inv, CountsInv
  <2>3. nodes[i] \in NodeRow BY <1>4 DEF Inv, NodesInv
  <2>4. d \in AtWork /\ d.at = "install" /\ d.saw.born = b /\ (d.alone => Near(b) = {})
    BY <1>2, <2>2, <2>3 DEF AtWork, Stages
  <2>5. Near(b) = {k \in Jobs : Started(k) /\ setup[k].saw.born = b} BY DEF Near, Started
  <2>6. ~Started(j) /\ j \notin Near(b) BY <1>1, <2>5 DEF Started
  <2> HIDE DEF d, b
  <2>7. ASSUME NEW k \in Near(b)
        PROVE  /\ k \in Jobs /\ setup'[k] \in AtWork /\ setup'[k].at = setup[k].at
               /\ setup'[k].saw = setup[k].saw /\ setup'[k].alone = FALSE
    <3>1. k \in Jobs /\ k # j /\ setup[k] \in AtWork BY <2>5, <2>6, StartedTyped
    <3>2. setup'[k] = [setup[k] EXCEPT !.alone = FALSE] BY <2>1, <3>1
    <3> QED BY <3>1, <3>2 DEF AtWork
  <2>8. setup'[j] = d /\ \A k \in Jobs \ ({j} \union Near(b)) : setup'[k] = setup[k] BY <2>1
  <2>9. setup' \in [Jobs -> Setups]
    <3>1. \A k \in Jobs : setup'[k] \in Setups
      BY <2>4, <2>7, <2>8 DEF Inv, SetupInv, Setups, AtWork
    <3>2. setup' = [k \in Jobs |-> setup'[k]] BY <2>1
    <3> QED BY <3>1, <3>2
  <2>10. \A k \in Jobs : /\ Started(k)' <=> k = j \/ Started(k)
                         /\ Started(k) => setup'[k].saw = setup[k].saw
    BY <2>4, <2>6, <2>7, <2>8 DEF Started
  <2>11. ASSUME NEW k \in Jobs, Started(k)', setup'[k].alone PROVE Undisturbed(k)'
    <3>1. CASE k = j
      <4>1. Near(b) = {} BY <2>4, <2>8, <2>11, <3>1
      <4>2. \A m \in Jobs : Started(m)' /\ setup'[m].saw.born = b => m = j
        BY <2>5, <2>10, <4>1
      <4> QED BY <2>4, <2>8, <3>1, <4>2 DEF Undisturbed
    <3>2. CASE k # j
      <4>1. k \notin Near(b) BY <2>7, <2>11
      <4>2. setup'[k] = setup[k] /\ Started(k) /\ setup[k].saw.born # b
        BY <2>5, <2>8, <2>10, <2>11, <3>2, <4>1
      <4>3. Undisturbed(k) BY <2>11, <4>2 DEF Inv, SetupInv
      <4>4. \A m \in Jobs : Started(m)' /\ setup'[m].saw.born = setup'[k].saw.born => m = k
        BY <2>4, <2>8, <2>10, <4>2, <4>3 DEF Undisturbed
      <4> QED BY <1>1, <4>2, <4>3, <4>4 DEF Undisturbed
    <3> QED BY <3>1, <3>2
  <2>12. SetupInv' BY <1>1, <2>9, <2>11 DEF Inv, SetupInv
  <2>13. CountsInv' BY <1>1, <2>1, <2>2 DEF Inv, CountsInv
  <2> QED BY <1>1, <2>12, <2>13, Untouched DEF Inv
<1> QED BY <1>3, <1>4

\* A machine set, and the others as they were.
LEMMA SetsOne ==
    ASSUME Inv, NEW j \in Jobs, Started(j), NEW f \in 0..MaxCreds, NEW l \in 0..Cut,
           Sets(j, f, l)
    PROVE  /\ machine' \in [Ids -> Config]
           /\ machine'[setup[j].saw.born].file = f /\ machine'[setup[j].saw.born].live = l
           /\ \A m \in Ids \ {setup[j].saw.born} : machine'[m] = machine[m]
<1>1. setup[j].saw.born \in Ids BY StartedTyped
<1>2. machine \in [Ids -> Config] BY DEF Inv, SetupInv, Config
<1> QED BY <1>1, <1>2 DEF Sets, Config

LEMMA OwnMachine ==
    ASSUME Inv, NEW j \in Jobs, Started(j)
    PROVE  /\ machine \in [Ids -> Config]
           /\ machine[setup[j].saw.born].file \in 0..MaxCreds
           /\ machine[setup[j].saw.born].live \in 0..Cut
           /\ setup[j].cred \in 0..MaxCreds
           /\ setup[j].alone => Undisturbed(j)
<1>1. setup[j] \in AtWork /\ setup[j].saw.born \in Ids BY StartedTyped
<1>2. machine \in [Ids -> Config] BY DEF Inv, SetupInv, Config
<1>3. setup[j].cred \in 0..MaxCreds BY <1>1, Bounds DEF AtWork
<1> QED BY <1>1, <1>2, <1>3 DEF Inv, SetupInv, Config

LEMMA InstallKeeps == ASSUME Inv, NEW j \in Jobs, Install(j) PROVE Inv'
<1>1. /\ setup[j].at = "install" /\ Goes(j, "write")
      /\ UNCHANGED <<nodes, protos, born, creds, healed, work, machine, heal, probe, adding>>
  BY DEF Install, Quiet, net
<1>2. Started(j) BY <1>1 DEF Started
<1>3. SetupInv' BY <1>1, <1>2, OwnMachine, SetupGoesOn DEF Stages
<1> QED BY <1>1, <1>3, Untouched DEF Inv

LEMMA WriteConfigKeeps == ASSUME Inv, NEW j \in Jobs, WriteConfig(j) PROVE Inv'
<1> DEFINE b == setup[j].saw.born
<1>1. /\ setup[j].at = "write" /\ Goes(j, "restart") /\ Sets(j, setup[j].cred, machine[b].live)
      /\ UNCHANGED <<nodes, protos, born, creds, healed, work, heal, probe, adding>>
  BY DEF WriteConfig, Quiet, net
<1>2. Started(j) BY <1>1 DEF Started
<1>3. /\ machine' \in [Ids -> Config] /\ machine'[b].file = setup[j].cred
      /\ \A m \in Ids \ {b} : machine'[m] = machine[m]
  <2>1. setup[j].cred \in 0..MaxCreds /\ machine[b].live \in 0..Cut BY <1>2, OwnMachine
  <2> QED BY <1>1, <1>2, <2>1, SetsOne
<1>4. SetupInv' BY <1>1, <1>2, <1>3, SetupGoesOn DEF Stages
<1> QED BY <1>1, <1>4, Untouched DEF Inv

LEMMA StartServiceKeeps == ASSUME Inv, NEW j \in Jobs, StartService(j) PROVE Inv'
<1> DEFINE b == setup[j].saw.born
<1>1. /\ setup[j].at = "restart" /\ Goes(j, "commit") /\ Sets(j, machine[b].file, machine[b].file)
      /\ UNCHANGED <<nodes, protos, born, creds, healed, work, heal, probe, adding>>
  BY DEF StartService, Quiet, net
<1>2. Started(j) BY <1>1 DEF Started
<1>3. /\ machine' \in [Ids -> Config]
      /\ machine'[b].file = machine[b].file /\ machine'[b].live = machine[b].file
      /\ \A m \in Ids \ {b} : machine'[m] = machine[m]
  <2>1. machine[b].file \in 0..MaxCreds /\ machine[b].file \in 0..Cut
    BY <1>2, OwnMachine, Services
  <2> QED BY <1>1, <1>2, <2>1, SetsOne
<1>4. setup[j].alone => machine[b].file = setup[j].cred
  BY <1>1, <1>2, OwnMachine DEF Undisturbed
<1>5. SetupInv' BY <1>1, <1>2, <1>3, <1>4, SetupGoesOn DEF Stages
<1> QED BY <1>1, <1>5, Untouched DEF Inv

\* The effect of a failed step stays on the machine of its setup.
LEMMA SetupFailsKeeps == ASSUME Inv, NEW j \in Jobs, SetupFails(j) PROVE Inv'
<1> DEFINE b == setup[j].saw.born
<1>1. /\ Goes(j, "fail")
      /\ UNCHANGED <<nodes, protos, born, creds, healed, work, heal, probe, adding>>
  BY DEF SetupFails, AfterFailure, Quiet, net
<1>2. Started(j) BY DEF SetupFails, Working, Started
<1>3. 0 \in 0..MaxCreds BY Bounds
<1>4. machine' \in [Ids -> Config] /\ \A m \in Ids \ {b} : machine'[m] = machine[m]
  <2>1. CASE UNCHANGED machine BY <1>2, <2>1, OwnMachine
  <2>2. /\ machine[b].file \in 0..MaxCreds /\ machine[b].live \in 0..Cut
        /\ setup[j].cred \in 0..MaxCreds
    BY <1>2, OwnMachine
  <2>3. ASSUME NEW f \in {Other, setup[j].cred}, Sets(j, f, machine[b].live)
        PROVE  machine' \in [Ids -> Config] /\ \A m \in Ids \ {b} : machine'[m] = machine[m]
    <3>1. f \in 0..MaxCreds BY <1>3, <2>2 DEF Other
    <3> QED BY <1>2, <2>2, <2>3, <3>1, SetsOne
  <2>4. ASSUME NEW l \in {Other, machine[b].file}, Sets(j, machine[b].file, l)
        PROVE  machine' \in [Ids -> Config] /\ \A m \in Ids \ {b} : machine'[m] = machine[m]
    <3>1. l \in 0..Cut BY <2>2, Services DEF Other
    <3> QED BY <1>2, <2>2, <2>4, <3>1, SetsOne
  <2> QED BY <2>1, <2>3, <2>4 DEF SetupFails
<1>5. SetupInv' BY <1>1, <1>2, <1>4, SetupGoesOn DEF Stages
<1> QED BY <1>1, <1>5, Untouched DEF Inv

\* The end of a setup stores a status and a metadata over its node, if that is there.
LEMMA UpdatesOne ==
    ASSUME Inv, NEW j \in Jobs, Started(j), NEW new, new.status \in Statuses,
           new.meta \in {"none", "applied", "failed"}, nodes' = UpdatedBy(setup[j], new), UNCHANGED born
    PROVE  /\ Restatus(DOMAIN nodes \intersect {setup[j].on})
           /\ \A i \in DOMAIN nodes : nodes'[i].status \in {nodes[i].status, new.status}
<1> DEFINE i == setup[j].on
           s == Stored(nodes[i].status, setup[j].saw.status, new.status)
           m == Stored(nodes[i].meta, setup[j].saw.meta, new.meta)
           row == [nodes[i] EXCEPT !.status = s, !.meta = m]
<1>1. CASE i \notin DOMAIN nodes
  <2>1. nodes' = nodes BY <1>1 DEF UpdatedBy
  <2> QED BY <2>1 DEF Restatus, Inv, NodesInv
<1>2. CASE i \in DOMAIN nodes
  <2>1. nodes[i] \in NodeRow BY <1>2 DEF Inv, NodesInv
  <2>2. s \in {nodes[i].status, new.status} /\ m \in {nodes[i].meta, new.meta} BY DEF Stored
  <2>3. s \in Statuses /\ m \in {"none", "applied", "failed"}
    BY <2>1, <2>2 DEF NodeRow, Statuses
  <2>4. DOMAIN nodes' = DOMAIN nodes /\ \A k \in DOMAIN nodes \ {i} : nodes'[k] = nodes[k]
    BY <1>2 DEF UpdatedBy
  <2>5. nodes'[i] = row BY <1>2, <2>1 DEF UpdatedBy, NodeRow
  <2> HIDE DEF s, m
  <2>6. row \in NodeRow /\ row.born = nodes[i].born /\ row.status = s
    BY <2>1, <2>3 DEF NodeRow, Statuses
  <2> HIDE DEF row, i
  <2>7. \A k \in DOMAIN nodes : nodes'[k] \in NodeRow /\ nodes'[k].born = nodes[k].born
    BY <1>2, <2>4, <2>5, <2>6 DEF Inv, NodesInv
  <2>8. \A k \in DOMAIN nodes \ (DOMAIN nodes \intersect {i}) : nodes'[k].status = nodes[k].status
    BY <2>4
  <2>9. \A k \in DOMAIN nodes : nodes'[k].status \in {nodes[k].status, new.status}
    BY <2>2, <2>4, <2>5, <2>6
  <2> QED BY <2>4, <2>7, <2>8, <2>9 DEF Restatus, i
<1> QED BY <1>1, <1>2

LEMMA SetupCommitsKeeps == ASSUME Inv, NEW j \in Jobs, SetupCommits(j) PROVE Inv'
<1> DEFINE c == setup[j]
           new == [c.saw EXCEPT !.status = "online", !.meta = "applied"]
<1>1. /\ c.at = "commit" /\ setup' = [setup EXCEPT ![j] = Out]
      /\ UNCHANGED <<work, born, creds, machine, heal, probe, adding>>
  BY DEF SetupCommits
<1>2. Started(j) BY <1>1 DEF Started
<1>3. SetupInv' BY <1>1, SetupEnds
<1>4. CASE UNCHANGED <<nodes, protos, healed>> BY <1>1, <1>3, <1>4, Untouched DEF Inv
<1>5. CASE ~ UNCHANGED <<nodes, protos, healed>>
  <2>1. /\ protos' = protos \union {Row(c.on, c.saw, c.cred, c.alone)}
        /\ nodes' = UpdatedBy(c, new)
        /\ healed' = Recovered(DOMAIN nodes \intersect {c.on})
    BY <1>5 DEF SetupCommits
  <2>2. c \in AtWork BY <1>2, StartedTyped
  <2>3. new.status \in Statuses /\ new.meta \in {"none", "applied", "failed"}
    BY <2>2 DEF AtWork, NodeRow, Statuses
  <2>4. c.on \in Ids /\ c.saw \in NodeRow /\ c.cred \in 1..MaxCreds /\ c.alone \in BOOLEAN
    BY <2>2 DEF AtWork
  <2> HIDE DEF new
  <2>5. Restatus(DOMAIN nodes \intersect {c.on}) BY <1>1, <1>2, <2>1, <2>3, UpdatesOne
  <2>6. NodesInv' /\ healed' \subseteq healed BY <2>1, <2>5, RecoveredNodes DEF Inv
  <2>7. Evolve /\ \A k \in DOMAIN nodes : nodes'[k].born = nodes[k].born
    BY <2>5, RestatusEvolves DEF Inv
  <2>8. HealInv' BY <1>1, <2>6, <2>7, HealLasts DEF Inv
  <2>9. ProtosInv'
    <3>1. DOMAIN nodes' = DOMAIN nodes BY <2>5 DEF Restatus
    <3> HIDE DEF c
    <3> QED BY <2>1, <2>4, <2>7, <3>1, RowStored DEF Inv
  <2> QED BY <1>1, <1>3, <2>6, <2>8, <2>9, Untouched DEF Inv
<1> QED BY <1>4, <1>5

LEMMA SetupGivesUpKeeps == ASSUME Inv, NEW j \in Jobs, SetupGivesUp(j) PROVE Inv'
<1> DEFINE c == setup[j]
           new == [c.saw EXCEPT !.status = "error", !.meta = "failed"]
<1>1. /\ c.at = "fail" /\ setup' = [setup EXCEPT ![j] = Out] /\ nodes' = UpdatedBy(c, new)
      /\ UNCHANGED <<work, protos, born, creds, healed, machine, heal, probe, adding>>
  BY DEF SetupGivesUp
<1>2. Started(j) BY <1>1 DEF Started
<1>3. SetupInv' BY <1>1, SetupEnds
<1>4. c \in AtWork BY <1>2, StartedTyped
<1>5. new.status = "error" /\ new.meta = "failed" BY <1>4 DEF AtWork, NodeRow
<1> HIDE DEF new
<1>6. /\ Restatus(DOMAIN nodes \intersect {c.on})
      /\ \A i \in DOMAIN nodes : nodes'[i].status \in {nodes[i].status, "error"}
  <2>1. new.status \in Statuses /\ new.meta \in {"none", "applied", "failed"}
    BY <1>5 DEF Statuses
  <2>2. nodes' = UpdatedBy(setup[j], new) /\ UNCHANGED born BY <1>1
  <2>3. /\ Restatus(DOMAIN nodes \intersect {setup[j].on})
        /\ \A i \in DOMAIN nodes : nodes'[i].status \in {nodes[i].status, new.status}
    BY <1>2, <2>1, <2>2, UpdatesOne
  <2> QED BY <1>5, <2>3
<1>7. Evolve /\ \A k \in DOMAIN nodes : nodes'[k].born = nodes[k].born
  BY <1>6, RestatusEvolves DEF Inv
<1>8. NodesInv'
  <2>1. \A i \in DOMAIN nodes : nodes'[i].status = "online" => nodes[i].born \notin healed
    BY <1>6 DEF Inv, NodesInv
  <2> QED BY <1>1, <1>6, <2>1 DEF Inv, NodesInv, Restatus
<1>9. HealInv' BY <1>1, <1>7, HealLasts DEF Inv
<1>10. ProtosInv' BY <1>1, <1>6, <1>7, ProtosLast DEF Inv, Restatus
<1> QED BY <1>1, <1>3, <1>8, <1>9, <1>10, Untouched DEF Inv

-----------------------------------------------------------------------------
(* The theorems.                                                             *)

LEMMA InvStep == Inv /\ [Next]_vars => Inv'
<1> SUFFICES ASSUME Inv, [Next]_vars PROVE Inv' OBVIOUS
<1>1. CASE UNCHANGED vars BY <1>1, Untouched DEF vars, net, Inv
<1>2. CASE Rests BY <1>2, Untouched DEF Rests, vars, net, Inv
<1>3. CASE Begins
  BY <1>3, StartCycleKeeps, ProbeKeeps, FindNodeKeeps, AutoSetupKeeps DEF Begins
<1>4. CASE Proceeds
  <2>1. ASSUME NEW i \in Ids, Heal(i) PROVE Inv'
    BY <2>1, CheckUrlKeeps, ReadStatusKeeps, StoreStatusKeeps, RestartNodeKeeps DEF Heal
  <2>2. ASSUME NEW j \in Jobs, Setup(j) PROVE Inv'
    BY <2>2, SetupStartsKeeps, InstallKeeps, WriteConfigKeeps, StartServiceKeeps, SetupFailsKeeps,
       SetupCommitsKeeps, SetupGivesUpKeeps DEF Setup
  <2> QED BY <1>4, <2>1, <2>2, CreateNodeKeeps, CreateProtocolKeeps, ProbeCommitKeeps,
             DeleteNodeKeeps, AskKeeps, DeleteProtocolKeeps DEF Proceeds
<1> QED BY <1>1, <1>2, <1>3, <1>4 DEF Next

LEMMA InvHolds == Spec => []Inv
BY Starts, InvStep, PTL DEF Spec

\* Rows name nodes and configurations that exist, and machines run nothing else.
THEOREM FleetTyped == Spec => []TypeOK
BY InvTyped, InvHolds, PTL

\* A protocol stored in time has the node it was made for.
THEOREM ProtocolsHaveTheirNode == Spec => []StrayOnlyLate
<1>1. Inv => StrayOnlyLate BY DEF Inv, ProtosInv
<1> QED BY <1>1, InvHolds, PTL

\* What a setup alone on its machine stores is in the machine's file, and in its service
\* unless a restart by the cycle failed since the setup started it.
THEOREM RunsWhatIsStored == Spec => StoredIsRunning
<1>1. ASSUME Inv, NEW j \in Jobs, SetupCommits(j), setup[j].alone
      PROVE  /\ machine[setup[j].saw.born].file = setup[j].cred
             /\ machine[setup[j].saw.born].live \in {setup[j].cred, Cut}
  <2>1. setup[j].at = "commit" BY <1>1 DEF SetupCommits
  <2> QED BY <1>1, <2>1 DEF Inv, SetupInv, Started, Undisturbed
<1>2. Inv /\ [Next]_vars =>
        [\A j \in Jobs : SetupCommits(j) /\ setup[j].alone =>
            LET m == machine[setup[j].saw.born] IN
            m.file = setup[j].cred /\ m.live \in {setup[j].cred, Cut}]_vars
  BY <1>1
<1> QED BY <1>2, InvHolds, PTL DEF Spec, StoredIsRunning

\* Who is restarted was stored as online since the restart before.
THEOREM RestartedOnce == Spec => OneRestartPerOutage
<1>1. ASSUME Inv, NEW i \in Ids, StoreStatus(i), heal'[i].at = "restart"
      PROVE  heal[i].node \notin healed
  <2>1. heal[i].at = "commit" BY <1>1 DEF StoreStatus
  <2>2. heal'[i] = Out => FALSE BY <1>1, OutKnowsNothing
  <2>3. heal' # [heal EXCEPT ![i] = Out] BY <1>1, <2>2 DEF Inv, HealInv
  <2>4. WentOffline(heal[i]) BY <1>1, <2>3 DEF StoreStatus
  <2> QED BY <1>1, <2>1, <2>4 DEF WentOffline, Inv, HealInv
<1>2. Inv /\ [Next]_vars =>
        [\A i \in Ids : StoreStatus(i) /\ heal'[i].at = "restart" => heal[i].node \notin healed]_vars
  BY <1>1
<1> QED BY <1>2, InvHolds, PTL DEF Spec, OneRestartPerOutage
==============================================================================
