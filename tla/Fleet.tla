-------------------------------- MODULE Fleet --------------------------------
(* Remote nodes and what works on them at the same time: the routes and      *)
(* background jobs of backend/app/api/nodes.py, the creation and deletion of *)
(* protocols for such a node (backend/app/api/protocols.py) and the cycle of *)
(* backend/app/core/self_heal.py.                                            *)
(*                                                                           *)
(* A row is read in one step and committed in a later one; the mapper writes *)
(* the columns that differ from what was read and raises, rolling back, when *)
(* the row is gone.  Ids come back after a deletion, so a node is known by   *)
(* born, and its machine with it.  A failed SSH command has had its effect,  *)
(* part of it or none.  The local node is left to modules Setup and          *)
(* ConfigApply; latency, traffic, the event log and the systemd units of the *)
(* panel's own host are left out.                                            *)
EXTENDS Naturals, FiniteSets, FiniteSetsExt

CONSTANTS
    Jobs,        \* auto-setups
    Keyed,       \* the nodes, by born, created with an ssh_key
    MaxNodes,    \* bound: nodes ever created
    MaxCreds,    \* bound: configurations ever generated, one for a protocol row
    MaxWork      \* bound: cycles, checks, setups and creations of protocols begun

ASSUME FleetAssumption == /\ {MaxNodes, MaxCreds, MaxWork} \subseteq Nat
                          /\ IsFiniteSet(Jobs) /\ Keyed \subseteq 1..MaxNodes

VARIABLES
    nodes,       \* id -> row
    protos,      \* the rows of protocols; for, alone and late are history
    machine,     \* born -> the configuration in its file and in its service
    heal,        \* id -> the check that the self-healing cycle has under way
    probe,       \* the check that a route has under way
    setup,       \* the auto-setups
    adding,      \* a POST /api/protocols under way
    born, creds, work,  \* the bounded counters
    healed       \* history: restart decided, no "online" stored since

net == <<nodes, protos, born, creds, healed>>
vars == <<net, work, machine, heal, probe, setup, adding>>

Ids == 1..MaxNodes
Other == 0       \* any configuration but the panel's, none and a torn one too
Cut == MaxCreds + 1  \* of a service: whatever a restart by the cycle that failed left of it
Out == [at |-> "out"]
Begin == work < MaxWork /\ work' = work + 1
NextId == IF DOMAIN nodes = {} THEN 1 ELSE Max(DOMAIN nodes) + 1

Init == /\ nodes = << >> /\ protos = {}
        /\ machine = [b \in Ids |-> [file |-> Other, live |-> Other]]
        /\ heal = [i \in Ids |-> Out] /\ probe = Out /\ setup = [j \in Jobs |-> Out] /\ adding = Out
        /\ born = 0 /\ creds = 0 /\ work = 0 /\ healed = {}

\* What UPDATE leaves in a column that was read as old and set to new.
Stored(current, old, new) == IF new = old THEN current ELSE new
\* Who was restarted and is stored as online again may be restarted again.
Recovered(S) == healed \ {nodes[i].born : i \in
                    {k \in S : nodes'[k].status = "online" /\ nodes[k].status # "online"}}

-----------------------------------------------------------------------------
(* create_node, delete_node, create_protocol, delete_protocol.               *)

CreateNode ==
    /\ born < MaxNodes /\ born' = born + 1
    /\ nodes' = [j \in DOMAIN nodes \union {NextId} |-> IF j \in DOMAIN nodes THEN nodes[j]
                    ELSE [born |-> born', status |-> "unknown", meta |-> "none"]]
    /\ UNCHANGED <<work, protos, machine, heal, probe, setup, adding, creds, healed>>

\* Mutant: the protocols are left to a cascade that is not enforced.
DeleteNodeAlone(i) ==
    /\ i \in DOMAIN nodes /\ nodes' = [j \in DOMAIN nodes \ {i} |-> nodes[j]]
    /\ UNCHANGED <<work, protos, machine, heal, probe, setup, adding, born, creds, healed>>

DeleteNode(i) ==
    /\ i \in DOMAIN nodes /\ nodes' = [j \in DOMAIN nodes \ {i} |-> nodes[j]]
    /\ protos' = {p \in protos : p.node # i}
    /\ UNCHANGED <<work, machine, heal, probe, setup, adding, born, creds, healed>>

Row(i, saw, cred, alone) ==
    [node |-> i, for |-> saw.born, cred |-> cred, alone |-> alone,
     late |-> i \notin DOMAIN nodes \/ nodes[i].born # saw.born]

FindNode(i) == /\ Begin /\ adding = Out /\ i \in DOMAIN nodes
               /\ adding' = [at |-> "insert", on |-> i, saw |-> nodes[i]]
               /\ UNCHANGED <<net, machine, heal, probe, setup>>

CreateProtocol == /\ adding.at = "insert" /\ creds < MaxCreds /\ creds' = creds + 1
                  /\ protos' = protos \union {Row(adding.on, adding.saw, creds', FALSE)}
                  /\ adding' = Out
                  /\ UNCHANGED <<work, nodes, born, healed, machine, heal, probe, setup>>

DeleteProtocol(p) == /\ p \in protos /\ protos' = protos \ {p}
                     /\ UNCHANGED <<work, nodes, born, creds, healed, machine, heal, probe, setup, adding>>

-----------------------------------------------------------------------------
(* check_node and _check_nodes_bg: one node, or those of a list in turn, and *)
(* one commit for all.  They ask the node.                                   *)

Probe(ids) == /\ Begin /\ probe = Out /\ ids # {} /\ probe' = [at |-> "asking", todo |-> ids, seen |-> << >>]
              /\ UNCHANGED <<net, machine, heal, setup, adding>>

Ask(i) == /\ probe.at = "asking" /\ i \in probe.todo /\ \A k \in probe.todo : i <= k
          /\ \E s \in {"online", "offline"} :
               probe' = [probe EXCEPT !.todo = @ \ {i},
                 !.seen = IF i \notin DOMAIN nodes THEN @
                          ELSE [k \in DOMAIN @ \union {i} |->
                                 IF k = i THEN [old |-> nodes[i].status, new |-> s] ELSE @[k]]]
          /\ UNCHANGED <<work, net, machine, heal, setup, adding>>

ProbeCommit ==
    /\ probe.at = "asking" /\ probe.todo = {} /\ probe' = Out
    /\ IF DOMAIN probe.seen \subseteq DOMAIN nodes
       THEN /\ nodes' = [i \in DOMAIN nodes |-> IF i \notin DOMAIN probe.seen THEN nodes[i] ELSE
                   [nodes[i] EXCEPT !.status = Stored(@, probe.seen[i].old, probe.seen[i].new)]]
            /\ healed' = Recovered(DOMAIN probe.seen)
       ELSE UNCHANGED <<nodes, healed>>
    /\ UNCHANGED <<work, protos, born, creds, machine, heal, setup, adding>>

-----------------------------------------------------------------------------
(* SelfHealService: one cycle at a time, the checks of a cycle side by side. *)

StartCycle == /\ Begin /\ \A i \in Ids : heal[i] = Out
              /\ heal' = [i \in Ids |-> IF i \in DOMAIN nodes THEN [at |-> "get"] ELSE Out]
              /\ UNCHANGED <<net, machine, probe, setup, adding>>

\* HEALTH_CHECK_URL is asked, an address of its own: it may be out of reach, up or
\* not the node is.
CheckUrl(i) ==
    /\ heal[i].at = "get"
    /\ \/ heal' = [heal EXCEPT ![i] = [at |-> "read", new |-> "online", up |-> TRUE]]
       \/ \E up \in BOOLEAN : heal' = [heal EXCEPT ![i] = [at |-> "read", new |-> "offline", up |-> up]]
    /\ UNCHANGED <<work, net, machine, probe, setup, adding>>

ReadStatus(i) ==
    /\ heal[i].at = "read"
    /\ heal' = [heal EXCEPT ![i] = IF i \notin DOMAIN nodes THEN Out
         ELSE [at |-> "commit", new |-> @.new, up |-> @.up, old |-> nodes[i].status, node |-> nodes[i].born]]
    /\ UNCHANGED <<work, net, machine, probe, setup, adding>>

\* Mutant: whoever is offline is restarted, in every cycle.
WentOfflineNow(c) == c.new = "offline"

WentOffline(c) == c.old = "online" /\ c.new = "offline"

\* A row gone raises: the gather takes note of it and nobody is restarted.
StoreStatus(i) == LET c == heal[i] IN
    /\ c.at = "commit"
    /\ IF i \notin DOMAIN nodes THEN heal' = [heal EXCEPT ![i] = Out] /\ UNCHANGED <<nodes, healed>>
       ELSE /\ nodes' = [nodes EXCEPT ![i].status = Stored(@, c.old, c.new)]
            /\ IF WentOffline(c)
               THEN /\ healed' = healed \union {c.node}
                    /\ heal' = [heal EXCEPT ![i] = [at |-> "restart", up |-> c.up, node |-> c.node]]
               ELSE healed' = Recovered({i}) /\ heal' = [heal EXCEPT ![i] = Out]
    /\ UNCHANGED <<work, protos, born, creds, machine, probe, setup, adding>>

\* Over SSH, with a key, what is active is restarted and reads its file again.  No exit
\* status is looked at and every exception is caught, so nobody notices a restart that
\* stopped the service and did not start it.
RestartNode(i) ==
    /\ heal[i].at = "restart" /\ heal' = [heal EXCEPT ![i] = Out]
    /\ \/ UNCHANGED machine
       \/ LET b == heal[i].node IN
          b \in Keyed /\ \E l \in {machine[b].file, Cut} : machine' = [machine EXCEPT ![b].live = l]
    /\ UNCHANGED <<work, net, probe, setup, adding>>

Heal(i) == CheckUrl(i) \/ ReadStatus(i) \/ StoreStatus(i) \/ RestartNode(i)

-----------------------------------------------------------------------------
(* auto_setup and _auto_setup_bg, for Shadowsocks.                           *)

AutoSetup(j, i) == /\ Begin /\ setup[j] = Out /\ i \in DOMAIN nodes /\ nodes[i].born \in Keyed
                   /\ setup' = [setup EXCEPT ![j] = [at |-> "start", on |-> i]]
                   /\ UNCHANGED <<net, machine, heal, probe, adding>>

Working == {j \in Jobs : setup[j].at \in {"install", "write", "restart"}}
Near(b) == {j \in Jobs : setup[j].at \notin {"out", "start"} /\ setup[j].saw.born = b}

\* The background task reads the row again, and generates the configuration.
SetupStarts(j) == LET i == setup[j].on IN
    /\ setup[j].at = "start"
    /\ IF i \notin DOMAIN nodes THEN setup' = [setup EXCEPT ![j] = Out] /\ UNCHANGED creds
       ELSE /\ creds < MaxCreds /\ creds' = creds + 1
            /\ setup' = [k \in Jobs |->
                 IF k = j THEN [at |-> "install", on |-> i, saw |-> nodes[i], cred |-> creds',
                                alone |-> Near(nodes[i].born) = {}]
                 ELSE IF k \in Near(nodes[i].born) THEN [setup[k] EXCEPT !.alone = FALSE] ELSE setup[k]]
    /\ UNCHANGED <<work, nodes, protos, born, healed, machine, heal, probe, adding>>

Goes(j, at) == setup' = [setup EXCEPT ![j].at = at]
Sets(j, file, live) == machine' = [machine EXCEPT ![setup[j].saw.born] = [file |-> file, live |-> live]]
Quiet == UNCHANGED <<work, net, heal, probe, adding>>

\* The connection and the package, which leave a configuration alone.
Install(j) == /\ setup[j].at = "install" /\ setup[j].saw.born \in Keyed
              /\ Goes(j, "write") /\ UNCHANGED machine /\ Quiet
WriteConfig(j) == /\ setup[j].at = "write" /\ Goes(j, "restart") /\ Quiet
                  /\ Sets(j, setup[j].cred, machine[setup[j].saw.born].live)

\* Enabled, restarted and active: a torn file would not have started.
StartService(j) == LET m == machine[setup[j].saw.born] IN
    /\ setup[j].at = "restart" /\ m.file # Other /\ Goes(j, "commit") /\ Quiet
    /\ Sets(j, m.file, m.file)

\* Mutant: the exit status of the commands is not looked at.
NextAnyhow(j) == IF setup[j].at = "install" THEN "write" ELSE IF setup[j].at = "write" THEN "restart" ELSE "commit"

\* A step that fails leads to the handler of the exception.
AfterFailure(j) == "fail"

SetupFails(j) ==
    /\ j \in Working /\ Goes(j, AfterFailure(j)) /\ Quiet
    /\ LET m == machine[setup[j].saw.born] IN
       \/ UNCHANGED machine
       \/ setup[j].at = "write" /\ \E f \in {Other, setup[j].cred} : Sets(j, f, m.live)
       \/ setup[j].at = "restart" /\ \E l \in {Other, m.file} : Sets(j, m.file, l)

\* Mutant: the status is given what is meant for the metadata.
UpdatedBySwapped(c, new) == IF c.on \notin DOMAIN nodes THEN nodes ELSE
    [nodes EXCEPT ![c.on].status = Stored(@, c.saw.status, new.meta)]

UpdatedBy(c, new) == IF c.on \notin DOMAIN nodes THEN nodes ELSE
    [nodes EXCEPT ![c.on].status = Stored(@, c.saw.status, new.status),
                  ![c.on].meta = Stored(@, c.saw.meta, new.meta)]
Writes(j, new) == new.status # setup[j].saw.status \/ new.meta # setup[j].saw.meta

\* One commit for row and node.  With a node to update and the row gone it raises,
\* and the handler finds its node expired; with nothing to update nobody notices.
SetupCommits(j) ==
    LET c == setup[j]   new == [c.saw EXCEPT !.status = "online", !.meta = "applied"] IN
    /\ c.at = "commit" /\ setup' = [setup EXCEPT ![j] = Out]
    /\ IF Writes(j, new) /\ c.on \notin DOMAIN nodes THEN UNCHANGED <<nodes, protos, healed>>
       ELSE /\ protos' = protos \union {Row(c.on, c.saw, c.cred, c.alone)}
            /\ nodes' = UpdatedBy(c, new)
            /\ healed' = Recovered(DOMAIN nodes \intersect {c.on})
    /\ UNCHANGED <<work, born, creds, machine, heal, probe, adding>>

SetupGivesUp(j) ==
    LET c == setup[j]   new == [c.saw EXCEPT !.status = "error", !.meta = "failed"] IN
    /\ c.at = "fail" /\ setup' = [setup EXCEPT ![j] = Out]
    /\ nodes' = UpdatedBy(c, new)
    /\ UNCHANGED <<work, protos, born, creds, healed, machine, heal, probe, adding>>

Setup(j) == \/ SetupStarts(j) \/ Install(j) \/ WriteConfig(j) \/ StartService(j)
            \/ SetupFails(j) \/ SetupCommits(j) \/ SetupGivesUp(j)

Begins == \/ StartCycle \/ Probe(DOMAIN nodes)
          \/ \E i \in Ids : FindNode(i) \/ Probe({i}) \/ \E j \in Jobs : AutoSetup(j, i)

Proceeds == \/ CreateNode \/ CreateProtocol \/ ProbeCommit
            \/ \E i \in Ids : DeleteNode(i) \/ Ask(i) \/ Heal(i)
            \/ \E p \in protos : DeleteProtocol(p)
            \/ \E j \in Jobs : Setup(j)

\* The bounds are reached: only jobs that would need another configuration are left.
Rests == /\ work = MaxWork /\ heal = [i \in Ids |-> Out] /\ probe = Out
         /\ \A j \in Jobs : setup[j].at \in {"out", "start"}
         /\ UNCHANGED vars

Next == Begins \/ Proceeds \/ Rests

Spec == Init /\ [][Next]_vars

-----------------------------------------------------------------------------
(* Properties.                                                               *)

NodeRow == [born : Ids, status : {"unknown", "online", "offline", "error"},
            meta : {"none", "applied", "failed"}]

\* The shapes of the rows, which name what has been created.
TypeOK == /\ DOMAIN nodes \subseteq Ids /\ \A i \in DOMAIN nodes : nodes[i] \in NodeRow
          /\ protos \subseteq [node : Ids, for : Ids, cred : 1..MaxCreds, alone : BOOLEAN, late : BOOLEAN]
          /\ machine \in [Ids -> [file : 0..MaxCreds, live : 0..Cut]]
          /\ born \in 0..MaxNodes /\ creds \in 0..MaxCreds /\ work \in 0..MaxWork /\ healed \subseteq 1..born

\* A protocol belongs to the node it was made for.  Deleting a node takes its
\* protocols along, so that one is left without a node, or falls to the next node
\* with the id, only when its INSERT came after its node was deleted.
StrayOnlyLate == \A p \in protos : ~p.late => p.node \in DOMAIN nodes /\ nodes[p.node].born = p.for

\* "deliver and persist this exact configuration": when a setup that shared the
\* machine with no other stores its row, that configuration is in the machine's file
\* and in its service, whatever failed, was restarted or was deleted in between.  Only
\* a restart by the self-healing cycle that failed may have stopped the service since.
StoredIsRunning ==
    [][\A j \in Jobs : SetupCommits(j) /\ setup[j].alone =>
          LET m == machine[setup[j].saw.born] IN
          m.file = setup[j].cred /\ m.live \in {setup[j].cred, Cut}]_vars

\* A node that stays offline is restarted once: between two restarts somebody
\* stored that it was online again, the cycle, a check route or a setup.
OneRestartPerOutage ==
    [][\A i \in Ids : StoreStatus(i) /\ heal'[i].at = "restart" => heal[i].node \notin healed]_vars

\* The class comment of SelfHealService: it checks the nodes and restarts the
\* services "if they're down", so a node that is up when checked is left alone.
RestartsOnlyDown == \A i \in Ids : heal[i].at = "restart" => ~heal[i].up
=============================================================================
