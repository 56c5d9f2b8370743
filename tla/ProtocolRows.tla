----------------------------- MODULE ProtocolRows -----------------------------
(* The rows of one node as the protocol routes shape them                    *)
(* (backend/app/api/protocols.py), and what the servers and the clients make *)
(* of them.  Creation merges the options given over generated defaults; a    *)
(* PATCH replaces what it names, the whole config included, and merges       *)
(* nothing.                                                                  *)
EXTENDS ClientExport

CONSTANTS
    Names,       \* the names of ProtocolName to choose from
    Ports,       \* ports
    MaxChanges   \* bound: rows of the node and updates together

ASSUME RowsAssumption ==
    /\ Names \subseteq (Supported \ {"vlessreality"}) \union {"ssh"}
    /\ Ports \subseteq Nat
    /\ MaxChanges \in Nat

VARIABLES rows, patches
vars == <<rows, patches>>

\* ProtocolConfig.defaults: the options it generates for a name.
Defaults == [hysteria2 |-> {"password", "obfs", "obfs_password"}, shadowsocks |-> {"method", "password"},
             shadowtls |-> {"password", "sni", "version"},
             vless |-> {"private_key", "public_key", "uuid", "flow", "sni", "short_id"},
             vmess |-> {"uuid", "path", "sni"}, trojan |-> {"password", "sni"},
             tuic |-> {"uuid", "password", "congestion"},
             wireguard |-> {"private_key", "public_key", "preshared_key"}, ssh |-> {"private_key"}]
Made(name) == [k \in Defaults[name] |-> "made"]
Merged(name, extra) == [k \in Defaults[name] \union DOMAIN extra |->
                          IF k \in DOMAIN extra THEN extra[k] ELSE "made"]

\* The options an operator gives: none, or one that tells the ends apart.
Nothing == [k \in {} |-> "given"]
Extras(name) == {Nothing} \union
    CASE name = "hysteria2" -> {[obfs |-> "empty"], [obfs_password |-> "given"]}
      [] name = "vless" -> {[private_key |-> "given"]}
      [] name = "shadowtls" -> {[ss_port |-> "given"]}
      [] OTHER -> {[password |-> "given"]}

NextId == IF rows = << >> THEN 1 ELSE Last(rows).id + 1
Changeable == Len(rows) + patches < MaxChanges

Init == rows = << >> /\ patches = 0

CreateProtocol(name, port) ==
    /\ Changeable /\ NextId <= MaxChanges
    /\ \E extra \in Extras(name) :
         rows' = Append(rows, [id |-> NextId, name |-> name, port |-> port,
                               config |-> Merged(name, extra), active |-> TRUE])
    /\ UNCHANGED patches

\* One field at a time: several are as many updates.
UpdateProtocol(i) ==
    /\ Changeable /\ patches' = patches + 1
    /\ \/ \E n \in Names : rows' = [rows EXCEPT ![i].name = n]
       \/ \E q \in Ports : rows' = [rows EXCEPT ![i].port = q]
       \/ rows' = [rows EXCEPT ![i].active = ~@]
       \/ \E c \in Extras(rows[i].name) : rows' = [rows EXCEPT ![i].config = c]

DeleteProtocol(i) == rows' = RemoveAt(rows, i) /\ UNCHANGED patches

Next == \/ \E n \in Names, q \in Ports : CreateProtocol(n, q)
        \/ \E i \in DOMAIN rows : UpdateProtocol(i) \/ DeleteProtocol(i)

Spec == Init /\ [][Next]_vars

-----------------------------------------------------------------------------
(* Properties.                                                               *)

Active == FoldLeft(LAMBDA done, p : IF p.active THEN Append(done, p) ELSE done, << >>, rows)
Cores == {Xray(Active), Singbox(Active)}

\* The public inbounds of a row, in either core.
Listeners(p) == {x \in Cores \X (1..2 * Len(rows) + 1) : LET core == x[1]   i == x[2] IN
                   i \in DOMAIN core /\ core[i].listen = "public" /\ core[i].row = p.id}

\* Both cores share the host: a row that can be served has one public listener, on
\* its port and in one core, whatever other rows there are; the rest is local.
OneListenerPerRow == \A k \in DOMAIN Active : LET p == Active[k] IN p.name \in Supported =>
    Cardinality(Listeners(p)) = 1 /\ \A x \in Listeners(p) : x[1][x[2]].port = p.port

\* A core refuses a configuration with a tag twice, or a detour to none.  Rows of
\* the same protocol get tags of their own; two ShadowTLS rows share the tag of
\* their inner inbounds.
ShadowTls == {i \in DOMAIN Active : Active[i].name = "shadowtls"}
TagsResolve == Cardinality(ShadowTls) <= 1 => \A core \in Cores :
    /\ \A i, j \in DOMAIN core : core[i].tag = core[j].tag => i = j
    /\ \A i \in DOMAIN core : core[i].detour \subseteq Tags(core)

\* The options without which the two ends fall back on different values.
Credentials == [hysteria2 |-> {"password", "obfs", "obfs_password"}, shadowsocks |-> {"password"},
                shadowtls |-> {"password"}, vless |-> {"uuid", "sni", "private_key", "public_key"},
                vmess |-> {"uuid"}, trojan |-> {}, tuic |-> {"uuid", "password"},
                wireguard |-> {}, ssh |-> {}]
Agreed(p) == /\ Credentials[p.name] \subseteq DOMAIN p.config
             /\ p.name = "vless" => p.config.private_key = p.config.public_key

\* A client that imports any format can connect: it has the port and every
\* parameter the listener of the row asks for, defaults of both ends included, if
\* the row holds its credentials and not half of a foreign key pair.  WireGuard
\* rows, which hold a server's keys, reach no client.
ClientMatchesServer == \A f \in Formats : \A e \in Export(f, Active) :
    LET p == CHOOSE row \in ToSet(Active) : row.id = e.row IN
    /\ p.name # "wireguard" /\ e.port = p.port
    /\ Agreed(p) => e.params = ServerParams(p)
=============================================================================
