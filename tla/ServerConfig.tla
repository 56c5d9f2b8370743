----------------------------- MODULE ServerConfig -----------------------------
(* The configurations of the two cores, as build_xray_server_config          *)
(* (backend/app/core/xray.py) and build_singbox_server_config                *)
(* (backend/app/core/singbox.py) make them of the active rows of a node.     *)
(*                                                                           *)
(* A row is [id, name, port, config, active].  Its config maps the options   *)
(* it has to where they come from: "made" by the panel, "given" by an        *)
(* operator, or "empty".  Logging, routing, certificates and the options     *)
(* that one end alone uses are left out.                                     *)
EXTENDS SequencesExt

XrayNames == {"vless", "vlessreality", "trojan", "vmess"}
SingboxNames == {"hysteria2", "tuic", "shadowtls", "shadowsocks", "wireguard"}
Supported == XrayNames \union SingboxNames

BaseTag == [vless |-> "vless-in", vlessreality |-> "vless-in", trojan |-> "trojan-in",
            vmess |-> "vmess-in", hysteria2 |-> "hysteria2-in", tuic |-> "tuic-in",
            shadowtls |-> "shadowtls-in", shadowsocks |-> "ss-in", wireguard |-> "wireguard-in"]

-----------------------------------------------------------------------------
(* Options: what a row has, or what the code says in its place.              *)

Fresh == "random"    \* uuid4() in the code: another value at every call

\* A value is known by its row, its option and its origin; private_key and
\* public_key made together are the two halves of one pair.
Own(p, key) == [row |-> p.id, from |-> p.config[key],
                key |-> IF key \in {"private_key", "public_key"} THEN "pair" ELSE key]
Get(p, key, default) ==
    IF key \in DOMAIN p.config THEN Own(p, key) ELSE [default |-> default]

\* Obfuscation is off when obfs is empty; whenMissing is what no obfs means.
NoObfs == [default |-> ""]
Obfs(p, whenMissing, password) ==
    CASE "obfs" \notin DOMAIN p.config -> whenMissing
      [] "obfs" \in DOMAIN p.config /\ p.config.obfs = "empty" -> NoObfs
      [] OTHER -> [type |-> Own(p, "obfs"), password |-> Get(p, "obfs_password", password)]

\* What a client must know, as the inbound of the row has it.
ServerParams(p) ==
    CASE p.name \in {"vless", "vlessreality"} ->
           [id |-> Get(p, "uuid", Fresh), flow |-> Get(p, "flow", "vision"),
            sni |-> Get(p, "sni", "cloudflare"), reality |-> Get(p, "private_key", ""),
            short |-> Get(p, "short_id", "")]
      [] p.name = "trojan" -> [password |-> Get(p, "password", "")]
      [] p.name = "vmess" -> [id |-> Get(p, "uuid", Fresh), path |-> Get(p, "path", "/vmess")]
      [] p.name = "hysteria2" ->
           [password |-> Get(p, "password", Fresh), obfs |-> Obfs(p, NoObfs, Fresh)]
      [] p.name = "tuic" ->
           [id |-> Get(p, "uuid", Fresh), password |-> Get(p, "password", Fresh),
            congestion |-> Get(p, "congestion", "bbr")]
      [] p.name = "shadowtls" ->
           [tls |-> Get(p, "password", Fresh), version |-> Get(p, "version", "3"),
            sni |-> Get(p, "sni", "apple"),
            method |-> Get(p, "method", "aes-256-gcm"), password |-> Get(p, "password", Fresh)]
      [] p.name = "shadowsocks" ->
           [method |-> Get(p, "method", "aes-256-gcm"), password |-> Get(p, "password", Fresh)]
      [] OTHER -> << >>

-----------------------------------------------------------------------------
(* Inbounds.                                                                 *)

Tags(inbounds) == {inbounds[i].tag : i \in DOMAIN inbounds}

\* Mutant: the tags given out are not remembered.
BaseAlone(base, inbounds) == <<base, 1>>

\* The base tag, else the first of base-2, base-3, ... that is not yet taken.
FreshTag(base, inbounds) ==
    <<base, CHOOSE n \in 1..Len(inbounds) + 1 :
        /\ <<base, n>> \notin Tags(inbounds)
        /\ \A k \in 1..n - 1 : <<base, k>> \in Tags(inbounds)>>

\* The Shadowsocks inbound behind ShadowTLS listens on the host alone, always
\* under one tag, on the ss_port given (some port) or 1000 above the row's.
GivenPort == 5000
PairedTag == <<"ss-behind-shadowtls", 1>>
PairedPort(p) == IF "ss_port" \in DOMAIN p.config THEN GivenPort ELSE p.port + 1000
Inbound(p, tag) ==
    [row |-> p.id, tag |-> tag, listen |-> "public", port |-> p.port,
     detour |-> IF p.name = "shadowtls" THEN {PairedTag} ELSE {}]
Paired(p) == [row |-> p.id, tag |-> PairedTag, listen |-> "local", port |-> PairedPort(p), detour |-> {}]

\* A name the core has no builder for is skipped.
Inbounds(names, protocols) ==
    FoldLeft(LAMBDA done, p :
        IF p.name \notin names THEN done
        ELSE done \o (IF p.name = "shadowtls" THEN <<Paired(p)>> ELSE << >>)
                  \o <<Inbound(p, FreshTag(BaseTag[p.name], done))>>,
        << >>, protocols)

ApiInbound == [row |-> 0, tag |-> <<"api-in", 1>>, listen |-> "local", port |-> 62789, detour |-> {}]

\* Mutant: both cores register Shadowsocks.
XrayOfMore(protocols) == <<ApiInbound>> \o Inbounds(XrayNames \union {"shadowsocks"}, protocols)

Xray(protocols) == <<ApiInbound>> \o Inbounds(XrayNames, protocols)
Singbox(protocols) == Inbounds(SingboxNames, protocols)
=============================================================================
