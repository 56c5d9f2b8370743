----------------------------- MODULE ClientExport -----------------------------
(* The client configurations ConfigGenerator makes of the rows a             *)
(* subscription covers: backend/app/lib/config_generator.py, and             *)
(* _client_generator, subscription_info and fetch_subscription of            *)
(* backend/app/api/subscriptions.py.                                         *)
(*                                                                           *)
(* An entry of a client configuration is known by its row, port and the      *)
(* parameters it must share with the server.  Balancing, DNS, routes and the *)
(* writing of JSON, YAML and URIs are left out.                              *)
EXTENDS ServerConfig

Formats == {"singbox", "hiddify", "clash", "shadowrocket", "v2rayng", "base64"}
Serializer == [f \in Formats |-> CASE f = "clash" -> "clash"
                                   [] f \in {"singbox", "hiddify"} -> "singbox"
                                   [] OTHER -> "uri"]

\* What each serializer knows: the others return None.
Knows(s) == {"vmess", "hysteria2", "shadowsocks", "vless", "vlessreality", "trojan", "tuic"}
            \union (IF s = "singbox" THEN {"shadowtls", "ssh"} ELSE {})

\* add_protocol keeps WireGuard from clients; a VMess row without uuid is skipped.
Exported(s, p) == /\ p.name # "wireguard" /\ p.name \in Knows(s)
                  /\ p.name = "vmess" => "uuid" \in DOMAIN p.config

\* Mutant: the password of the account is taken for the one of the obfuscation.
ObfsOfPassword(s, p) ==
    IF Obfs(p, NoObfs, "") = NoObfs THEN NoObfs
    ELSE [type |-> Own(p, "obfs"), password |-> Get(p, "password", "")]

\* Without obfs sing-box leaves it out, Clash and the URIs say "salamander".
ClientObfs(s, p) ==
    Obfs(p, IF s = "singbox" THEN NoObfs ELSE [default |-> "salamander"], "")

\* Missing identifiers are made up by sing-box and left empty by the others.
Missing(s) == IF s = "singbox" THEN Fresh ELSE ""

ClientParams(s, p) ==
    CASE p.name \in {"vless", "vlessreality"} ->
           [id |-> Get(p, "uuid", Missing(s)), flow |-> Get(p, "flow", "vision"),
            sni |-> Get(p, "sni", IF s = "singbox" THEN "cloudflare" ELSE ""),
            reality |-> Get(p, "public_key", ""), short |-> Get(p, "short_id", "")]
      [] p.name = "trojan" -> [password |-> Get(p, "password", "")]
      [] p.name = "vmess" -> [id |-> Own(p, "uuid"), path |-> Get(p, "path", "/vmess")]
      [] p.name = "hysteria2" -> [password |-> Get(p, "password", ""), obfs |-> ClientObfs(s, p)]
      [] p.name = "tuic" ->
           [id |-> Get(p, "uuid", Missing(s)), password |-> Get(p, "password", ""),
            congestion |-> Get(p, "congestion", "bbr")]
      [] p.name = "shadowtls" ->
           [tls |-> Get(p, "password", ""), version |-> Get(p, "version", "3"),
            sni |-> Get(p, "sni", "apple"),
            method |-> Get(p, "method", "aes-256-gcm"), password |-> Get(p, "password", "")]
      [] p.name = "shadowsocks" ->
           [method |-> Get(p, "method", "aes-256-gcm"), password |-> Get(p, "password", "")]
      [] OTHER -> << >>

\* The entries of a configuration; without one the answer is 409, and the format
\* is not offered.
Entry(s, p) == [row |-> p.id, port |-> p.port, params |-> ClientParams(s, p)]
Export(f, protocols) ==
    {Entry(Serializer[f], protocols[i]) : i \in {k \in DOMAIN protocols : Exported(Serializer[f], protocols[k])}}
=============================================================================
