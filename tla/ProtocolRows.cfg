SPECIFICATION Spec
CONSTANTS
    Names = {"hysteria2", "shadowsocks", "shadowtls", "vless", "trojan", "tuic", "wireguard", "ssh", "vmess"}
    Ports = {443, 8443}
    MaxChanges = 3
INVARIANTS
    OneListenerPerRow
    TagsResolve
    ClientMatchesServer
