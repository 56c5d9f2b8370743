--------------------------- MODULE TrustOnFirstUse ---------------------------
(* What the panel promises about the servers it reaches by SSH: the first    *)
(* key a host shows is enrolled, in one step, and never replaced or lost.    *)
CONSTANTS Hosts, HostKeys

VARIABLES pins   \* host -> the keys enrolled for it

Init == pins = [h \in Hosts |-> {}]

Enroll(h, k) == pins[h] = {} /\ pins' = [pins EXCEPT ![h] = {k}]

Next == \E h \in Hosts, k \in HostKeys : Enroll(h, k)

Spec == Init /\ [][Next]_pins
=============================================================================
