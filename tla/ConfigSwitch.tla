---------------------------- MODULE ConfigSwitch ----------------------------
(* What a configuration transaction promises to the rest of the panel: the   *)
(* proxy cores' configuration files move together, from one version of the   *)
(* local node's protocol set to a version at least as new, in one step.      *)
(* The only other way they may change is a Tear: the backend process dies,   *)
(* or a file cannot be written back while a transaction is undone.  Tears    *)
(* are counted, so a run that has none has only switches.                    *)
EXTENDS Integers

CONSTANTS NumCores  \* how many cores share one transaction

VARIABLES shown,    \* the version each core's file is committed to
          tears     \* how many times the files were torn apart

Cores == 1 .. NumCores

Init == /\ shown \in [Cores -> {-1, 0}]
        /\ \A c, d \in Cores : shown[c] = shown[d]
        /\ tears = 0

\* All files at once, never to an older version.
Switch == /\ \A c, d \in Cores : shown'[c] = shown'[d] /\ shown[c] <= shown'[d]
          /\ UNCHANGED tears

Tear == /\ tears' = tears + 1
        /\ shown' \in [Cores -> Int]

Spec == Init /\ [][Switch \/ Tear]_<<shown, tears>>
=============================================================================
