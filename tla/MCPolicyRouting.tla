-------------------------- MODULE MCPolicyRouting --------------------------
(* Small instances of PolicyRouting: starting configurations for the runs. *)
EXTENDS PolicyRouting

\* A client in a Block group whose tunnel is up, and a second group on the
\* WAN: edits and tunnel events reach every other configuration of the ids.
OneBlockGroup ==
    /\ Init
    /\ groups = {1, 2}
    /\ vpnProfile[1] # NoProfile /\ fallback[1] = "block"
    /\ vpnProfile[2] = NoProfile /\ fallback[2] = "block"
    /\ \A c \in Clients : assigned[c] = 1
    /\ conn = Profiles

MCSpec == OneBlockGroup /\ [][Next]_vars

MCFairSpec == MCSpec /\ Fairness
=============================================================================
