------------------------------ MODULE MCWebSync ------------------------------
(* WebSync for TLC: goroutine names, and the local-only liveness claims.   *)
EXTENDS WebSync

(* Local logs only: in manual mode nobody has to sync the Codespaces.      *)
EveryLocalWriteIsShown ==
    \A v \in 1..MaxVersion : data["local"] = v ~> shown.data["local"] >= v
=============================================================================
