-------------------------- MODULE MCCodespacesSync --------------------------
(* CodespacesSync for TLC: one process, started with                       *)
(* --codespaces-include-stopped or, the default, without it.               *)
EXTENDS CodespacesSync, TLC

VARIABLE includeStopped

(* Without the flag a web server's tick; with it also a --codespaces-sync  *)
(* run with --sync.                                                        *)
AllOptions ==
    {[stopped |-> FALSE, force |-> FALSE], [stopped |-> TRUE, force |-> FALSE],
     [stopped |-> TRUE, force |-> TRUE]}

MCInit == Init /\ includeStopped \in BOOLEAN

MCNext ==
    /\ Next
    /\ pc = "idle" /\ pc' # "idle" => opt'.stopped = includeStopped
    /\ UNCHANGED includeStopped

Tick == ServerTick(includeStopped)

(* The web server's ticker calls the next tick; strong fairness because    *)
(* other ticks may come in between.                                        *)
MCSpec == MCInit /\ [][MCNext]_<<vars, includeStopped>> /\ Fairness /\ SF_vars(Tick)

(* Under the web server's ticker the database catches up again and again:  *)
(* with the logs of all codespaces when the ticks include the stopped      *)
(* ones; by default only with those of the codespaces that run, for one    *)
(* that stops before the next tick is not listed.  No path out of a copy   *)
(* keeps the start slot or the tick from the others, no codespace whose    *)
(* logs have grown is skipped for ever, and a crash or a failure is made   *)
(* good by a later tick.                                                   *)
DatabaseCatchesUp == []<>CaughtUp(includeStopped)
=============================================================================
