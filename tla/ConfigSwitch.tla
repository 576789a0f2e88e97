---------------------------- MODULE ConfigSwitch ----------------------------
(***************************************************************************)
(* What a reload of the configuration promises, whatever order the entries *)
(* are compared in: the daemon goes from the peers it runs to those of the *)
(* new file, it touches only those that differ, and at the end the ones it *)
(* runs are those of the file less the ones it could not start.  A peer is *)
(* [at, name, val]; `at' is the address it is accepted at, NULL for one    *)
(* that is connected to, and val.fp the fingerprint it is told apart by.   *)
(***************************************************************************)
CONSTANT NULL

VARIABLES
    running,    \* the peers that are served
    target,     \* the peers of the file that was read last
    refused,    \* those of them that could not be started
    busy        \* a reload is under way

vars == <<running, target, refused, busy>>

Init == running = {} /\ target = {} /\ refused = {} /\ busy = FALSE

(* No socket could be opened at the address, or there another peer with    *)
(* the same fingerprint is served.                                         *)
CannotStart(e, R) ==
    /\ e.at # NULL
    /\ \/ \A d \in R : d.at # e.at
       \/ \E d \in R : d.at = e.at /\ d.val.fp = e.val.fp

Refusals(old, new, R) ==
    /\ old \subseteq new /\ new \subseteq target' \ R
    /\ \A e \in new \ old : CannotStart(e, R)

(* The daemon starts, with sockets at every address of the file. *)
Boot ==
    /\ ~ busy /\ running = {}
    /\ busy' = FALSE
    /\ running' = target' \ refused'
    /\ Refusals({}, refused', running')

(* A reload begins.  What was refused before and is in the new file too is *)
(* refused still, or tried again.                                          *)
Load ==
    /\ ~ busy /\ busy' = TRUE
    /\ refused' \subseteq refused \cap target'
    /\ UNCHANGED running

(* Peers the new file does not have are stopped, new ones are started. *)
Change ==
    /\ busy
    /\ running \ running' \subseteq running \ target
    /\ running' \ running \subseteq target
    /\ Refusals(refused, refused', running')
    /\ UNCHANGED <<target, busy>>

Finish ==
    /\ busy /\ busy' = FALSE
    /\ running = target \ refused
    /\ UNCHANGED <<running, target, refused>>

Exit ==
    /\ running' = {} /\ target' = {} /\ refused' = {} /\ busy' = FALSE

Next == Boot \/ Load \/ Change \/ Finish \/ Exit

Spec == Init /\ [][Next]_vars
=============================================================================
