---------------------------- MODULE ServiceLife ----------------------------
(***************************************************************************)
(* What the service state machine promises, one service at a time (spec   *)
(* sections 4.3, 4.4 and 8): the admin flag is on exactly in STARTING and *)
(* READY; only a start turns it on and only a stop turns it off; while on, *)
(* a service moves between STARTING and READY on its own (commands        *)
(* completing, a daemon respawned); once off, it only goes on to STOPPED. *)
(* After shutdown begins nothing is started again, and a STOPPING service *)
(* eventually stops.                                                      *)
(*                                                                         *)
(* Supervisor implements this specification under the mapping run = the  *)
(* state field of each struct svc, down = tinit_loop has left its first   *)
(* tinit_poll.                                                            *)
(***************************************************************************)
CONSTANT Svc

VARIABLES run, down

lvars == <<run, down>>

On == {"STARTING", "READY"}
Off == {"STOPPED", "STOPPING"}

Init ==
    /\ run = [s \in Svc |-> "STOPPED"]
    /\ down = FALSE

(* A start (boot, switch or request): the service goes on.                 *)
Start(s) ==
    /\ ~down /\ run[s] \in Off
    /\ \E st \in On : run' = [run EXCEPT ![s] = st]
    /\ UNCHANGED down

(* A stop (switch, request or shutdown): the service goes off.             *)
Stop(s) ==
    /\ run[s] \in On
    /\ \E st \in Off : run' = [run EXCEPT ![s] = st]
    /\ UNCHANGED down

(* An on service completes its commands, or falls back to STARTING.       *)
Progress(s) ==
    /\ run[s] \in On
    /\ \E st \in On \ {run[s]} : run' = [run EXCEPT ![s] = st]
    /\ UNCHANGED down

(* The stop sequence of an off service ends.                              *)
Settle(s) ==
    /\ run[s] = "STOPPING"
    /\ run' = [run EXCEPT ![s] = "STOPPED"]
    /\ UNCHANGED down

Shutdown ==
    /\ ~down
    /\ down' = TRUE
    /\ UNCHANGED run

Next ==
    \/ Shutdown
    \/ \E s \in Svc : Start(s) \/ Stop(s) \/ Progress(s) \/ Settle(s)

SafetySpec == Init /\ [][Next]_lvars

Spec == SafetySpec /\ \A s \in Svc : WF_lvars(Settle(s))

=============================================================================
