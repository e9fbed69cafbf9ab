---------------------------- MODULE HealthCheck -----------------------------
(***************************************************************************)
(* The health checks of src/src/upstream/pool.rs.  A task wakes up every   *)
(* five seconds and spawns one probe per target; a probe sends HEAD, waits *)
(* for the answer without a timeout and stores the verdict in the target's *)
(* flag.  Probes of different rounds overlap, so an old verdict can land   *)
(* after a newer one.                                                      *)
(***************************************************************************)
EXTENDS Integers

CONSTANTS
    Targets,      \* the targets of all the upstreams
    MaxProbes     \* bound: probes of one target in flight at a time

ASSUME MaxProbesAssumption == MaxProbes \in Nat \ {0}

(* What a target's server does (external): "up" answers HEAD with success  *)
(* or 404, "down" answers another status or refuses, "hung" keeps silent.  *)
Conditions == {"up", "down", "hung"}

(* A probe waits for the answer, or has it and is about to store it. *)
Stages == {"sent", "good", "bad"}

VARIABLES
    server,    \* server[t] \in Conditions
    alive,     \* alive[t]: Target.alive
    probes     \* probes[t][s]: probes of t in stage s

vars == <<server, alive, probes>>

InFlight(t) == probes[t]["sent"] + probes[t]["good"] + probes[t]["bad"]

(* The type invariant: no probe leaves a stage it is not in, so that each  *)
(* spawned probe stores at most one verdict.                               *)
TypeOK ==
    /\ server \in [Targets -> Conditions]
    /\ alive \in [Targets -> BOOLEAN]
    /\ probes \in [Targets -> [Stages -> Nat]]

(* Target::new starts every target alive, whatever its server does. *)
Init ==
    /\ server \in [Targets -> Conditions]
    /\ alive = [t \in Targets |-> TRUE]
    /\ probes = [t \in Targets |-> [s \in Stages |-> 0]]

-----------------------------------------------------------------------------
(* One turn of the loop: tokio::spawn one probe per target, wait for none. *)
SpawnProbes ==
    /\ probes' = [t \in Targets |->
            IF InFlight(t) < MaxProbes THEN [probes[t] EXCEPT !["sent"] = @ + 1]
                                       ELSE probes[t]]
    /\ UNCHANGED <<server, alive>>

VerdictNegated(t) ==                \* mutant: returns !ok
    IF server[t] = "up" THEN "bad" ELSE "good"

(* reqwest_health_check: success and 404 are healthy, all else is not. *)
Verdict(t) == IF server[t] = "up" THEN "good" ELSE "bad"

(* A waiting probe has its verdict. *)
Answered(t) ==
    [s \in Stages |-> CASE s = "sent" -> probes[t][s] - 1
                       [] s = Verdict(t) -> probes[t][s] + 1
                       [] OTHER -> probes[t][s]]

AnswerTwice(t) ==                   \* mutant: a probe reports more than once
    /\ server[t] # "hung"
    /\ probes' = [probes EXCEPT ![t] = Answered(t)]
    /\ UNCHANGED <<server, alive>>

(* client.request(req).await returns; a silent server never gets here. *)
Answer(t) ==
    /\ probes[t]["sent"] > 0 /\ server[t] # "hung"
    /\ probes' = [probes EXCEPT ![t] = Answered(t)]
    /\ UNCHANGED <<server, alive>>

StoreOnlyFailure(t, s) ==           \* mutant: a target is never marked alive again
    /\ probes[t][s] > 0
    /\ probes' = [probes EXCEPT ![t][s] = @ - 1]
    /\ alive' = [alive EXCEPT ![t] = @ /\ s = "good"]
    /\ UNCHANGED server

(* alive_ref.store(alive): the verdict of whichever probe gets here. *)
Store(t, s) ==
    /\ probes[t][s] > 0
    /\ probes' = [probes EXCEPT ![t][s] = @ - 1]
    /\ alive' = [alive EXCEPT ![t] = s = "good"]
    /\ UNCHANGED server

(* External: a server changes its condition at any time. *)
ServerTurns(t, s) ==
    /\ server[t] # s
    /\ server' = [server EXCEPT ![t] = s]
    /\ UNCHANGED <<alive, probes>>

Next ==
    \/ SpawnProbes
    \/ \E t \in Targets :
        \/ Answer(t)
        \/ \E s \in {"good", "bad"} : Store(t, s)
        \/ \E s \in Conditions : ServerTurns(t, s)

Spec == Init /\ [][Next]_vars

-----------------------------------------------------------------------------
(* Properties *)

(* The flag tells the truth and no verdict that says otherwise is on its   *)
(* way.                                                                    *)
Settled(t) ==
    \/ server[t] = "up" /\ alive[t] /\ probes[t]["bad"] = 0
    \/ server[t] = "down" /\ ~alive[t] /\ probes[t]["good"] = 0

(* Once the flag of a target is settled it stays so until the server       *)
(* itself changes: overlapping probes that finish in any order cannot      *)
(* bring a stale verdict back.                                             *)
SettledStays ==
    [][\A t \in Targets : Settled(t) /\ server'[t] = server[t] => Settled(t)']_vars

(* A server that stays up is in the end used again, and one that answers   *)
(* with failures is in the end no longer used, for good: the late verdicts *)
(* of older probes run out.  (A server that hangs is never marked dead:    *)
(* the probe has no timeout.)                                              *)
FlagConverges ==
    \A t \in Targets :
        /\ <>[](server[t] = "up") => <>[]alive[t]
        /\ <>[](server[t] = "down") => <>[](~alive[t])
=============================================================================
