---------------------------- MODULE UpstreamPool ----------------------------
(***************************************************************************)
(* The upstream pool of src/src/upstream/pool.rs: one upstream, whose      *)
(* balancer (Balancer) the connection threads ask for targets while the    *)
(* health checks (HealthCheck) store into the same flags.  The map of      *)
(* upstreams is filled by init and only read afterwards.                   *)
(***************************************************************************)
EXTENDS HealthCheck, Sequences, FiniteSets

CONSTANTS
    N, Lbs, Callers, Keys, Hash, CounterMod,   \* see Balancer
    Upstreams,    \* names in the map
    Names,        \* names the requests ask for
    Upstream      \* the upstream modelled

ASSUME TargetsAssumption == Targets = 1..N
ASSUME BalancerAssumption ==
    N \in Nat /\ Hash \in [Keys -> Nat] /\ CounterMod \in Nat \ {0}
ASSUME UpstreamAssumption == Upstream \in Upstreams

VARIABLES lb, active, counter, pc, key, at, seen, result, stable, round

B == INSTANCE Balancer

callerVars == <<lb, active, counter, pc, key, at, seen, result, stable, round>>
probeVars == <<server, probes>>
poolVars == <<vars, callerVars>>

(* UpstreamPool::init and make_balancer; spawn_health_checks starts the    *)
(* task that wakes up later.                                               *)
PoolInit == Init /\ B!Init

(* map.get(name).or_else(|| map.get("default")): an upstream that is in    *)
(* the map is not replaced by the default one, even if it has no target    *)
(* left.                                                                   *)
Lookup(n) == IF n \in Upstreams THEN {n} ELSE {"default"} \cap Upstreams

(* next_url(name, key) on the upstream modelled. *)
NextUrl(c, n, k) ==
    /\ Upstream \in Lookup(n)
    /\ B!Call(c, k)
    /\ UNCHANGED probeVars

(* The rest of the call: the scan, the pick and the end of the request. *)
Proceed(c) ==
    /\ \/ B!Scan(c) \/ B!PickNone(c) \/ B!PickRoundRobin(c) \/ B!PickLeastConn(c)
       \/ B!PickConsistentHash(c) \/ B!Release(c)
    /\ UNCHANGED probeVars

(* alive_ref.store: the flag the callers load. *)
StoreFlag(t, s) ==
    /\ Store(t, s)
    /\ IF alive' = alive THEN UNCHANGED callerVars ELSE B!StoreAlive(t, s = "good")

Probe(t) == Answer(t) /\ UNCHANGED callerVars

WakeUp == SpawnProbes /\ UNCHANGED callerVars

PoolNext ==
    \/ \E c \in Callers, n \in Names, k \in Keys : NextUrl(c, n, k)
    \/ \E c \in Callers : Proceed(c)
    \/ WakeUp
    \/ \E t \in Targets :
        \/ Probe(t)
        \/ \E s \in {"good", "bad"} : StoreFlag(t, s)
        \/ \E s \in Conditions : ServerTurns(t, s) /\ UNCHANGED callerVars

PoolSpec == PoolInit /\ [][PoolNext]_poolVars

(* The loop never ends, a spawned probe runs when it can, and a server     *)
(* that is not hung answers; nothing makes a server change or a hung one   *)
(* answer, and a caller may stop anywhere.                                 *)
PoolFairSpec ==
    /\ PoolSpec
    /\ WF_poolVars(WakeUp)
    /\ \A t \in Targets :
        /\ WF_poolVars(Probe(t))
        /\ \A s \in {"good", "bad"} : WF_poolVars(StoreFlag(t, s))

-----------------------------------------------------------------------------
(* Properties *)

(* The flag of t is settled, and every scan that has loaded it found it    *)
(* as it is.                                                               *)
Obeyed(t) ==
    /\ Settled(t)
    /\ \A c \in Callers : pc[c] = "scan" /\ t < at[c] =>
            ((\E i \in DOMAIN seen[c] : seen[c][i] = t) <=> alive[t])

(* From then on, until the server itself changes, the requests follow it:  *)
(* next() returns no target that is down, and None not at all while one is *)
(* up, whatever the probes under way report, in whichever order, and       *)
(* whatever happens to the other flags during a scan.                      *)
RequestsFollow ==
    [][\A t \in Targets : Obeyed(t) /\ server'[t] = server[t] =>
            /\ Obeyed(t)'
            /\ \A c \in Callers : Proceed(c) /\ pc'[c] = "done" =>
                    /\ alive[t] => result'[c] # B!None
                    /\ ~alive[t] => result'[c] # t]_poolVars

(* A request is sent to a server that answers its probes with failures     *)
(* only for a while: once the server stays down, late verdicts of old      *)
(* probes and scans that loaded the flag before run out.                   *)
DownIsLeftAlone ==
    \A t \in Targets : <>[](server[t] = "down") =>
        <>[][\A c \in Callers : Proceed(c) /\ pc'[c] = "done" => result'[c] # t]_poolVars

(* While some server stays up, requests get a 503 only for a while: next() *)
(* returns None in the end no more, whatever the other servers do.         *)
UpIsFound ==
    \A t \in Targets : <>[](server[t] = "up") => <>[][\A c \in Callers : ~B!PickNone(c)]_poolVars
=============================================================================
