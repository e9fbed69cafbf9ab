------------------------------ MODULE Balancer ------------------------------
(***************************************************************************)
(* The load balancers of src/src/upstream/balancer.rs: one upstream with N *)
(* targets, whose `alive' flags are atomics that the health checks store   *)
(* into at any moment, and the connection threads that call next().        *)
(* next() is not atomic: it loads the flags one after the other, and only  *)
(* then takes a ticket from the round robin counter.                       *)
(***************************************************************************)
EXTENDS Integers, Sequences, FiniteSets

CONSTANTS
    N,            \* number of targets of the upstream, in configuration order
    Lbs,          \* what the upstream's `lb' string may be
    Callers,      \* connection threads
    Keys,         \* client keys handed to next()
    Hash,         \* hash_key: what DefaultHasher returns for a key
    CounterMod    \* number of values of the usize counter (2^64 in the code)

ASSUME NAssumption == N \in Nat
ASSUME HashAssumption == Hash \in [Keys -> Nat]
ASSUME CounterModAssumption == CounterMod \in Nat \ {0}

TargetIds == 1..N
None == 0                       \* next() returned Option::None

VARIABLES
    lb,        \* the upstream's `lb', fixed at the start
    alive,     \* alive[t]: Target.alive
    active,    \* active[t]: Target.active
    counter,   \* RoundRobin.counter
    pc,        \* "idle", "scan" (filtering the targets) or "done" (next() returned)
    key,       \* key[c]: the key of c's call
    at,        \* at[c]: next target whose flag c loads
    seen,      \* seen[c]: the `alive' vector collected so far
    result,    \* result[c]: the target next() returned, or None
    stable,    \* history: no flag changed since c's call began
    round      \* history: the targets served in the current rotation

vars == <<lb, alive, active, counter, pc, key, at, seen, result, stable, round>>

(***************************************************************************)
(* make_balancer: any string but two selects round robin.                  *)
(***************************************************************************)
Kind == IF lb \in {"least_conn", "consistent_hash"} THEN lb ELSE "round_robin"

(* The type invariant: the usize counter stays below its width, a scan     *)
(* within the targets, and next() returns one of them or None.             *)
TypeOK ==
    /\ lb \in Lbs
    /\ alive \in [TargetIds -> BOOLEAN]
    /\ active \in [TargetIds -> Nat]
    /\ counter \in 0..(CounterMod - 1)
    /\ pc \in [Callers -> {"idle", "scan", "done"}]
    /\ key \in [Callers -> Keys]
    /\ at \in [Callers -> 1..(N + 1)]
    /\ seen \in [Callers -> Seq(TargetIds)]
    /\ result \in [Callers -> TargetIds \cup {None}]
    /\ stable \in [Callers -> BOOLEAN]
    /\ round \subseteq TargetIds

Init ==
    /\ lb \in Lbs
    /\ alive = [t \in TargetIds |-> TRUE]
    /\ active = [t \in TargetIds |-> 0]
    /\ counter = 0
    /\ pc = [c \in Callers |-> "idle"]
    /\ key \in [Callers -> Keys]
    /\ at = [c \in Callers |-> 1]
    /\ seen = [c \in Callers |-> <<>>]
    /\ result = [c \in Callers |-> None]
    /\ stable = [c \in Callers |-> FALSE]
    /\ round = {}

(* The targets whose flag is set, in configuration order. *)
Filtered(flags) == SelectSeq([t \in TargetIds |-> t], LAMBDA t : flags[t])

AliveSeq == Filtered(alive)

-----------------------------------------------------------------------------
(* next(key) *)

Call(c, k) ==
    /\ pc[c] = "idle"
    /\ pc' = [pc EXCEPT ![c] = "scan"]
    /\ key' = [key EXCEPT ![c] = k]
    /\ at' = [at EXCEPT ![c] = 1]
    /\ seen' = [seen EXCEPT ![c] = <<>>]
    /\ stable' = [stable EXCEPT ![c] = TRUE]
    /\ UNCHANGED <<lb, alive, active, counter, result, round>>

ScanAll(c) ==                              \* mutant: the filter is lost
    /\ pc[c] = "scan" /\ at[c] <= N
    /\ seen' = [seen EXCEPT ![c] = Append(@, at[c])]
    /\ at' = [at EXCEPT ![c] = @ + 1]
    /\ UNCHANGED <<lb, alive, active, counter, pc, key, result, stable, round>>

(* One turn of targets.iter().filter(|t| t.is_alive()). *)
Scan(c) ==
    /\ pc[c] = "scan" /\ at[c] <= N
    /\ seen' = [seen EXCEPT ![c] = IF alive[at[c]] THEN Append(@, at[c]) ELSE @]
    /\ at' = [at EXCEPT ![c] = @ + 1]
    /\ UNCHANGED <<lb, alive, active, counter, pc, key, result, stable, round>>

TicketUnwrapped == counter + 1             \* mutant: the counter is no usize

TicketModTargets == (counter + 1) % N      \* mutant: wraps at the target count

(* counter.fetch_add(1) wraps around at the width of usize. *)
Ticket == (counter + 1) % CounterMod

(* ConsistentHash::next on the collected vector. *)
Place(s, k) == s[(Hash[k] % Len(s)) + 1]

(* min_by_key returns the first of the minimal elements; nothing in the    *)
(* code writes `active', so loading it during or after the scan is the same. *)
LeastActive(s) ==
    s[CHOOSE i \in DOMAIN s :
        /\ \A j \in DOMAIN s : active[s[i]] <= active[s[j]]
        /\ \A j \in 1..(i - 1) : active[s[i]] < active[s[j]]]

Return(c, t) ==
    /\ pc' = [pc EXCEPT ![c] = "done"]
    /\ result' = [result EXCEPT ![c] = t]
    /\ UNCHANGED <<lb, alive, active, key, at, seen, stable>>

Collected(c) == pc[c] = "scan" /\ at[c] = N + 1

PickNone(c) ==
    /\ Collected(c) /\ seen[c] = <<>>
    /\ Return(c, None)
    /\ UNCHANGED <<counter, round>>

(* A rotation goes on while every pick is made from the current alive      *)
(* vector and the counter does not jump when it wraps.                     *)
Steady(c) ==
    /\ seen[c] = AliveSeq
    /\ counter + 1 < CounterMod \/ CounterMod % Len(seen[c]) = 0

PickRoundRobin(c) ==
    /\ Collected(c) /\ seen[c] # <<>> /\ Kind = "round_robin"
    /\ LET t == seen[c][(counter % Len(seen[c])) + 1]
           served == round \cup {t}
       IN  /\ Return(c, t)
           /\ round' = IF Steady(c) /\ Cardinality(served) < Len(seen[c]) THEN served ELSE {}
    /\ counter' = Ticket

PickLeastConn(c) ==
    /\ Collected(c) /\ seen[c] # <<>> /\ Kind = "least_conn"
    /\ Return(c, LeastActive(seen[c]))
    /\ UNCHANGED <<counter, round>>

PickByTicket(c) ==                         \* mutant: the ticket, not the key
    /\ Collected(c) /\ seen[c] # <<>> /\ Kind = "consistent_hash"
    /\ Return(c, seen[c][(counter % Len(seen[c])) + 1])
    /\ counter' = Ticket
    /\ UNCHANGED round

PickConsistentHash(c) ==
    /\ Collected(c) /\ seen[c] # <<>> /\ Kind = "consistent_hash"
    /\ Return(c, Place(seen[c], key[c]))
    /\ UNCHANGED <<counter, round>>

(* The caller's request is over; the target's `active' is not touched. *)
Release(c) ==
    /\ pc[c] = "done"
    /\ pc' = [pc EXCEPT ![c] = "idle"]
    /\ result' = [result EXCEPT ![c] = None]
    /\ UNCHANGED <<lb, alive, active, counter, key, at, seen, stable, round>>

(* A health check's alive_ref.store(b): see HealthCheck. *)
StoreAlive(t, b) ==
    /\ alive[t] # b
    /\ alive' = [alive EXCEPT ![t] = b]
    /\ stable' = [c \in Callers |-> FALSE]
    /\ round' = {}
    /\ UNCHANGED <<lb, active, counter, pc, key, at, seen, result>>

CallerStep(c) ==
    \/ \E k \in Keys : Call(c, k)
    \/ Scan(c)
    \/ PickNone(c)
    \/ PickRoundRobin(c)
    \/ PickLeastConn(c)
    \/ PickConsistentHash(c)
    \/ Release(c)

Next ==
    \/ \E c \in Callers : CallerStep(c)
    \/ \E t \in TargetIds, b \in BOOLEAN : StoreAlive(t, b)

Spec == Init /\ [][Next]_vars

(* The behaviours of Spec in which one call of next() at a time runs, while *)
(* any number of requests run on the targets they were given.              *)
OneAtATime == Cardinality({c \in Callers : pc[c] = "scan"}) <= 1
SerialSpec == Init /\ [][Next /\ OneAtATime']_vars

-----------------------------------------------------------------------------
(* Properties *)

(* A call during which no flag changed returns an alive target, and        *)
(* returns None (the 503 of handle_request) only when no target is alive:  *)
(* the flags loaded one by one by next() then add up to one snapshot.      *)
StableChoice ==
    \A c \in Callers : pc[c] = "done" /\ stable[c] =>
        /\ result[c] = None <=> \A t \in TargetIds : ~alive[t]
        /\ result[c] # None => alive[result[c]]

(* RoundRobin::next serves no target twice before it served every alive    *)
(* target once, whichever threads take the tickets, as long as the flags   *)
(* stand still and the counter does not jump at its wrap-around.           *)
RoundRobinRotation ==
    [][\A c \in Callers : PickRoundRobin(c) /\ Steady(c) => result'[c] \notin round]_vars

(* The requests that run on target t. *)
Running(t) == Cardinality({c \in Callers : pc[c] = "done" /\ result[c] = t})

(* LeastConn::next balances by the number of requests that run on each     *)
(* target, which `active' counts for it (balancer.rs:10: "현재 활성 연결   *)
(* 수 (least_conn용)"): it chooses a target on which no more requests run  *)
(* than on any other it saw alive.                                         *)
LeastConnBalances ==
    [][\A c \in Callers : PickLeastConn(c) =>
            \A i \in DOMAIN seen[c] : Running(result'[c]) <= Running(seen[c][i])]_vars

(* ConsistentHash::next sends a key to one target while the flags stand    *)
(* still, whichever thread asks.                                           *)
StickyKey ==
    Kind = "consistent_hash" =>
        \A c, d \in Callers :
            (/\ pc[c] = "done" /\ pc[d] = "done"
             /\ stable[c] /\ stable[d] /\ key[c] = key[d]) => result[c] = result[d]
=============================================================================
