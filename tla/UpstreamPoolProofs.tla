------------------------- MODULE UpstreamPoolProofs -------------------------
(***************************************************************************)
(* The pool is the composition of its two parts: whatever holds of the     *)
(* health checks alone (HealthCheckProofs) and of the balancer under any   *)
(* health checks (BalancerProofs) holds of the pool.                       *)
(***************************************************************************)
EXTENDS UpstreamPool, HealthCheckProofs

(* A step of the pool is one of the health checks, or leaves their state   *)
(* alone.                                                                  *)
LEMMA ChecksStep == PoolNext => [Next]_vars
  <1> SUFFICES ASSUME PoolNext PROVE Next \/ UNCHANGED vars
    OBVIOUS
  <1>1. ASSUME NEW c \in Callers, NEW n \in Names, NEW k \in Keys, NextUrl(c, n, k)
        PROVE  UNCHANGED vars
    BY <1>1 DEF NextUrl, B!Call, probeVars, vars
  <1>2. ASSUME NEW c \in Callers, Proceed(c) PROVE UNCHANGED vars
    BY <1>2 DEF Proceed, B!Scan, B!PickNone, B!PickRoundRobin, B!PickLeastConn,
                B!PickConsistentHash, B!Release, B!Return, probeVars, vars
  <1>3. CASE WakeUp
    BY <1>3 DEF WakeUp, Next
  <1>4. ASSUME NEW t \in Targets, Probe(t) PROVE Next
    BY <1>4 DEF Probe, Next
  <1>5. ASSUME NEW t \in Targets, NEW s \in {"good", "bad"}, StoreFlag(t, s) PROVE Next
    BY <1>5 DEF StoreFlag, Next
  <1>6. ASSUME NEW t \in Targets, NEW s \in Conditions, ServerTurns(t, s) PROVE Next
    BY <1>6 DEF Next
  <1> QED
    BY <1>1, <1>2, <1>3, <1>4, <1>5, <1>6 DEF PoolNext

LEMMA ChecksRun == PoolSpec => Spec
  <1>1. PoolInit => Init
    BY DEF PoolInit
  <1>2. [PoolNext]_poolVars => [Next]_vars
    BY ChecksStep DEF poolVars
  <1> QED
    BY <1>1, <1>2, PTL DEF PoolSpec, Spec

(* With any number of callers beside the probes, flags and probe counts    *)
(* keep their types.                                                       *)
THEOREM PoolTypeCorrect == PoolSpec => []TypeOK
  BY ChecksRun, TypeCorrect, PTL

(* Nor do the callers of next_url bring a stale verdict back.              *)
THEOREM PoolSettledStays == PoolSpec => SettledStays
  BY ChecksRun, SettledStaysCorrect, PTL

(* What a caller meets in the pool is what Balancer allows: the health     *)
(* checks change the flags only in the steps that Balancer has for them,   *)
(* one flag at a time, and touch nothing else of the balancer.             *)
THEOREM PoolImplementsBalancer == PoolSpec => B!Spec
  <1>1. PoolInit => B!Init
    BY DEF PoolInit
  <1>2. [PoolNext]_poolVars => [B!Next]_(B!vars)
    <2> SUFFICES ASSUME [PoolNext]_poolVars PROVE B!Next \/ UNCHANGED B!vars
      OBVIOUS
    <2>1. ASSUME NEW c \in Callers, NEW n \in Names, NEW k \in Keys, NextUrl(c, n, k) PROVE B!Next
      BY <2>1 DEF NextUrl, B!Next, B!CallerStep
    <2>2. ASSUME NEW c \in Callers, Proceed(c) PROVE B!Next
      BY <2>2 DEF Proceed, B!Next, B!CallerStep
    <2>3. CASE WakeUp
      BY <2>3 DEF WakeUp, SpawnProbes, callerVars, B!vars
    <2>4. ASSUME NEW t \in Targets, Probe(t) PROVE UNCHANGED B!vars
      BY <2>4 DEF Probe, Answer, callerVars, B!vars
    <2>5. ASSUME NEW t \in Targets, NEW s \in {"good", "bad"}, StoreFlag(t, s)
          PROVE  B!Next \/ UNCHANGED B!vars
      <3>1. CASE alive' = alive
        BY <2>5, <3>1 DEF StoreFlag, callerVars, B!vars
      <3>2. CASE alive' # alive
        <4>1. B!StoreAlive(t, s = "good")
          BY <2>5, <3>2 DEF StoreFlag
        <4>2. t \in B!TargetIds /\ (s = "good") \in BOOLEAN
          BY TargetsAssumption DEF B!TargetIds
        <4> QED
          BY <4>1, <4>2 DEF B!Next
      <3> QED
        BY <3>1, <3>2
    <2>6. ASSUME NEW t \in Targets, NEW s \in Conditions, ServerTurns(t, s), UNCHANGED callerVars
          PROVE  UNCHANGED B!vars
      BY <2>6 DEF ServerTurns, callerVars, B!vars
    <2>7. CASE UNCHANGED poolVars
      BY <2>7 DEF poolVars, vars, callerVars, B!vars
    <2> QED
      BY <2>1, <2>2, <2>3, <2>4, <2>5, <2>6, <2>7 DEF PoolNext
  <1> QED
    BY <1>1, <1>2, PTL DEF PoolSpec, B!Spec

-----------------------------------------------------------------------------
(* The balancer's theorems, in the pool *)

BP == INSTANCE BalancerProofs

LEMMA BalancerConstants == BP!NAssumption /\ BP!HashAssumption /\ BP!CounterModAssumption
  BY BalancerAssumption DEF BP!NAssumption, BP!HashAssumption, BP!CounterModAssumption

(* BP's copies of the definitions are those of B. *)
LEMMA SameVector == BP!AliveSeq = B!AliveSeq /\ \A S : BP!Cardinality(S) = B!Cardinality(S)
  BY DEF BP!AliveSeq, B!AliveSeq, BP!Filtered, B!Filtered, BP!TargetIds, B!TargetIds,
         BP!Cardinality, B!Cardinality

LEMMA SamePicks ==
    ASSUME NEW c
    PROVE  /\ BP!PickNone(c) <=> B!PickNone(c)
           /\ BP!PickRoundRobin(c) <=> B!PickRoundRobin(c)
           /\ BP!PickLeastConn(c) <=> B!PickLeastConn(c)
           /\ BP!PickConsistentHash(c) <=> B!PickConsistentHash(c)
  <1> USE DEF BP!Collected, B!Collected, BP!Return, B!Return, BP!Kind, B!Kind
  <1>1. BP!PickNone(c) <=> B!PickNone(c)
    BY DEF BP!PickNone, B!PickNone, BP!None, B!None
  <1>2. BP!PickRoundRobin(c) <=> B!PickRoundRobin(c)
    BY SameVector DEF BP!PickRoundRobin, B!PickRoundRobin, BP!Steady, B!Steady, BP!Ticket, B!Ticket
  <1>3. BP!PickLeastConn(c) <=> B!PickLeastConn(c)
    BY DEF BP!PickLeastConn, B!PickLeastConn, BP!LeastActive, B!LeastActive
  <1>4. BP!PickConsistentHash(c) <=> B!PickConsistentHash(c)
    BY DEF BP!PickConsistentHash, B!PickConsistentHash, BP!Place, B!Place
  <1> QED
    BY <1>1, <1>2, <1>3, <1>4

LEMMA SameCalls ==
    /\ \A c : \A k : BP!Call(c, k) <=> B!Call(c, k)
    /\ \A c : BP!Scan(c) <=> B!Scan(c)
    /\ \A c : BP!Release(c) <=> B!Release(c)
    /\ \A t, b : BP!StoreAlive(t, b) <=> B!StoreAlive(t, b)
  BY DEF BP!Call, B!Call, BP!Scan, B!Scan, BP!Release, B!Release, BP!None, B!None,
         BP!StoreAlive, B!StoreAlive

LEMMA SameNext == BP!Next <=> B!Next
  BY SamePicks, SameCalls
     DEF BP!Next, B!Next, BP!CallerStep, B!CallerStep, BP!TargetIds, B!TargetIds

LEMMA BalancerRuns == PoolSpec => BP!Spec
  <1>1. B!Init => BP!Init
    BY DEF BP!Init, B!Init, BP!TargetIds, B!TargetIds, BP!None, B!None
  <1>2. [B!Next]_(B!vars) => [BP!Next]_(BP!vars)
    BY SameNext DEF BP!vars, B!vars
  <1> QED
    BY <1>1, <1>2, PoolImplementsBalancer, PTL DEF B!Spec, BP!Spec

(* With the health checks storing into the flags: a call during which no   *)
(* flag changed returns an alive target, and None only if there is none.   *)
THEOREM PoolStableChoice == PoolSpec => []B!StableChoice
  <1>1. BP!Spec => []BP!StableChoice
    BY BP!StableChoiceCorrect, BalancerConstants, PTL
  <1>2. BP!StableChoice => B!StableChoice
    BY DEF BP!StableChoice, B!StableChoice, BP!TargetIds, B!TargetIds, BP!None, B!None
  <1> QED
    BY <1>1, <1>2, BalancerRuns, PTL

(* A key is sent to one target while the health checks change no flag. *)
THEOREM PoolStickyKey == PoolSpec => []B!StickyKey
  <1>1. BP!Spec => []BP!StickyKey
    BY BP!StickyKeyCorrect, BalancerConstants, PTL
  <1>2. BP!StickyKey => B!StickyKey
    BY DEF BP!StickyKey, B!StickyKey, BP!Kind, B!Kind
  <1> QED
    BY <1>1, <1>2, BalancerRuns, PTL

(* A rotation serves every alive target once before it serves one twice,   *)
(* in the pool as well.                                                    *)
THEOREM PoolRotation == PoolSpec => B!RoundRobinRotation
  <1>1. BP!Spec => BP!RoundRobinRotation
    BY BP!RotationCorrect, BalancerConstants, PTL
  <1>2. [\A c \in Callers : BP!PickRoundRobin(c) /\ BP!Steady(c) => result'[c] \notin round]_(BP!vars)
        => [\A c \in Callers : B!PickRoundRobin(c) /\ B!Steady(c) => result'[c] \notin round]_(B!vars)
    BY SamePicks, SameVector DEF BP!Steady, B!Steady, BP!vars, B!vars
  <1> QED
    BY <1>1, <1>2, BalancerRuns, PTL DEF BP!RoundRobinRotation, B!RoundRobinRotation

-----------------------------------------------------------------------------
(* Requests follow the servers *)

(* The types of both parts, and the order of the vectors. *)
PoolInv == TypeOK /\ BP!TypeOK /\ BP!Idle /\ BP!OrderInv

LEMMA PoolInvCorrect == PoolSpec => []PoolInv
  <1>1. BP!Spec => [](BP!TypeOK /\ BP!Idle /\ BP!OrderInv)
    BY BP!OrderCorrect, BalancerConstants, PTL
  <1> QED
    BY <1>1, BalancerRuns, PoolTypeCorrect, PTL DEF PoolInv

Collects(c, t) == \E i \in DOMAIN seen[c] : seen[c][i] = t

LEMMA CollectsElem ==
    ASSUME NEW c \in Callers, NEW t
    PROVE  Collects(c, t) <=> t \in BP!Elems(seen[c])
  BY DEF Collects, BP!Elems

(* A step of a scan collects the target it is at if it is alive. *)
LEMMA ScanCollects ==
    ASSUME PoolInv, NEW c \in Callers, B!Scan(c), NEW t \in Targets
    PROVE  /\ at[c] \in Targets /\ at'[c] = at[c] + 1 /\ pc[c] = "scan"
           /\ Collects(c, t)' <=> Collects(c, t) \/ (t = at[c] /\ alive[t])
           /\ t = at[c] => ~Collects(c, t)
  <1>1. BP!TargetIds = 1..N /\ N \in Nat
    BY BalancerAssumption DEF BP!TargetIds
  <1>2. at[c] \in 1..N /\ at'[c] = at[c] + 1 /\ pc[c] = "scan" /\ seen[c] \in Seq(1..N)
    BY <1>1 DEF PoolInv, BP!TypeOK, B!Scan
  <1>3. seen'[c] = IF alive[at[c]] THEN Append(seen[c], at[c]) ELSE seen[c]
    BY DEF PoolInv, BP!TypeOK, B!Scan
  <1>4. BP!Elems(seen'[c]) = BP!Elems(seen[c]) \cup {u \in {at[c]} : alive[u]}
    <2>1. BP!Elems(Append(seen[c], at[c])) = BP!Elems(seen[c]) \cup {at[c]}
      BY <1>1, <1>2, BP!AppendElems, BalancerConstants
    <2> QED
      BY <1>3, <2>1
  <1>5. Collects(c, t)' <=> t \in BP!Elems(seen'[c])
    BY DEF Collects, BP!Elems
  <1>6. t = at[c] => ~Collects(c, t)
    BY <1>2, CollectsElem DEF PoolInv, BP!OrderInv
  <1> QED
    BY <1>2, <1>4, <1>5, <1>6, CollectsElem, TargetsAssumption

(* A call returns what its vector holds, or None from an empty one. *)
LEMMA PickCollected ==
    ASSUME PoolInv, NEW c \in Callers, Proceed(c), pc'[c] = "done"
    PROVE  /\ pc[c] = "scan" /\ at[c] = N + 1
           /\ \/ result'[c] = B!None /\ seen[c] = <<>>
              \/ Collects(c, result'[c]) /\ result'[c] \in Targets
  <1>2. ~B!Scan(c) /\ ~B!Release(c)
    BY DEF B!Scan, B!Release, PoolInv, BP!TypeOK
  <1>3. ASSUME NEW r, B!Collected(c), B!Return(c, r)
        PROVE  pc[c] = "scan" /\ at[c] = N + 1 /\ result'[c] = r
    BY <1>3 DEF B!Collected, B!Return, PoolInv, BP!TypeOK
  <1>4. CASE B!PickNone(c)
    BY <1>3, <1>4 DEF B!PickNone
  <1>5. ASSUME NEW r, B!Collected(c), B!Return(c, r), r \in BP!Elems(seen[c])
        PROVE  /\ pc[c] = "scan" /\ at[c] = N + 1
               /\ Collects(c, result'[c]) /\ result'[c] \in Targets
    <2>1. BP!Elems(seen[c]) \subseteq BP!TargetIds
      BY BP!ElemsType, BalancerConstants DEF PoolInv, BP!TypeOK
    <2>2. r \in Targets
      BY <1>5, <2>1, TargetsAssumption DEF BP!TargetIds
    <2> QED
      BY <1>3, <1>5, <2>2, CollectsElem
  <1>6. ASSUME seen[c] # <<>>
        PROVE  /\ B!LeastActive(seen[c]) \in BP!Elems(seen[c])
               /\ B!Place(seen[c], key[c]) \in BP!Elems(seen[c])
               /\ seen[c][(counter % Len(seen[c])) + 1] \in BP!Elems(seen[c])
    <2>1. /\ BP!LeastActive(seen[c]) \in BP!Elems(seen[c])
          /\ BP!Place(seen[c], key[c]) \in BP!Elems(seen[c])
          /\ seen[c][(counter % Len(seen[c])) + 1] \in BP!Elems(seen[c])
      BY <1>6, BP!PickElem, BalancerConstants DEF PoolInv
    <2> QED
      BY <2>1 DEF B!LeastActive, BP!LeastActive, B!Place, BP!Place
  <1>7. CASE B!PickRoundRobin(c)
    BY <1>5, <1>6, <1>7 DEF B!PickRoundRobin
  <1>8. CASE B!PickLeastConn(c)
    BY <1>5, <1>6, <1>8 DEF B!PickLeastConn
  <1>9. CASE B!PickConsistentHash(c)
    BY <1>5, <1>6, <1>9 DEF B!PickConsistentHash
  <1> QED
    BY <1>2, <1>4, <1>7, <1>8, <1>9 DEF Proceed

(* What a scan has collected of a settled target stays right. *)
LEMMA ObeyedStep ==
    ASSUME PoolInv, PoolNext, NEW t \in Targets, Obeyed(t), server'[t] = server[t]
    PROVE  Obeyed(t)'
  <1> DEFINE Right(c) == pc[c] = "scan" /\ t < at[c] => (Collects(c, t) <=> alive[t])
  <1>1. Settled(t) /\ \A c \in Callers : Right(c)
    BY DEF Obeyed, Collects
  <1>2. Settled(t)'
    <2>1. Next \/ UNCHANGED vars
      BY ChecksStep
    <2>2. CASE Next
      BY <1>1, <2>2, SettledStep DEF PoolInv
    <2>3. CASE UNCHANGED vars
      BY <1>1, <2>3 DEF vars, Settled
    <2> QED
      BY <2>1, <2>2, <2>3
  <1>3. alive'[t] <=> alive[t]
    BY <1>1, <1>2 DEF Settled
  <1>4. t \in 1..N /\ N \in Nat
    BY TargetsAssumption, BalancerAssumption
  <1> SUFFICES ASSUME NEW c \in Callers PROVE Right(c)'
    BY <1>2 DEF Obeyed, Collects
  <1>5. ASSUME seen'[c] = seen[c], at'[c] = at[c], pc'[c] = "scan" => pc[c] = "scan"
        PROVE  Right(c)'
    BY <1>1, <1>3, <1>5 DEF Collects
  <1>6. ASSUME NEW d \in Callers, NEW n \in Names, NEW k \in Keys, NextUrl(d, n, k) PROVE Right(c)'
    <2>1. CASE d = c
      <3>1. at'[c] = 1
        BY <1>6, <2>1 DEF NextUrl, B!Call, PoolInv, BP!TypeOK
      <3> QED
        BY <1>4, <3>1
    <2>2. CASE d # c
      BY <1>5, <1>6, <2>2 DEF NextUrl, B!Call, PoolInv, BP!TypeOK
    <2> QED
      BY <2>1, <2>2
  <1>7. ASSUME NEW d \in Callers, B!Scan(d) PROVE Right(c)'
    <2>1. CASE d = c
      <3>1. /\ at[c] \in 1..N /\ at'[c] = at[c] + 1 /\ pc[c] = "scan"
            /\ Collects(c, t)' <=> Collects(c, t) \/ (t = at[c] /\ alive[t])
            /\ t = at[c] => ~Collects(c, t)
        BY <1>7, <2>1, ScanCollects, TargetsAssumption
      <3>2. CASE t < at[c]
        BY <1>1, <1>3, <1>4, <3>1, <3>2
      <3>3. CASE t = at[c]
        BY <1>3, <3>1, <3>3
      <3>4. CASE t > at[c]
        BY <1>4, <3>1, <3>4
      <3> QED
        BY <1>4, <3>1, <3>2, <3>3, <3>4
    <2>2. CASE d # c
      BY <1>5, <1>7, <2>2 DEF B!Scan, PoolInv, BP!TypeOK
    <2> QED
      BY <2>1, <2>2
  <1>8. ASSUME NEW d \in Callers, Proceed(d), ~B!Scan(d) PROVE Right(c)'
    <2>1. UNCHANGED <<seen, at>> /\ (pc'[c] = "scan" => pc[c] = "scan")
      BY <1>8 DEF Proceed, B!PickNone, B!PickRoundRobin, B!PickLeastConn, B!PickConsistentHash,
                  B!Return, B!Release, PoolInv, BP!TypeOK
    <2> QED
      BY <1>5, <2>1
  <1>9. CASE UNCHANGED <<seen, at, pc>>
    BY <1>5, <1>9
  <1>10. CASE WakeUp
    BY <1>9, <1>10 DEF WakeUp, callerVars
  <1>11. ASSUME NEW u \in Targets, Probe(u) PROVE Right(c)'
    BY <1>9, <1>11 DEF Probe, callerVars
  <1>12. ASSUME NEW u \in Targets, NEW s \in {"good", "bad"}, StoreFlag(u, s) PROVE Right(c)'
    BY <1>9, <1>12 DEF StoreFlag, B!StoreAlive, callerVars
  <1>13. ASSUME NEW u \in Targets, NEW s \in Conditions, ServerTurns(u, s), UNCHANGED callerVars
         PROVE  Right(c)'
    BY <1>9, <1>13 DEF callerVars
  <1> QED
    BY <1>6, <1>7, <1>8, <1>10, <1>11, <1>12, <1>13 DEF PoolNext

(* Any number of targets, probes and callers: once the flag of a target is *)
(* settled and the scans under way have it right, no request is sent to it *)
(* while it is down, and none is refused while it is up.                   *)
THEOREM RequestsFollowCorrect == PoolSpec => RequestsFollow
  <1>1. PoolInv /\ [PoolNext]_poolVars =>
            [\A t \in Targets : Obeyed(t) /\ server'[t] = server[t] =>
                /\ Obeyed(t)'
                /\ \A c \in Callers : Proceed(c) /\ pc'[c] = "done" =>
                        /\ alive[t] => result'[c] # B!None
                        /\ ~alive[t] => result'[c] # t]_poolVars
    <2> SUFFICES ASSUME PoolInv, PoolNext, NEW t \in Targets, Obeyed(t), server'[t] = server[t]
                 PROVE  /\ Obeyed(t)'
                        /\ \A c \in Callers : Proceed(c) /\ pc'[c] = "done" =>
                                /\ alive[t] => result'[c] # B!None
                                /\ ~alive[t] => result'[c] # t
      OBVIOUS
    <2>1. Obeyed(t)'
      BY ObeyedStep
    <2>2. ASSUME NEW c \in Callers, Proceed(c), pc'[c] = "done"
          PROVE  (alive[t] => result'[c] # B!None) /\ (~alive[t] => result'[c] # t)
      <3>1. t \in Nat \ {0} /\ t < N + 1 /\ \A u \in Targets : u # B!None
        BY TargetsAssumption, BalancerAssumption DEF B!None
      <3>2. /\ pc[c] = "scan" /\ at[c] = N + 1
            /\ \/ result'[c] = B!None /\ seen[c] = <<>>
               \/ Collects(c, result'[c]) /\ result'[c] \in Targets
        BY <2>2, PickCollected
      <3>3. Collects(c, t) <=> alive[t]
        BY <3>1, <3>2 DEF Obeyed, Collects
      <3>4. seen[c] = <<>> => ~Collects(c, t)
        BY DEF Collects
      <3> QED
        BY <3>1, <3>2, <3>3, <3>4
    <2> QED
      BY <2>1, <2>2
  <1> QED
    BY <1>1, PoolInvCorrect, PTL DEF PoolSpec, RequestsFollow
=============================================================================
