------------------------- MODULE HealthCheckProofs --------------------------
(***************************************************************************)
(* Theorems about HealthCheck, for every set of targets and every number   *)
(* of overlapping probes.                                                  *)
(***************************************************************************)
EXTENDS HealthCheck, TLAPS

(* The flags and the probe counts keep their types: no probe is taken out  *)
(* of a stage it is not in.                                                *)
THEOREM TypeCorrect == Spec => []TypeOK
  <1>1. Init => TypeOK
    BY DEF Init, TypeOK
  <1>2. TypeOK /\ [Next]_vars => TypeOK'
    <2> SUFFICES ASSUME TypeOK, [Next]_vars PROVE TypeOK'
      OBVIOUS
    <2>1. CASE SpawnProbes
      <3>1. \A t \in Targets : [probes[t] EXCEPT !["sent"] = @ + 1] \in [Stages -> Nat]
        BY DEF TypeOK, Stages
      <3> QED
        BY <2>1, <3>1 DEF SpawnProbes, TypeOK
    <2>2. ASSUME NEW t \in Targets, Answer(t) PROVE TypeOK'
      <3>1. Verdict(t) \in {"good", "bad"}
        BY DEF Verdict
      <3>2. probes[t] \in [Stages -> Nat] /\ probes[t]["sent"] > 0
        BY <2>2 DEF Answer, TypeOK
      <3>3. Answered(t) \in [Stages -> Nat]
        BY <3>1, <3>2 DEF Answered, Stages
      <3> QED
        BY <2>2, <3>3 DEF Answer, TypeOK
    <2>3. ASSUME NEW t \in Targets, NEW s \in {"good", "bad"}, Store(t, s) PROVE TypeOK'
      <3>1. [probes[t] EXCEPT ![s] = @ - 1] \in [Stages -> Nat]
        BY <2>3 DEF Store, TypeOK, Stages
      <3>2. probes' = [probes EXCEPT ![t] = [probes[t] EXCEPT ![s] = @ - 1]]
        BY <2>3 DEF Store
      <3> QED
        BY <2>3, <3>1, <3>2 DEF Store, TypeOK
    <2>4. ASSUME NEW t \in Targets, NEW s \in Conditions, ServerTurns(t, s) PROVE TypeOK'
      BY <2>4 DEF ServerTurns, TypeOK
    <2>5. CASE UNCHANGED vars
      BY <2>5 DEF vars, TypeOK
    <2> QED
      BY <2>1, <2>2, <2>3, <2>4, <2>5 DEF Next
  <1> QED
    BY <1>1, <1>2, PTL DEF Spec

(* A step that leaves the server of a settled target alone leaves it       *)
(* settled.                                                                *)
LEMMA SettledStep ==
    ASSUME TypeOK, Next, NEW t \in Targets, Settled(t), server'[t] = server[t]
    PROVE  Settled(t)'
  <1>0. probes[t] \in [Stages -> Nat]
    BY DEF TypeOK
  <1>1. CASE SpawnProbes
    <2>1. probes'[t]["good"] = probes[t]["good"] /\ probes'[t]["bad"] = probes[t]["bad"]
      BY <1>0, <1>1 DEF SpawnProbes, TypeOK, Stages
    <2> QED
      BY <1>1, <2>1 DEF SpawnProbes, Settled
  <1>2. ASSUME NEW u \in Targets, Answer(u) PROVE Settled(t)'
    <2>1. CASE u = t
      <3>1. probes'[t] = Answered(t)
        BY <1>2, <2>1 DEF Answer, TypeOK
      <3>2. CASE server[t] = "up"
        <4>1. probes'[t]["bad"] = probes[t]["bad"]
          BY <1>0, <3>1, <3>2 DEF Answered, Verdict, Stages
        <4> QED
          BY <1>2, <3>2, <4>1 DEF Answer, Settled
      <3>3. CASE server[t] = "down"
        <4>1. probes'[t]["good"] = probes[t]["good"]
          BY <1>0, <3>1, <3>3 DEF Answered, Verdict, Stages
        <4> QED
          BY <1>2, <3>3, <4>1 DEF Answer, Settled
      <3> QED
        BY <3>2, <3>3 DEF Settled
    <2>2. CASE u # t
      BY <1>2, <2>2 DEF Answer, Settled, TypeOK
    <2> QED
      BY <2>1, <2>2
  <1>3. ASSUME NEW u \in Targets, NEW s \in {"good", "bad"}, Store(u, s) PROVE Settled(t)'
    <2>1. CASE u = t
      <3>1. /\ probes[t][s] > 0 /\ alive'[t] = (s = "good") /\ server' = server
            /\ probes'[t] = [probes[t] EXCEPT ![s] = @ - 1]
        BY <1>3, <2>1 DEF Store, TypeOK
      <3>2. CASE server[t] = "up"
        <4>1. s = "good"
          BY <1>0, <3>1, <3>2 DEF Settled
        <4>2. probes'[t]["bad"] = probes[t]["bad"]
          BY <1>0, <3>1, <4>1 DEF Stages
        <4> QED
          BY <3>1, <3>2, <4>1, <4>2 DEF Settled
      <3>3. CASE server[t] = "down"
        <4>1. s = "bad"
          BY <1>0, <3>1, <3>3 DEF Settled
        <4>2. probes'[t]["good"] = probes[t]["good"]
          BY <1>0, <3>1, <4>1 DEF Stages
        <4> QED
          BY <3>1, <3>3, <4>1, <4>2 DEF Settled
      <3> QED
        BY <3>2, <3>3 DEF Settled
    <2>2. CASE u # t
      BY <1>3, <2>2 DEF Store, Settled, TypeOK
    <2> QED
      BY <2>1, <2>2
  <1>4. ASSUME NEW u \in Targets, NEW s \in Conditions, ServerTurns(u, s) PROVE Settled(t)'
    BY <1>4 DEF ServerTurns, Settled
  <1> QED
    BY <1>1, <1>2, <1>3, <1>4 DEF Next

(* However many probes overlap and in whatever order they finish, a flag   *)
(* that agrees with its server and has no contrary verdict on the way      *)
(* stays so until the server changes.                                      *)
THEOREM SettledStaysCorrect == Spec => SettledStays
  <1>1. TypeOK /\ [Next]_vars =>
            [\A t \in Targets : Settled(t) /\ server'[t] = server[t] => Settled(t)']_vars
    BY SettledStep
  <1> QED
    BY <1>1, TypeCorrect, PTL DEF Spec, SettledStays
=============================================================================
