--------------------------- MODULE BalancerProofs ---------------------------
(***************************************************************************)
(* Theorems about Balancer, for every number of targets, callers and keys, *)
(* every hash function and every width of the counter.                     *)
(***************************************************************************)
EXTENDS Balancer, FiniteSetTheorems, TLAPS

Elems(s) == {s[i] : i \in DOMAIN s}

(* A remainder is a position of a sequence that is not empty. *)
LEMMA RemainderIndexes ==
    ASSUME NEW s \in Seq(TargetIds), s # <<>>, NEW n \in Nat
    PROVE  (n % Len(s)) + 1 \in DOMAIN s
  <1>1. Len(s) \in Nat /\ Len(s) > 0 /\ DOMAIN s = 1..Len(s)
    OBVIOUS
  <1>2. n % Len(s) \in 0..(Len(s) - 1)
    BY <1>1
  <1> QED
    BY <1>1, <1>2

(* Nothing writes Target.active. *)
Idle == active = [t \in TargetIds |-> 0]

(* LeastConn chooses an element of the vector: the first, all being equal. *)
LEMMA LeastActiveElem ==
    ASSUME Idle, NEW s \in Seq(TargetIds), s # <<>>
    PROVE  LeastActive(s) \in Elems(s)
  <1>1. Len(s) \in Nat /\ Len(s) > 0 /\ DOMAIN s = 1..Len(s)
    OBVIOUS
  <1>2. \A i \in DOMAIN s : active[s[i]] = 0
    BY <1>1 DEF Idle
  <1>3. \E i \in DOMAIN s :
            /\ \A j \in DOMAIN s : active[s[i]] <= active[s[j]]
            /\ \A j \in 1..(i - 1) : active[s[i]] < active[s[j]]
    <2>1. 1 \in DOMAIN s
      BY <1>1
    <2>2. /\ \A j \in DOMAIN s : active[s[1]] <= active[s[j]]
          /\ \A j \in 1..(1 - 1) : active[s[1]] < active[s[j]]
      BY <1>2, <2>1
    <2> QED
      BY <2>1, <2>2
  <1> QED
    BY <1>3 DEF LeastActive, Elems

LEMMA AppendElems ==
    ASSUME NEW s \in Seq(TargetIds), NEW t \in TargetIds
    PROVE  Elems(Append(s, t)) = Elems(s) \cup {t}
  <1> DEFINE a == Append(s, t)
  <1>1. /\ a \in Seq(TargetIds) /\ Len(s) \in Nat /\ Len(a) = Len(s) + 1
        /\ a[Len(s) + 1] = t /\ \A i \in 1..Len(s) : a[i] = s[i]
    OBVIOUS
  <1>2. DOMAIN a = 1..(Len(s) + 1) /\ DOMAIN s = 1..Len(s)
    BY <1>1
  <1>3. DOMAIN a = DOMAIN s \cup {Len(s) + 1}
    BY <1>1, <1>2
  <1> HIDE DEF a
  <1>4. Elems(a) = Elems(s) \cup {t}
    BY <1>1, <1>2, <1>3 DEF Elems
  <1> QED
    BY <1>4 DEF a

(* The vector of a call that no flag change disturbed holds exactly the    *)
(* alive targets before the position of its scan.                          *)
ScanInv ==
    /\ Idle
    /\ \A c \in Callers : pc[c] = "scan" /\ stable[c] =>
            Elems(seen[c]) = {t \in TargetIds : t < at[c] /\ alive[t]}
    /\ StableChoice

(* What a pick returns is in the vector. *)
LEMMA PickElem ==
    ASSUME TypeOK, Idle, NEW c \in Callers, seen[c] # <<>>
    PROVE  /\ LeastActive(seen[c]) \in Elems(seen[c])
           /\ Place(seen[c], key[c]) \in Elems(seen[c])
           /\ seen[c][(counter % Len(seen[c])) + 1] \in Elems(seen[c])
  <1>1. seen[c] \in Seq(TargetIds) /\ Hash[key[c]] \in Nat /\ counter \in Nat
    BY HashAssumption, CounterModAssumption DEF TypeOK
  <1> QED
    BY <1>1, RemainderIndexes, LeastActiveElem DEF Place, Elems

LEMMA ElemsType ==
    ASSUME NEW s \in Seq(TargetIds)
    PROVE  Elems(s) \subseteq TargetIds /\ (s = <<>> <=> Elems(s) = {})
  <1>1. DOMAIN s = 1..Len(s) /\ Len(s) \in Nat
    OBVIOUS
  <1>2. ASSUME s # <<>> PROVE s[1] \in Elems(s)
    BY <1>1, <1>2 DEF Elems
  <1>3. \A i \in DOMAIN s : s[i] \in TargetIds
    BY <1>1
  <1> QED
    BY <1>2, <1>3 DEF Elems

LEMMA TypeStep == TypeOK /\ Idle /\ [Next]_vars => TypeOK' /\ Idle'
  <1> SUFFICES ASSUME TypeOK, Idle, [Next]_vars PROVE TypeOK' /\ Idle'
    OBVIOUS
  <1>1. ASSUME NEW c \in Callers, NEW k \in Keys, Call(c, k) PROVE TypeOK' /\ Idle'
    BY <1>1, NAssumption DEF Call, TypeOK, Idle
  <1>2. ASSUME NEW c \in Callers, Scan(c) PROVE TypeOK' /\ Idle'
    <2>1. at[c] \in TargetIds /\ at[c] + 1 \in 1..(N + 1)
      BY <1>2, NAssumption DEF Scan, TypeOK, TargetIds
    <2>2. Append(seen[c], at[c]) \in Seq(TargetIds)
      BY <2>1 DEF TypeOK
    <2> QED
      BY <1>2, <2>1, <2>2 DEF Scan, TypeOK, Idle
  <1>3. ASSUME NEW c \in Callers, PickNone(c) PROVE TypeOK' /\ Idle'
    BY <1>3 DEF PickNone, Return, TypeOK, Idle
  <1>4. ASSUME NEW c \in Callers, NEW t \in TargetIds, Return(c, t), counter' = counter, round' = round
        PROVE  TypeOK' /\ Idle'
    BY <1>4 DEF Return, TypeOK, Idle
  <1>5. ASSUME NEW c \in Callers, seen[c] # <<>>
        PROVE  Elems(seen[c]) \subseteq TargetIds
    BY ElemsType DEF TypeOK
  <1>6. ASSUME NEW c \in Callers, PickRoundRobin(c) PROVE TypeOK' /\ Idle'
    <2> DEFINE t == seen[c][(counter % Len(seen[c])) + 1]
    <2>1. t \in TargetIds
      BY <1>5, <1>6, PickElem DEF PickRoundRobin
    <2>2. counter' \in 0..(CounterMod - 1)
      BY <1>6, CounterModAssumption DEF PickRoundRobin, Ticket, TypeOK
    <2>3. round' \subseteq TargetIds
      BY <1>6, <2>1 DEF PickRoundRobin, TypeOK
    <2>4. Return(c, t)
      BY <1>6 DEF PickRoundRobin
    <2> HIDE DEF t
    <2> QED
      BY <2>1, <2>2, <2>3, <2>4 DEF Return, TypeOK, Idle
  <1>7. ASSUME NEW c \in Callers, PickLeastConn(c) PROVE TypeOK' /\ Idle'
    BY <1>4, <1>5, <1>7, PickElem DEF PickLeastConn
  <1>8. ASSUME NEW c \in Callers, PickConsistentHash(c) PROVE TypeOK' /\ Idle'
    BY <1>4, <1>5, <1>8, PickElem DEF PickConsistentHash
  <1>9. ASSUME NEW c \in Callers, Release(c) PROVE TypeOK' /\ Idle'
    BY <1>9 DEF Release, TypeOK, Idle
  <1>10. ASSUME NEW t \in TargetIds, NEW b \in BOOLEAN, StoreAlive(t, b) PROVE TypeOK' /\ Idle'
    BY <1>10 DEF StoreAlive, TypeOK, Idle
  <1>11. CASE UNCHANGED vars
    BY <1>11 DEF vars, TypeOK, Idle
  <1> QED
    BY <1>1, <1>2, <1>3, <1>6, <1>7, <1>8, <1>9, <1>10, <1>11 DEF Next, CallerStep

LEMMA TypeInit == Init => TypeOK /\ Idle
  BY NAssumption, CounterModAssumption DEF Init, TypeOK, Idle

(* The state of the balancer keeps its type; the counter stays below its   *)
(* width and every result is a target of the upstream or None.             *)
THEOREM TypeCorrect == Spec => []TypeOK
  <1>1. Init => TypeOK /\ Idle
    BY TypeInit
  <1>2. TypeOK /\ Idle /\ [Next]_vars => (TypeOK /\ Idle)'
    BY TypeStep
  <1> QED
    BY <1>1, <1>2, PTL DEF Spec

(* A pick after an undisturbed scan has the choice that StableChoice asks  *)
(* for: the vector is then the set of the alive targets.                   *)
LEMMA StablePick ==
    ASSUME TypeOK, ScanInv, NEW c \in Callers, Collected(c), stable[c]
    PROVE  /\ Elems(seen[c]) = {t \in TargetIds : alive[t]}
           /\ seen[c] = <<>> <=> \A t \in TargetIds : ~alive[t]
  <1>1. \A t \in TargetIds : t < at[c]
    BY NAssumption DEF Collected, TargetIds
  <1>2. Elems(seen[c]) = {t \in TargetIds : alive[t]}
    BY <1>1 DEF ScanInv, Collected
  <1>3. seen[c] = <<>> <=> Elems(seen[c]) = {}
    BY ElemsType DEF TypeOK
  <1> QED
    BY <1>2, <1>3

LEMMA ScanStep == TypeOK /\ ScanInv /\ [Next]_vars => ScanInv'
  <1> SUFFICES ASSUME TypeOK, ScanInv, [Next]_vars PROVE ScanInv'
    OBVIOUS
  <1>0. Idle /\ Idle' /\ TypeOK'
    BY TypeStep DEF ScanInv
  <1>1. ASSUME NEW c \in Callers, NEW k \in Keys, Call(c, k) PROVE ScanInv'
    <2>1. Elems(<<>>) = {}
      BY DEF Elems
    <2>2. {t \in TargetIds : t < 1 /\ alive[t]} = {}
      BY NAssumption DEF TargetIds
    <2> QED
      BY <1>0, <1>1, <2>1, <2>2 DEF Call, ScanInv, StableChoice, TypeOK
  <1>2. ASSUME NEW c \in Callers, Scan(c) PROVE ScanInv'
    <2>1. at[c] \in TargetIds /\ at'[c] = at[c] + 1 /\ at[c] \in Nat
      BY <1>2, NAssumption DEF Scan, TypeOK, TargetIds
    <2>2. Elems(seen'[c]) = IF alive[at[c]] THEN Elems(seen[c]) \cup {at[c]} ELSE Elems(seen[c])
      BY <1>2, <2>1, AppendElems DEF Scan, TypeOK
    <2>3. {t \in TargetIds : t < at'[c] /\ alive[t]} =
              {t \in TargetIds : t < at[c] /\ alive[t]} \cup {t \in {at[c]} : alive[t]}
      BY <2>1, NAssumption DEF TargetIds
    <2>4. stable[c] => Elems(seen'[c]) = {t \in TargetIds : t < at'[c] /\ alive[t]}
      BY <1>2, <2>2, <2>3 DEF Scan, ScanInv
    <2>5. \A d \in Callers \ {c} : seen'[d] = seen[d] /\ at'[d] = at[d]
      BY <1>2 DEF Scan, TypeOK
    <2> QED
      BY <1>0, <1>2, <2>4, <2>5 DEF Scan, ScanInv, StableChoice
  <1>3. ASSUME NEW c \in Callers, Collected(c), NEW r \in TargetIds \cup {None}, Return(c, r),
               stable[c] => /\ r = None <=> \A t \in TargetIds : ~alive[t]
                            /\ r # None => alive[r]
        PROVE  ScanInv'
    BY <1>0, <1>3 DEF Return, ScanInv, StableChoice, TypeOK
  <1>4. ASSUME NEW c \in Callers, PickNone(c) PROVE ScanInv'
    BY <1>3, <1>4, StablePick DEF PickNone
  <1>5. ASSUME NEW c \in Callers, Collected(c), seen[c] # <<>>,
               NEW r \in Elems(seen[c]), Return(c, r)
        PROVE  ScanInv'
    <2>1. r \in TargetIds /\ r # None
      BY <1>5, ElemsType, NAssumption DEF TypeOK, TargetIds, None
    <2>2. stable[c] => alive[r]
      BY <1>5, StablePick
    <2> QED
      BY <1>3, <1>5, <2>1, <2>2
  <1>6. ASSUME NEW c \in Callers, PickRoundRobin(c) \/ PickLeastConn(c) \/ PickConsistentHash(c)
        PROVE  ScanInv'
    BY <1>0, <1>5, <1>6, PickElem DEF PickRoundRobin, PickLeastConn, PickConsistentHash
  <1>7. ASSUME NEW c \in Callers, Release(c) PROVE ScanInv'
    BY <1>0, <1>7 DEF Release, ScanInv, StableChoice, TypeOK
  <1>8. ASSUME NEW t \in TargetIds, NEW b \in BOOLEAN, StoreAlive(t, b) PROVE ScanInv'
    BY <1>0, <1>8 DEF StoreAlive, ScanInv, StableChoice
  <1>9. CASE UNCHANGED vars
    BY <1>0, <1>9 DEF vars, ScanInv, StableChoice
  <1> QED
    BY <1>1, <1>2, <1>4, <1>6, <1>7, <1>8, <1>9 DEF Next, CallerStep

(* Every balancer, with any number of targets and of concurrent callers:   *)
(* a call that no health check disturbs returns an alive target, and gives *)
(* up only when there is none.                                             *)
THEOREM StableChoiceCorrect == Spec => []StableChoice
  <1>1. Init => TypeOK /\ ScanInv
    BY TypeInit DEF Init, ScanInv, StableChoice
  <1>2. TypeOK /\ ScanInv /\ [Next]_vars => (TypeOK /\ ScanInv)'
    BY TypeStep, ScanStep DEF ScanInv
  <1>3. ScanInv => StableChoice
    BY DEF ScanInv
  <1> QED
    BY <1>1, <1>2, <1>3, PTL DEF Spec

-----------------------------------------------------------------------------
(* Consistent hashing *)

(* A call under way or over that no flag change disturbed. *)
Undisturbed(c) == pc[c] \in {"scan", "done"} /\ stable[c]

Prefix(s, r) == Len(s) <= Len(r) /\ \A i \in 1..Len(s) : s[i] = r[i]

Increasing(s) == \A i, j \in 1..Len(s) : i < j => s[i] < s[j]

(* The vectors of undisturbed calls hold the alive targets before their    *)
(* scans, in increasing order, and the vector of the scan that is behind   *)
(* is a prefix of the other; a call that is over has used all of it.       *)
StickyInv ==
    /\ \A c \in Callers : Undisturbed(c) =>
            /\ Increasing(seen[c])
            /\ Elems(seen[c]) = {t \in TargetIds : t < at[c] /\ alive[t]}
    /\ \A c, d \in Callers : Undisturbed(c) /\ Undisturbed(d) /\ at[c] <= at[d] =>
            Prefix(seen[c], seen[d])
    /\ \A c \in Callers : pc[c] = "done" =>
            /\ at[c] = N + 1
            /\ Kind = "consistent_hash" =>
                    result[c] = IF seen[c] = <<>> THEN None ELSE Place(seen[c], key[c])

LEMMA AppendPrefix ==
    ASSUME NEW s \in Seq(TargetIds), NEW t \in TargetIds, NEW r \in Seq(TargetIds), Prefix(r, s)
    PROVE  Prefix(r, Append(s, t))
  <1>1. /\ Append(s, t) \in Seq(TargetIds) /\ Len(s) \in Nat /\ Len(r) \in Nat
        /\ Len(Append(s, t)) = Len(s) + 1 /\ \A i \in 1..Len(s) : Append(s, t)[i] = s[i]
    OBVIOUS
  <1> QED
    BY <1>1 DEF Prefix

(* A scan that is behind and meets the alive target t appends the element  *)
(* that the other vector has at that place.                                *)
LEMMA CatchUp ==
    ASSUME NEW s \in Seq(TargetIds), NEW r \in Seq(TargetIds), Prefix(s, r), Increasing(r),
           NEW t \in TargetIds, NEW m \in Nat, t < m,
           Elems(s) = {u \in TargetIds : u < t /\ alive[u]},
           Elems(r) = {u \in TargetIds : u < m /\ alive[u]}, alive[t]
    PROVE  Prefix(Append(s, t), r)
  <1> DEFINE k == Len(s) + 1
  <1>1. /\ Append(s, t) \in Seq(TargetIds) /\ Len(s) \in Nat /\ Len(r) \in Nat
        /\ Len(Append(s, t)) = k /\ Append(s, t)[k] = t
        /\ \A i \in 1..Len(s) : Append(s, t)[i] = s[i]
        /\ DOMAIN r = 1..Len(r) /\ DOMAIN s = 1..Len(s)
    OBVIOUS
  <1>2. PICK j \in 1..Len(r) : r[j] = t
    BY <1>1 DEF Elems
  <1>3. \A i \in 1..Len(s) : s[i] \in Nat /\ s[i] < t /\ s[i] = r[i] /\ i <= Len(r)
    <2>1. \A i \in 1..Len(s) : s[i] \in Elems(s)
      BY <1>1 DEF Elems
    <2>2. \A i \in 1..Len(s) : s[i] \in TargetIds /\ s[i] < t
      BY <2>1
    <2> QED
      BY <1>1, <2>2, NAssumption DEF Prefix, TargetIds
  <1>4. j \notin 1..Len(s)
    BY <1>2, <1>3, NAssumption DEF TargetIds
  <1>5. k \in 1..Len(r) /\ k <= j
    BY <1>1, <1>2, <1>4
  <1>6. r[k] \in TargetIds /\ alive[r[k]] /\ r[k] <= t
    <2>1. r[k] \in Elems(r)
      BY <1>1, <1>5 DEF Elems
    <2>2. k < j => r[k] < r[j]
      BY <1>2, <1>5 DEF Increasing
    <2>3. k = j => r[k] = t
      BY <1>2
    <2> QED
      BY <1>1, <1>2, <1>5, <2>1, <2>2, <2>3, NAssumption DEF TargetIds
  <1>7. ~(r[k] < t)
    <2> SUFFICES ASSUME r[k] < t PROVE FALSE
      OBVIOUS
    <2>1. r[k] \in Elems(s)
      BY <1>6
    <2>2. PICK i \in 1..Len(s) : s[i] = r[k]
      BY <1>1, <2>1 DEF Elems
    <2>3. r[i] = r[k] /\ i < k /\ i \in 1..Len(r)
      BY <1>1, <1>3, <2>2
    <2>4. r[i] < r[k]
      BY <1>5, <2>3 DEF Increasing
    <2> QED
      BY <1>6, <2>3, <2>4, NAssumption DEF TargetIds
  <1>8. r[k] = t
    BY <1>6, <1>7, NAssumption DEF TargetIds
  <1> QED
    BY <1>1, <1>3, <1>5, <1>8 DEF Prefix

LEMMA AppendIncreasing ==
    ASSUME NEW s \in Seq(TargetIds), Increasing(s), NEW t \in TargetIds,
           \A u \in Elems(s) : u < t
    PROVE  Increasing(Append(s, t))
  <1>1. /\ Append(s, t) \in Seq(TargetIds) /\ Len(s) \in Nat
        /\ Len(Append(s, t)) = Len(s) + 1 /\ Append(s, t)[Len(s) + 1] = t
        /\ \A i \in 1..Len(s) : Append(s, t)[i] = s[i]
        /\ DOMAIN s = 1..Len(s)
    OBVIOUS
  <1>2. \A i \in 1..Len(s) : s[i] < t
    BY <1>1 DEF Elems
  <1> QED
    BY <1>1, <1>2 DEF Increasing

(* A step of the scan keeps the invariant. *)
LEMMA StickyScan ==
    ASSUME TypeOK, StickyInv, NEW c \in Callers, Scan(c)
    PROVE  StickyInv'
  <1>1. at[c] \in TargetIds /\ at'[c] = at[c] + 1 /\ at[c] \in Nat /\ seen[c] \in Seq(TargetIds)
    BY NAssumption DEF Scan, TypeOK, TargetIds
  <1>2. /\ seen'[c] = IF alive[at[c]] THEN Append(seen[c], at[c]) ELSE seen[c]
        /\ \A d \in Callers \ {c} : seen'[d] = seen[d] /\ at'[d] = at[d]
        /\ pc[c] = "scan"
        /\ UNCHANGED <<lb, alive, active, counter, pc, key, result, stable, round>>
    BY DEF Scan, TypeOK
  <1>3. \A d \in Callers : Undisturbed(d)' <=> Undisturbed(d)
    BY <1>2 DEF Undisturbed
  <1>4. \A d \in Callers : seen[d] \in Seq(TargetIds) /\ at[d] \in Nat
    BY NAssumption DEF TypeOK
  <1>5. ASSUME Undisturbed(c)
        PROVE  /\ Increasing(seen'[c])
               /\ Elems(seen'[c]) = {t \in TargetIds : t < at'[c] /\ alive[t]}
    <2>1. Increasing(seen[c]) /\ Elems(seen[c]) = {t \in TargetIds : t < at[c] /\ alive[t]}
      BY <1>5 DEF StickyInv
    <2>2. Increasing(seen'[c])
      BY <1>1, <1>2, <2>1, AppendIncreasing
    <2>3. Elems(seen'[c]) = IF alive[at[c]] THEN Elems(seen[c]) \cup {at[c]} ELSE Elems(seen[c])
      BY <1>1, <1>2, AppendElems
    <2>4. {t \in TargetIds : t < at'[c] /\ alive[t]} =
              {t \in TargetIds : t < at[c] /\ alive[t]} \cup {t \in {at[c]} : alive[t]}
      BY <1>1, NAssumption DEF TargetIds
    <2> QED
      BY <2>1, <2>2, <2>3, <2>4
  <1>6. ASSUME NEW d \in Callers, d # c, Undisturbed(c), Undisturbed(d), at[c] + 1 <= at[d]
        PROVE  Prefix(seen'[c], seen[d])
    <2>1. Prefix(seen[c], seen[d])
      BY <1>1, <1>4, <1>6 DEF StickyInv
    <2>2. /\ Increasing(seen[d]) /\ Elems(seen[d]) = {t \in TargetIds : t < at[d] /\ alive[t]}
          /\ Elems(seen[c]) = {t \in TargetIds : t < at[c] /\ alive[t]}
      BY <1>6 DEF StickyInv
    <2>3. at[c] < at[d]
      BY <1>1, <1>4, <1>6
    <2> QED
      BY <1>1, <1>2, <1>4, <2>1, <2>2, <2>3, CatchUp
  <1>7. ASSUME NEW d \in Callers, d # c, Undisturbed(c), Undisturbed(d), at[d] <= at[c] + 1
        PROVE  Prefix(seen[d], seen'[c])
    <2>1. CASE at[d] <= at[c]
      <3>1. Prefix(seen[d], seen[c])
        BY <1>7, <2>1 DEF StickyInv
      <3> QED
        BY <1>1, <1>2, <1>4, <3>1, AppendPrefix
    <2>2. CASE at[d] = at[c] + 1
      <3>1. Prefix(seen'[c], seen[d])
        BY <1>1, <1>6, <1>7, <2>2
      <3>2. /\ Increasing(seen[d]) /\ Elems(seen[d]) = {t \in TargetIds : t < at[d] /\ alive[t]}
            /\ Increasing(seen'[c]) /\ Elems(seen'[c]) = {t \in TargetIds : t < at[d] /\ alive[t]}
        BY <1>1, <1>5, <1>7, <2>2 DEF StickyInv
      <3>3. seen'[c] \in Seq(TargetIds)
        BY <1>1, <1>2
      <3> DEFINE s == seen'[c]
                 r == seen[d]
                 k == Len(s) + 1
      <3>4. ASSUME Len(s) < Len(r) PROVE FALSE
        <4>1. k \in 1..Len(r) /\ DOMAIN r = 1..Len(r) /\ DOMAIN s = 1..Len(s) /\ Len(s) \in Nat
          BY <1>4, <3>3, <3>4
        <4>2. r[k] \in Elems(s)
          BY <3>2, <4>1 DEF Elems
        <4>3. PICK i \in 1..Len(s) : s[i] = r[k]
          BY <4>1, <4>2 DEF Elems
        <4>4. r[i] = r[k] /\ i < k /\ i \in 1..Len(r)
          BY <1>4, <3>1, <4>1, <4>3 DEF Prefix
        <4>5. r[i] < r[k] /\ r[k] \in TargetIds
          BY <1>4, <3>2, <4>1, <4>4 DEF Increasing
        <4> QED
          BY <4>4, <4>5, NAssumption DEF TargetIds
      <3> QED
        BY <1>4, <3>1, <3>3, <3>4 DEF Prefix
    <2> QED
      BY <1>1, <1>4, <1>7, <2>1, <2>2
  <1>8. \A d \in Callers : Undisturbed(d)' =>
            /\ Increasing(seen'[d])
            /\ Elems(seen'[d]) = {t \in TargetIds : t < at'[d] /\ alive'[t]}
    BY <1>2, <1>3, <1>5 DEF StickyInv
  <1>9. \A d, e \in Callers : Undisturbed(d)' /\ Undisturbed(e)' /\ at'[d] <= at'[e] =>
            Prefix(seen'[d], seen'[e])
    <2> SUFFICES ASSUME NEW d \in Callers, NEW e \in Callers, Undisturbed(d), Undisturbed(e),
                        at'[d] <= at'[e]
                 PROVE  Prefix(seen'[d], seen'[e])
      BY <1>3
    <2>1. CASE d = c /\ e = c
      BY <1>1, <1>2, <2>1 DEF Prefix
    <2>2. CASE d = c /\ e # c
      BY <1>1, <1>2, <1>6, <2>2
    <2>3. CASE d # c /\ e = c
      BY <1>1, <1>2, <1>7, <2>3
    <2>4. CASE d # c /\ e # c
      BY <1>2, <2>4 DEF StickyInv
    <2> QED
      BY <2>1, <2>2, <2>3, <2>4
  <1>10. \A d \in Callers : pc'[d] = "done" =>
            /\ at'[d] = N + 1
            /\ Kind' = "consistent_hash" =>
                    result'[d] = IF seen'[d] = <<>> THEN None ELSE Place(seen'[d], key'[d])
    BY <1>2 DEF StickyInv, Kind
  <1> QED
    BY <1>8, <1>9, <1>10 DEF StickyInv

LEMMA StickyStep == TypeOK /\ TypeOK' /\ StickyInv /\ [Next]_vars => StickyInv'
  <1> SUFFICES ASSUME TypeOK, TypeOK', StickyInv, [Next]_vars PROVE StickyInv'
    OBVIOUS
  <1>1. ASSUME NEW c \in Callers, NEW k \in Keys, Call(c, k) PROVE StickyInv'
    <2>1. /\ seen'[c] = <<>> /\ at'[c] = 1 /\ pc'[c] = "scan"
          /\ \A d \in Callers \ {c} : /\ seen'[d] = seen[d] /\ at'[d] = at[d] /\ pc'[d] = pc[d]
                                      /\ key'[d] = key[d] /\ stable'[d] = stable[d]
          /\ UNCHANGED <<lb, alive, active, counter, result, round>>
      BY <1>1 DEF Call, TypeOK
    <2>2. Elems(<<>>) = {} /\ Increasing(<<>>) /\ \A s \in Seq(TargetIds) : Prefix(<<>>, s)
      BY DEF Elems, Increasing, Prefix
    <2>3. {t \in TargetIds : t < 1 /\ alive[t]} = {}
      BY NAssumption DEF TargetIds
    <2>4. \A d \in Callers : seen[d] \in Seq(TargetIds) /\ at[d] \in 1..(N + 1)
      BY DEF TypeOK
    <2>5. ASSUME NEW d \in Callers, d # c, Undisturbed(d), at[d] <= 1 PROVE seen[d] = <<>>
      <3>1. at[d] = 1
        BY <2>4, <2>5, NAssumption
      <3>2. Elems(seen[d]) = {}
        BY <2>3, <2>5, <3>1 DEF StickyInv
      <3> QED
        BY <2>4, <3>2, ElemsType
    <2>6. \A d \in Callers : Undisturbed(d)' =>
              /\ Increasing(seen'[d])
              /\ Elems(seen'[d]) = {t \in TargetIds : t < at'[d] /\ alive'[t]}
      BY <2>1, <2>2, <2>3 DEF StickyInv, Undisturbed
    <2>7. \A d, e \in Callers : Undisturbed(d)' /\ Undisturbed(e)' /\ at'[d] <= at'[e] =>
              Prefix(seen'[d], seen'[e])
      <3> SUFFICES ASSUME NEW d \in Callers, NEW e \in Callers, Undisturbed(d)', Undisturbed(e)',
                          at'[d] <= at'[e]
                   PROVE  Prefix(seen'[d], seen'[e])
        OBVIOUS
      <3>1. CASE d = c
        <4>1. seen'[e] \in Seq(TargetIds)
          BY DEF TypeOK
        <4>2. seen'[d] = <<>>
          BY <2>1, <3>1
        <4> QED
          BY <2>2, <4>1, <4>2
      <3>2. CASE d # c /\ e = c
        <4>1. Undisturbed(d) /\ at[d] <= 1
          BY <2>1, <3>2 DEF Undisturbed
        <4> QED
          BY <2>1, <2>2, <2>4, <2>5, <3>2, <4>1
      <3>3. CASE d # c /\ e # c
        BY <2>1, <3>3 DEF StickyInv, Undisturbed
      <3> QED
        BY <3>1, <3>2, <3>3
    <2>8. \A d \in Callers : pc'[d] = "done" =>
              /\ at'[d] = N + 1
              /\ Kind' = "consistent_hash" =>
                      result'[d] = IF seen'[d] = <<>> THEN None ELSE Place(seen'[d], key'[d])
      BY <2>1 DEF StickyInv, Kind
    <2> QED
      BY <2>6, <2>7, <2>8 DEF StickyInv
  <1>2. ASSUME NEW c \in Callers, Scan(c) PROVE StickyInv'
    BY <1>2, StickyScan
  <1>3. ASSUME NEW c \in Callers, Collected(c), NEW r, Return(c, r),
               Kind = "consistent_hash" =>
                    r = IF seen[c] = <<>> THEN None ELSE Place(seen[c], key[c])
        PROVE  StickyInv'
    <2>1. /\ pc'[c] = "done" /\ result'[c] = r /\ pc[c] = "scan" /\ at[c] = N + 1
          /\ \A d \in Callers \ {c} : pc'[d] = pc[d] /\ result'[d] = result[d]
          /\ UNCHANGED <<lb, alive, key, at, seen, stable>>
      BY <1>3 DEF Return, Collected, TypeOK
    <2>2. \A d \in Callers : Undisturbed(d)' <=> Undisturbed(d)
      BY <2>1 DEF Undisturbed
    <2> QED
      BY <1>3, <2>1, <2>2 DEF StickyInv, Kind
  <1>4. ASSUME NEW c \in Callers,
               PickNone(c) \/ PickRoundRobin(c) \/ PickLeastConn(c) \/ PickConsistentHash(c)
        PROVE  StickyInv'
    BY <1>3, <1>4 DEF PickNone, PickRoundRobin, PickLeastConn, PickConsistentHash
  <1>5. ASSUME NEW c \in Callers, Release(c) PROVE StickyInv'
    <2>1. /\ pc'[c] = "idle"
          /\ \A d \in Callers \ {c} : pc'[d] = pc[d] /\ result'[d] = result[d]
          /\ UNCHANGED <<lb, alive, key, at, seen, stable>>
      BY <1>5 DEF Release, TypeOK
    <2>2. \A d \in Callers : Undisturbed(d)' => Undisturbed(d)
      BY <2>1 DEF Undisturbed
    <2> QED
      BY <2>1, <2>2 DEF StickyInv, Kind
  <1>6. ASSUME NEW t \in TargetIds, NEW b \in BOOLEAN, StoreAlive(t, b) PROVE StickyInv'
    <2>1. \A d \in Callers : ~Undisturbed(d)'
      BY <1>6 DEF StoreAlive, Undisturbed
    <2> QED
      BY <1>6, <2>1 DEF StoreAlive, StickyInv, Kind
  <1>7. CASE UNCHANGED vars
    BY <1>7 DEF vars, StickyInv, Undisturbed, Kind
  <1> QED
    BY <1>1, <1>2, <1>4, <1>5, <1>6, <1>7 DEF Next, CallerStep

(* Any number of threads that ask for the same key, with any hash function *)
(* and any targets, get the same answer while the flags stand still: their *)
(* scans collect the same vector, although each makes its own.             *)
THEOREM StickyKeyCorrect == Spec => []StickyKey
  <1>1. Init => StickyInv
    BY DEF Init, StickyInv, Undisturbed
  <1>2. TypeOK /\ StickyInv => StickyKey
    <2> SUFFICES ASSUME TypeOK, StickyInv, Kind = "consistent_hash",
                        NEW c \in Callers, NEW d \in Callers, pc[c] = "done", pc[d] = "done",
                        stable[c], stable[d], key[c] = key[d]
                 PROVE  result[c] = result[d]
      BY DEF StickyKey
    <2>1. Prefix(seen[c], seen[d]) /\ Prefix(seen[d], seen[c])
      BY NAssumption DEF StickyInv, Undisturbed
    <2>2. seen[c] \in Seq(TargetIds) /\ seen[d] \in Seq(TargetIds)
      BY DEF TypeOK
    <2>3. seen[c] = seen[d]
      BY <2>1, <2>2 DEF Prefix
    <2> QED
      BY <2>3 DEF StickyInv
  <1> QED
    BY <1>1, <1>2, TypeCorrect, StickyStep, PTL DEF Spec

-----------------------------------------------------------------------------
(* Round robin *)

(* Two ways to split a number into a multiple of n and a rest below n are  *)
(* the same.                                                               *)
LEMMA SplitUnique ==
    ASSUME NEW n \in Nat \ {0}, NEW q \in Int, NEW r \in 0..(n - 1),
           NEW u \in Int, NEW v \in 0..(n - 1), n * q + r = n * u + v
    PROVE  r = v
  <1>1. n * (q - u) = v - r
    OBVIOUS
  <1>2. CASE q - u >= 1
    <2>1. n * (q - u) >= n
      BY <1>2
    <2> QED
      BY <1>1, <2>1
  <1>3. CASE q - u <= -1
    <2>1. n * (q - u) <= -n
      BY <1>3
    <2> QED
      BY <1>1, <2>1
  <1>4. CASE q - u = 0
    BY <1>1, <1>4
  <1> QED
    BY <1>2, <1>3, <1>4

LEMMA Split ==
    ASSUME NEW n \in Nat \ {0}, NEW x \in Nat
    PROVE  x = n * (x \div n) + (x % n) /\ x % n \in 0..(n - 1) /\ x \div n \in Int
  OBVIOUS

(* The next number has the next rest, or starts over. *)
LEMMA RestOfNext ==
    ASSUME NEW n \in Nat \ {0}, NEW x \in Nat
    PROVE  (x + 1) % n = IF (x % n) + 1 = n THEN 0 ELSE (x % n) + 1
  <1> DEFINE q == x \div n
             r == x % n
             u == (x + 1) \div n
             v == (x + 1) % n
  <1>1. x = n * q + r /\ r \in 0..(n - 1) /\ q \in Int
    BY Split
  <1>2. x + 1 = n * u + v /\ v \in 0..(n - 1) /\ u \in Int
    BY Split
  <1> HIDE DEF q, r, u, v
  <1>3. CASE r + 1 = n
    <2>1. n * (q + 1) + 0 = n * u + v
      BY <1>1, <1>2, <1>3
    <2>2. 0 \in 0..(n - 1) /\ q + 1 \in Int
      BY <1>1
    <2>3. v = 0
      BY <1>2, <2>1, <2>2, SplitUnique
    <2> QED
      BY <1>3, <2>3 DEF r, v
  <1>4. CASE r + 1 # n
    <2>1. n * q + (r + 1) = n * u + v /\ r + 1 \in 0..(n - 1)
      BY <1>1, <1>2, <1>4
    <2>2. v = r + 1
      BY <1>1, <1>2, <2>1, SplitUnique
    <2> QED
      BY <1>4, <2>2 DEF r, v
  <1> QED
    BY <1>3, <1>4

(* An increasing vector has as many elements as places. *)
LEMMA IncreasingCardinality ==
    ASSUME NEW s \in Seq(TargetIds), Increasing(s)
    PROVE  /\ Cardinality(Elems(s)) = Len(s)
           /\ \A i, j \in 1..Len(s) : s[i] = s[j] => i = j
  <1>1. DOMAIN s = 1..Len(s) /\ Len(s) \in Nat /\ \A i \in 1..Len(s) : s[i] \in Nat
    BY NAssumption DEF TargetIds
  <1>2. \A i, j \in 1..Len(s) : s[i] = s[j] => i = j
    <2> SUFFICES ASSUME NEW i \in 1..Len(s), NEW j \in 1..Len(s), s[i] = s[j], i < j
                 PROVE  FALSE
      BY <1>1
    <2> QED
      BY <1>1 DEF Increasing
  <1>3. s \in [1..Len(s) -> Elems(s)] /\ \A e \in Elems(s) : \E i \in 1..Len(s) : s[i] = e
    BY <1>1 DEF Elems
  <1>4. s \in Bijection(1..Len(s), Elems(s))
    BY <1>2, <1>3 DEF Bijection, Injection, Surjection, IsInjective
  <1>5. ExistsBijection(1..Len(s), Elems(s))
    BY <1>4 DEF ExistsBijection
  <1>6. IsFiniteSet(1..Len(s)) /\ Cardinality(1..Len(s)) = Len(s)
    BY <1>1, FS_Interval
  <1> QED
    BY <1>2, <1>5, <1>6, FS_Bijection

(* Every vector being collected is in increasing order: next() scans the   *)
(* targets from the first to the last, whatever the flags do meanwhile.    *)
OrderInv ==
    \A c \in Callers : pc[c] = "scan" => Increasing(seen[c]) /\ \A t \in Elems(seen[c]) : t < at[c]

(* The m places of a vector of length n before place r + 1, going round. *)
Behind(r, m, n) == {i \in 1..n : IF i <= r THEN r - i < m ELSE r - i + n < m}

(* The targets R stand on the places of the vector s before the one that a *)
(* counter of value k points to, and there is a place left.                *)
JustServed(R, s, k) ==
    /\ s \in Seq(TargetIds) /\ Increasing(s) /\ s # <<>>
    /\ \E m \in 0..(Len(s) - 1) : R = {s[i] : i \in Behind(k % Len(s), m, Len(s))}

RotationInv == round # {} => JustServed(round, AliveSeq, counter)

LEMMA SameFlags == UNCHANGED alive => UNCHANGED AliveSeq
  BY DEF AliveSeq

LEMMA BehindNone ==
    ASSUME NEW n \in Nat \ {0}, NEW r \in 0..(n - 1)
    PROVE  Behind(r, 0, n) = {}
  BY DEF Behind

(* One more place is behind when the counter moves on. *)
LEMMA BehindNext ==
    ASSUME NEW n \in Nat \ {0}, NEW r \in 0..(n - 1), NEW m \in 0..(n - 1)
    PROVE  /\ Behind(IF r + 1 = n THEN 0 ELSE r + 1, m + 1, n) = Behind(r, m, n) \cup {r + 1}
           /\ r + 1 \notin Behind(r, m, n)
           /\ m + 1 = n => Behind(r, m, n) \cup {r + 1} = 1..n
  <1>1. r + 1 \in 1..n
    OBVIOUS
  <1>2. CASE r + 1 = n
    BY <1>1, <1>2 DEF Behind
  <1>3. CASE r + 1 # n
    BY <1>1, <1>3 DEF Behind
  <1> QED
    BY <1>2, <1>3

LEMMA OrderStep == TypeOK /\ OrderInv /\ [Next]_vars => OrderInv'
  <1> SUFFICES ASSUME TypeOK, OrderInv, [Next]_vars PROVE OrderInv'
    OBVIOUS
  <1>1. ASSUME NEW c \in Callers, NEW k \in Keys, Call(c, k) PROVE OrderInv'
    <2>1. seen'[c] = <<>> /\ \A d \in Callers \ {c} :
              seen'[d] = seen[d] /\ at'[d] = at[d] /\ pc'[d] = pc[d]
      BY <1>1 DEF Call, TypeOK
    <2>2. Elems(<<>>) = {} /\ Increasing(<<>>)
      BY DEF Elems, Increasing
    <2> QED
      BY <2>1, <2>2 DEF OrderInv
  <1>2. ASSUME NEW c \in Callers, Scan(c) PROVE OrderInv'
    <2>1. at[c] \in TargetIds /\ at'[c] = at[c] + 1 /\ at[c] \in Nat /\ seen[c] \in Seq(TargetIds)
      BY <1>2, NAssumption DEF Scan, TypeOK, TargetIds
    <2>2. /\ seen'[c] = IF alive[at[c]] THEN Append(seen[c], at[c]) ELSE seen[c]
          /\ \A d \in Callers \ {c} : seen'[d] = seen[d] /\ at'[d] = at[d]
          /\ pc' = pc /\ pc[c] = "scan"
      BY <1>2 DEF Scan, TypeOK
    <2>3. Increasing(seen[c]) /\ \A t \in Elems(seen[c]) : t < at[c]
      BY <2>2 DEF OrderInv
    <2>4. Increasing(seen'[c])
      BY <2>1, <2>2, <2>3, AppendIncreasing
    <2>5. \A t \in Elems(seen'[c]) : t \in Elems(seen[c]) \/ t = at[c]
      BY <2>1, <2>2, AppendElems
    <2>6. Elems(seen[c]) \subseteq TargetIds
      BY <2>1, ElemsType
    <2>7. \A t \in Elems(seen'[c]) : t < at'[c]
      BY <2>1, <2>3, <2>5, <2>6, NAssumption DEF TargetIds
    <2> QED
      BY <2>2, <2>4, <2>7 DEF OrderInv
  <1>3. ASSUME NEW c \in Callers, NEW r, Return(c, r) PROVE OrderInv'
    BY <1>3 DEF Return, OrderInv, TypeOK
  <1>4. ASSUME NEW c \in Callers,
               PickNone(c) \/ PickRoundRobin(c) \/ PickLeastConn(c) \/ PickConsistentHash(c)
        PROVE  OrderInv'
    BY <1>3, <1>4 DEF PickNone, PickRoundRobin, PickLeastConn, PickConsistentHash
  <1>5. ASSUME NEW c \in Callers, Release(c) PROVE OrderInv'
    BY <1>5 DEF Release, OrderInv, TypeOK
  <1>6. ASSUME NEW t \in TargetIds, NEW b \in BOOLEAN, StoreAlive(t, b) PROVE OrderInv'
    BY <1>6 DEF StoreAlive, OrderInv
  <1>7. CASE UNCHANGED vars
    BY <1>7 DEF vars, OrderInv
  <1> QED
    BY <1>1, <1>2, <1>4, <1>5, <1>6, <1>7 DEF Next, CallerStep

(* The counter's next value points to the next place, also when it wraps   *)
(* at a multiple of the length.                                            *)
LEMMA TicketRest ==
    ASSUME TypeOK, NEW n \in Nat \ {0}, counter + 1 < CounterMod \/ CounterMod % n = 0
    PROVE  Ticket % n = IF (counter % n) + 1 = n THEN 0 ELSE (counter % n) + 1
  <1>1. counter \in Nat /\ counter < CounterMod /\ CounterMod \in Nat \ {0}
    BY CounterModAssumption DEF TypeOK
  <1>2. (counter + 1) % n = IF (counter % n) + 1 = n THEN 0 ELSE (counter % n) + 1
    BY <1>1, RestOfNext
  <1>3. CASE counter + 1 < CounterMod
    <2>1. Ticket = counter + 1
      BY <1>1, <1>3 DEF Ticket
    <2> QED
      BY <1>2, <2>1
  <1>4. CASE counter + 1 = CounterMod
    <2>1. Ticket = 0
      BY <1>1, <1>4 DEF Ticket
    <2>2. (counter + 1) % n = 0
      BY <1>1, <1>4
    <2>3. Ticket % n = 0
      BY <2>1
    <2> QED
      BY <1>2, <2>2, <2>3
  <1> QED
    BY <1>1, <1>3, <1>4

(* A steady pick takes a place that is not behind the counter, and what is *)
(* served afterwards is what is behind its next value.                     *)
LEMMA SteadyPick ==
    ASSUME TypeOK, OrderInv, RotationInv, NEW c \in Callers, PickRoundRobin(c), Steady(c)
    PROVE  /\ result'[c] \notin round
           /\ RotationInv'
  <1> DEFINE s == seen[c]
             n == Len(s)
             r == counter % n
             t == s[r + 1]
             served == round \cup {t}
  <1>1. /\ pc[c] = "scan" /\ s # <<>> /\ s = AliveSeq
        /\ counter + 1 < CounterMod \/ CounterMod % n = 0
        /\ result'[c] = t /\ counter' = Ticket /\ alive' = alive
        /\ round' = IF Cardinality(served) < n THEN served ELSE {}
    BY DEF PickRoundRobin, Collected, Steady, Return, TypeOK
  <1>2. s \in Seq(TargetIds) /\ Increasing(s) /\ n \in Nat \ {0} /\ DOMAIN s = 1..n
    BY <1>1 DEF OrderInv, TypeOK
  <1>3. counter \in Nat /\ r \in 0..(n - 1)
    BY <1>2, CounterModAssumption DEF TypeOK
  <1>4. AliveSeq' = s
    BY <1>1, SameFlags
  <1> DEFINE rest == IF r + 1 = n THEN 0 ELSE r + 1
  <1>5. counter' % n = rest
    BY <1>1, <1>2, TicketRest
  <1> HIDE DEF s, n, r
  <1>6. PICK m \in 0..(n - 1) : round = {s[i] : i \in Behind(r, m, n)}
    <2>1. CASE round = {}
      <3>1. 0 \in 0..(n - 1) /\ Behind(r, 0, n) = {}
        BY <1>2, <1>3, BehindNone
      <3> QED
        BY <2>1, <3>1
    <2>2. CASE round # {}
      BY <1>1, <2>2 DEF RotationInv, JustServed, n, r
    <2> QED
      BY <2>1, <2>2
  <1> HIDE DEF rest
  <1>7. /\ Behind(rest, m + 1, n) = Behind(r, m, n) \cup {r + 1}
        /\ r + 1 \notin Behind(r, m, n)
        /\ m + 1 = n => Behind(r, m, n) \cup {r + 1} = 1..n
    BY <1>2, <1>3, BehindNext DEF rest
  <1>8. Behind(r, m, n) \subseteq 1..n /\ r + 1 \in 1..n
    BY <1>2, <1>3 DEF Behind
  <1>9. t \notin round
    <2>1. \A i, j \in 1..n : s[i] = s[j] => i = j
      BY <1>2, IncreasingCardinality DEF n
    <2>2. \A i \in Behind(r, m, n) : s[i] # s[r + 1]
      BY <1>7, <1>8, <2>1
    <2> QED
      BY <1>6, <2>2
  <1>10. served = {s[i] : i \in Behind(rest, m + 1, n)}
    BY <1>6, <1>7
  <1>11. ASSUME Cardinality(served) < n PROVE m + 1 \in 0..(n - 1)
    <2>1. ASSUME m + 1 = n PROVE FALSE
      <3>1. served = Elems(s)
        BY <1>2, <1>7, <1>10, <2>1 DEF Elems
      <3>2. Cardinality(served) = n
        BY <1>2, <3>1, IncreasingCardinality DEF n
      <3> QED
        BY <1>2, <1>11, <3>2
    <2> QED
      BY <1>2, <2>1
  <1>12. RotationInv'
    <2> SUFFICES ASSUME round' # {} PROVE RotationInv'
      BY DEF RotationInv
    <2>1. round' = served /\ m + 1 \in 0..(n - 1)
      BY <1>1, <1>11
    <2>2. JustServed(round', s, counter')
      BY <1>1, <1>2, <1>5, <1>10, <2>1 DEF JustServed, n
    <2> QED
      BY <1>4, <2>2 DEF RotationInv
  <1> QED
    BY <1>1, <1>9, <1>12

LEMMA RotationStep == TypeOK /\ OrderInv /\ RotationInv /\ [Next]_vars => RotationInv'
  <1> SUFFICES ASSUME TypeOK, OrderInv, RotationInv, [Next]_vars PROVE RotationInv'
    OBVIOUS
  <1>1. ASSUME UNCHANGED <<alive, counter, round>> PROVE RotationInv'
    BY <1>1, SameFlags DEF RotationInv
  <1>2. ASSUME round' = {} PROVE RotationInv'
    BY <1>2 DEF RotationInv
  <1>3. ASSUME NEW c \in Callers, PickRoundRobin(c) PROVE RotationInv'
    <2>1. CASE Steady(c)
      BY <1>3, <2>1, SteadyPick
    <2>2. CASE ~Steady(c)
      BY <1>2, <1>3, <2>2 DEF PickRoundRobin
    <2> QED
      BY <2>1, <2>2
  <1>4. ASSUME NEW c \in Callers, NEW k \in Keys, Call(c, k) PROVE RotationInv'
    BY <1>1, <1>4 DEF Call
  <1>5. ASSUME NEW c \in Callers,
               Scan(c) \/ PickNone(c) \/ PickLeastConn(c) \/ PickConsistentHash(c) \/ Release(c)
        PROVE  RotationInv'
    BY <1>1, <1>5 DEF Scan, PickNone, PickLeastConn, PickConsistentHash, Release, Return
  <1>6. ASSUME NEW t \in TargetIds, NEW b \in BOOLEAN, StoreAlive(t, b) PROVE RotationInv'
    BY <1>2, <1>6 DEF StoreAlive
  <1>7. CASE UNCHANGED vars
    BY <1>1, <1>7 DEF vars
  <1> QED
    BY <1>3, <1>4, <1>5, <1>6, <1>7 DEF Next, CallerStep

LEMMA OrderCorrect == Spec => [](TypeOK /\ Idle /\ OrderInv)
  <1>1. Init => TypeOK /\ Idle /\ OrderInv
    BY TypeInit DEF Init, OrderInv
  <1>2. TypeOK /\ Idle /\ OrderInv /\ [Next]_vars => (TypeOK /\ Idle /\ OrderInv)'
    BY TypeStep, OrderStep
  <1> QED
    BY <1>1, <1>2, PTL DEF Spec

(* Any number of threads that take tickets from a counter of any width,    *)
(* while the flags stand still, serve every alive target once before they  *)
(* serve one twice; the scans need not have been undisturbed.              *)
THEOREM RotationCorrect == Spec => RoundRobinRotation
  <1>1. Init => RotationInv
    BY DEF Init, RotationInv
  <1>2. TypeOK /\ OrderInv /\ RotationInv /\ [Next]_vars => RotationInv'
    BY RotationStep
  <1>3. TypeOK /\ OrderInv /\ RotationInv /\ [Next]_vars =>
            [\A c \in Callers : PickRoundRobin(c) /\ Steady(c) => result'[c] \notin round]_vars
    BY SteadyPick
  <1> QED
    BY <1>1, <1>2, <1>3, OrderCorrect, PTL DEF Spec, RoundRobinRotation
=============================================================================
