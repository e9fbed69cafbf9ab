---------------------------- MODULE ServerProofs ----------------------------
(***************************************************************************)
(* Theorems about Server, for every set of connections, certificates and   *)
(* admin connections and every size of the thread pool.                    *)
(***************************************************************************)
EXTENDS Server, FiniteSetTheorems, TLAPS

(* The two halves of the type invariant. *)
TlsType ==
    /\ certFile \in Certs \cup {Bad} /\ keyFile \in PrivateKeys \cup {Bad}
    /\ acceptor \in Pairs \cup {NoTls}
    /\ job \in [Admins -> Jobs]

QueueInv ==
    /\ queue \in Seq(Conns)
    /\ \A c \in Conns : stage[c] = "queued" <=> \E i \in 1..Len(queue) : queue[i] = c
    /\ \A i, j \in 1..Len(queue) : queue[i] = queue[j] => i = j

PoolType ==
    /\ phase \in {"running", "stopping", "exited"}
    /\ listening \subseteq Loops
    /\ stage \in [Conns -> ThreadStages \cup {"none", "queued"}]
    /\ acc \in [Conns -> Pairs \cup {NoTls}]
    /\ QueueInv
    /\ Cardinality(Served) <= MaxThreads

LEMMA TypeParts == TypeOK <=> TlsType /\ PoolType
  BY DEF TypeOK, TlsType, PoolType, QueueInv

Matching(p) == p # NoTls => p.key = KeyOf[p.cert]

(* A reload has both files' contents only if they are a certificate and    *)
(* its own key, and the pairs in use come from such reloads, or from main. *)
JobMatches(j) == j.cert # Bad /\ j.key # Bad => j.key = KeyOf[j.cert]

PairInv ==
    /\ \A a \in Admins : JobMatches(job[a])
    /\ Matching(acceptor)
    /\ \A c \in Conns : Matching(acc[c])

-----------------------------------------------------------------------------
(* HotTls *)

LEMMA BuiltPair ==
    ASSUME NEW x \in Certs \cup {Bad}, NEW k \in PrivateKeys \cup {Bad}, Builds(x, k)
    PROVE  /\ x \in Certs /\ [cert |-> x, key |-> k] \in Pairs
           /\ Matching([cert |-> x, key |-> k]) /\ k = KeyOf[x]
  BY DEF Builds, Pairs, PrivateKeys, Matching

LEMMA IdleJob == Idle \in Jobs /\ Begun \in Jobs /\ JobMatches(Idle) /\ JobMatches(Begun)
  BY DEF Idle, Begun, Jobs, JobMatches

(* A step of the operator or of a reload. *)
LEMMA TlsStep ==
    ASSUME TlsType, PairInv, acc' = acc,
           Operator \/ \E a \in Admins : Begin(a) \/ Reload(a)
    PROVE  TlsType' /\ PairInv'
  <1>1. CASE Operator
    BY <1>1 DEF Operator, WriteCert, WriteKey, TlsType, PairInv
  <1>2. ASSUME NEW a \in Admins, NEW j \in Jobs, job' = [job EXCEPT ![a] = j], JobMatches(j),
               UNCHANGED <<certFile, keyFile>>,
               acceptor' \in Pairs \cup {NoTls}, Matching(acceptor')
        PROVE  TlsType' /\ PairInv'
    BY <1>2 DEF TlsType, PairInv
  <1>3. acceptor \in Pairs \cup {NoTls} /\ Matching(acceptor)
    BY DEF TlsType, PairInv
  <1>4. ASSUME NEW a \in Admins, Begin(a) PROVE TlsType' /\ PairInv'
    BY <1>2, <1>3, <1>4, IdleJob DEF Begin
  <1>5. ASSUME NEW a \in Admins, ReadCert(a) PROVE TlsType' /\ PairInv'
    <2>1. [job[a] EXCEPT !.cert = certFile] \in Jobs /\ JobMatches([job[a] EXCEPT !.cert = certFile])
      BY <1>5 DEF ReadCert, Fits, Builds, Jobs, TlsType, JobMatches
    <2>2. job' = [job EXCEPT ![a] = [job[a] EXCEPT !.cert = certFile]]
      BY <1>5 DEF ReadCert
    <2> QED
      BY <1>2, <1>3, <1>5, <2>1, <2>2 DEF ReadCert
  <1>6. ASSUME NEW a \in Admins, ReadKey(a) PROVE TlsType' /\ PairInv'
    <2>1. [job[a] EXCEPT !.key = keyFile] \in Jobs /\ JobMatches([job[a] EXCEPT !.key = keyFile])
      BY <1>6 DEF ReadKey, Fits, Builds, Jobs, TlsType, JobMatches
    <2>2. job' = [job EXCEPT ![a] = [job[a] EXCEPT !.key = keyFile]]
      BY <1>6 DEF ReadKey
    <2> QED
      BY <1>2, <1>3, <1>6, <2>1, <2>2 DEF ReadKey
  <1>7. ASSUME NEW a \in Admins, BuildFails(a) PROVE TlsType' /\ PairInv'
    BY <1>2, <1>3, <1>7, IdleJob DEF BuildFails
  <1>8. ASSUME NEW a \in Admins, Store(a) PROVE TlsType' /\ PairInv'
    <2>1. /\ job[a].cert \in Certs \cup {Bad} /\ job[a].key \in PrivateKeys \cup {Bad}
          /\ Builds(job[a].cert, job[a].key)
      BY <1>8 DEF Store, TlsType, Jobs, PairInv, JobMatches, Builds
    <2>2. acceptor' \in Pairs /\ Matching(acceptor')
      BY <1>8, <2>1, BuiltPair DEF Store
    <2> QED
      BY <1>2, <1>8, <2>2, IdleJob DEF Store
  <1> QED
    BY <1>1, <1>4, <1>5, <1>6, <1>7, <1>8 DEF Reload

-----------------------------------------------------------------------------
(* The thread pool *)

(* A connection takes a thread only if it has one or there is one left. *)
LEMMA ServedBound ==
    ASSUME PoolType, NEW c \in Conns, NEW s, stage' = [stage EXCEPT ![c] = s],
           s \in ThreadStages => stage[c] \in ThreadStages \/ Cardinality(Served) < MaxThreads
    PROVE  Cardinality(Served') <= MaxThreads
  <1>1. IsFiniteSet(Served) /\ Cardinality(Served) \in Nat
    BY ConnsAssumption, FS_Subset, FS_CardinalityType DEF Served
  <1>2. CASE s \in ThreadStages /\ stage[c] \notin ThreadStages
    <2>1. Served' = Served \cup {c} /\ c \notin Served
      BY <1>2 DEF Served, PoolType
    <2>2. Cardinality(Served') = Cardinality(Served) + 1
      BY <1>1, <2>1, FS_AddElement
    <2> QED
      BY <1>1, <1>2, <2>2, MaxThreadsAssumption
  <1>3. CASE ~(s \in ThreadStages /\ stage[c] \notin ThreadStages)
    <2>1. Served' \subseteq Served
      BY <1>3 DEF Served, PoolType
    <2>2. Cardinality(Served') <= Cardinality(Served) /\ Cardinality(Served') \in Nat
      BY <1>1, <2>1, FS_Subset, FS_CardinalityType
    <2> QED
      BY <1>1, <2>2, MaxThreadsAssumption DEF PoolType
  <1> QED
    BY <1>2, <1>3

LEMMA QueueAppend ==
    ASSUME PoolType, NEW c \in Conns, stage[c] = "none",
           stage' = [stage EXCEPT ![c] = "queued"], queue' = Append(queue, c)
    PROVE  QueueInv'
  <1>1. /\ queue \in Seq(Conns) /\ queue' \in Seq(Conns) /\ Len(queue) \in Nat
        /\ Len(queue') = Len(queue) + 1 /\ queue'[Len(queue) + 1] = c
        /\ \A i \in 1..Len(queue) : queue'[i] = queue[i]
    BY DEF PoolType, QueueInv
  <1>2. \A i \in 1..Len(queue) : queue[i] # c
    BY DEF PoolType, QueueInv
  <1>3. \A i \in 1..Len(queue') : i \in 1..Len(queue) \/ i = Len(queue) + 1
    BY <1>1
  <1>4. \A i, j \in 1..Len(queue') : queue'[i] = queue'[j] => i = j
    BY <1>1, <1>2, <1>3 DEF PoolType, QueueInv
  <1>5. ASSUME NEW d \in Conns
        PROVE  stage'[d] = "queued" <=> \E i \in 1..Len(queue') : queue'[i] = d
    <2>1. CASE d = c
      BY <1>1, <2>1 DEF PoolType
    <2>2. CASE d # c
      <3>1. stage'[d] = stage[d]
        BY <2>2 DEF PoolType
      <3>2. (\E i \in 1..Len(queue') : queue'[i] = d) <=> \E i \in 1..Len(queue) : queue[i] = d
        BY <1>1, <1>3, <2>2
      <3> QED
        BY <3>1, <3>2 DEF PoolType, QueueInv
    <2> QED
      BY <2>1, <2>2
  <1> QED
    BY <1>1, <1>4, <1>5 DEF QueueInv

LEMMA QueueTail ==
    ASSUME PoolType, NEW c \in Conns, queue # <<>>, Head(queue) = c, NEW s, s # "queued",
           stage' = [stage EXCEPT ![c] = s], queue' = Tail(queue)
    PROVE  QueueInv'
  <1>1. /\ queue \in Seq(Conns) /\ queue' \in Seq(Conns) /\ Len(queue) \in Nat /\ Len(queue) > 0
        /\ Len(queue') = Len(queue) - 1 /\ queue[1] = c
        /\ \A i \in 1..Len(queue') : queue'[i] = queue[i + 1]
    BY DEF PoolType, QueueInv
  <1>2. \A i, j \in 1..Len(queue') : queue'[i] = queue'[j] => i = j
    BY <1>1 DEF PoolType, QueueInv
  <1>3. ASSUME NEW d \in Conns
        PROVE  stage'[d] = "queued" <=> \E i \in 1..Len(queue') : queue'[i] = d
    <2>1. CASE d = c
      <3>1. \A i \in 1..Len(queue') : queue'[i] # c
        BY <1>1 DEF PoolType, QueueInv
      <3> QED
        BY <2>1, <3>1 DEF PoolType
    <2>2. CASE d # c
      <3>1. stage'[d] = stage[d]
        BY <2>2 DEF PoolType
      <3>2. \A i \in 1..Len(queue) : queue[i] = d => i - 1 \in 1..Len(queue') /\ queue'[i - 1] = d
        BY <1>1, <2>2
      <3>3. \A i \in 1..Len(queue') : queue'[i] = d => i + 1 \in 1..Len(queue) /\ queue[i + 1] = d
        BY <1>1
      <3>4. stage[d] = "queued" <=> \E i \in 1..Len(queue) : queue[i] = d
        BY DEF PoolType, QueueInv
      <3> QED
        BY <3>1, <3>2, <3>3, <3>4
    <2> QED
      BY <2>1, <2>2
  <1> QED
    BY <1>1, <1>2, <1>3 DEF QueueInv

LEMMA QueueKeeps ==
    ASSUME PoolType, NEW c \in Conns, NEW s, s # "queued", stage[c] # "queued",
           stage' = [stage EXCEPT ![c] = s], queue' = queue
    PROVE  QueueInv'
  BY DEF PoolType, QueueInv

(* A step of one connection. *)
LEMMA ConnStep ==
    ASSUME TypeOK, PairInv, NEW c \in Conns,
           \/ \E l \in Loops : Accept(c, l)
           \/ Start(c) \/ Discard(c)
           \/ Handshake(c) \/ Receive(c) \/ Reply(c) \/ UpstreamHangs(c) \/ Close(c)
    PROVE  TypeOK' /\ PairInv'
  <1>0. TlsType /\ PoolType
    BY TypeParts
  <1>1. UNCHANGED tlsVars /\ UNCHANGED phase /\ UNCHANGED listening
    BY DEF Accept, Start, Discard, Handshake, Receive, Reply, UpstreamHangs, Close, Move
  <1>2. TlsType'
    BY <1>0, <1>1 DEF tlsVars, TlsType
  <1>3. ASSUME NEW s \in ThreadStages \cup {"none", "queued"}, stage' = [stage EXCEPT ![c] = s],
               s \in ThreadStages => stage[c] \in ThreadStages \/ Cardinality(Served) < MaxThreads,
               QueueInv',
               NEW p \in Pairs \cup {NoTls}, Matching(p), acc' = [acc EXCEPT ![c] = p] \/ acc' = acc
        PROVE  TypeOK' /\ PairInv'
    <2>1. Cardinality(Served') <= MaxThreads
      BY <1>0, <1>3, ServedBound
    <2>2. stage' \in [Conns -> ThreadStages \cup {"none", "queued"}]
      BY <1>0, <1>3 DEF PoolType
    <2>3. acc' \in [Conns -> Pairs \cup {NoTls}] /\ \A d \in Conns : Matching(acc'[d])
      BY <1>0, <1>3 DEF PoolType, PairInv
    <2>4. PoolType'
      BY <1>0, <1>1, <1>3, <2>1, <2>2, <2>3 DEF PoolType
    <2>5. TypeOK'
      BY <1>2, <2>4 DEF TypeOK, TlsType, PoolType, QueueInv
    <2> QED
      BY <1>1, <2>3, <2>5 DEF PairInv, tlsVars
  <1>4. NoTls \in Pairs \cup {NoTls} /\ Matching(NoTls)
    BY DEF Matching
  <1>5. ASSUME NEW l \in Loops, Accept(c, l) PROVE TypeOK' /\ PairInv'
    <2>1. QueueInv'
      BY <1>0, <1>5, QueueAppend DEF Accept
    <2>2. acceptor \in Pairs \cup {NoTls} /\ Matching(acceptor)
      BY <1>0 DEF TlsType, PairInv
    <2>3. "queued" \notin ThreadStages
      BY DEF ThreadStages
    <2> QED
      BY <1>3, <1>4, <1>5, <2>1, <2>2, <2>3 DEF Accept
  <1>6. CASE Start(c)
    <2> DEFINE s == IF acc[c] = NoTls THEN "idle" ELSE "handshake"
    <2>1. s \in ThreadStages /\ s # "queued"
      BY DEF ThreadStages
    <2>2. stage' = [stage EXCEPT ![c] = s] /\ Cardinality(Served) < MaxThreads /\ acc' = acc
      BY <1>6 DEF Start, Free
    <2>3. QueueInv'
      BY <1>0, <1>6, <2>1, <2>2, QueueTail DEF Start, Free
    <2> HIDE DEF s
    <2> QED
      BY <1>3, <1>4, <2>1, <2>2, <2>3
  <1>7. CASE Discard(c)
    <2>1. QueueInv'
      BY <1>0, <1>7, QueueTail DEF Discard, Free
    <2>2. "none" \notin ThreadStages
      BY DEF ThreadStages
    <2> QED
      BY <1>3, <1>4, <1>7, <2>1, <2>2 DEF Discard
  <1>8. ASSUME NEW s \in ThreadStages \cup {"none"}, stage[c] \in ThreadStages,
               stage' = [stage EXCEPT ![c] = s], queue' = queue,
               acc' = [acc EXCEPT ![c] = NoTls] \/ acc' = acc
        PROVE  TypeOK' /\ PairInv'
    <2>1. s # "queued" /\ stage[c] # "queued"
      BY <1>8 DEF ThreadStages
    <2>2. QueueInv'
      BY <1>0, <1>8, <2>1, QueueKeeps
    <2> QED
      BY <1>3, <1>4, <1>8, <2>2
  <1>9. CASE Handshake(c)
    BY <1>8, <1>9 DEF Handshake, ThreadStages
  <1>10. CASE Receive(c) \/ Reply(c) \/ UpstreamHangs(c)
    BY <1>8, <1>10 DEF Receive, Reply, UpstreamHangs, Move, ThreadStages
  <1>11. CASE Close(c)
    BY <1>8, <1>11 DEF Close
  <1> QED
    BY <1>5, <1>6, <1>7, <1>9, <1>10, <1>11

-----------------------------------------------------------------------------
LEMMA ServerInit == Init => TypeOK /\ PairInv
  <1> SUFFICES ASSUME Init PROVE TypeOK /\ PairInv
    OBVIOUS
  <1>1. acceptor \in Pairs \cup {NoTls} /\ Matching(acceptor)
    <2>1. CASE Builds(certFile, keyFile)
      BY <2>1, BuiltPair DEF Init, TlsInit
    <2>2. CASE ~Builds(certFile, keyFile)
      BY <2>2 DEF Init, TlsInit, Matching
    <2> QED
      BY <2>1, <2>2
  <1>2. job \in [Admins -> Jobs] /\ \A a \in Admins : JobMatches(job[a])
    BY IdleJob DEF Init, TlsInit
  <1>3. Served = {} /\ Cardinality(Served) = 0 /\ 0 <= MaxThreads
    <2>1. Served = {}
      BY DEF Init, Served, ThreadStages
    <2> QED
      BY <2>1, FS_EmptySet, MaxThreadsAssumption
  <1>4. QueueInv
    BY DEF Init, QueueInv
  <1>5. TlsType
    BY <1>1, <1>2 DEF Init, TlsInit, TlsType
  <1>6. PoolType
    BY <1>3, <1>4 DEF Init, PoolType, Loops
  <1>7. PairInv
    BY <1>1, <1>2 DEF Init, PairInv, Matching
  <1> QED
    BY <1>5, <1>6, <1>7, TypeParts

LEMMA ServerStep == TypeOK /\ PairInv /\ [Next]_vars => TypeOK' /\ PairInv'
  <1> SUFFICES ASSUME TypeOK, PairInv, [Next]_vars PROVE TypeOK' /\ PairInv'
    OBVIOUS
  <1>0. TlsType /\ PoolType
    BY TypeParts
  <1>1. ASSUME UNCHANGED <<tlsVars, queue, stage, acc>>,
               phase' \in {"running", "stopping", "exited"}, listening' \subseteq Loops
        PROVE  TypeOK' /\ PairInv'
    BY <1>1 DEF TypeOK, PairInv, tlsVars, Served
  <1>2. CASE CtrlC \/ Exit
    BY <1>1, <1>2 DEF CtrlC, Exit, TypeOK
  <1>3. ASSUME NEW l \in Loops, LoopFails(l) PROVE TypeOK' /\ PairInv'
    BY <1>1, <1>3 DEF LoopFails, TypeOK
  <1>4. CASE TakeTask
    BY <1>4, ConnStep DEF TakeTask
  <1>5. ASSUME NEW c \in Conns,
               \/ \E l \in Loops : Accept(c, l)
               \/ Handshake(c) \/ Receive(c) \/ Reply(c) \/ UpstreamHangs(c) \/ Close(c)
        PROVE  TypeOK' /\ PairInv'
    BY <1>5, ConnStep
  <1>6. ASSUME UNCHANGED serverVars, Operator \/ \E a \in Admins : Begin(a) \/ Reload(a)
        PROVE  TypeOK' /\ PairInv'
    <2>1. TlsType' /\ PairInv'
      BY <1>0, <1>6, TlsStep DEF serverVars
    <2> QED
      BY <1>0, <1>6, <2>1 DEF serverVars, TypeOK, TlsType, Served
  <1>7. CASE UNCHANGED vars
    BY <1>1, <1>7 DEF vars, serverVars, TypeOK
  <1> QED
    BY <1>2, <1>3, <1>4, <1>5, <1>6, <1>7 DEF Next, ReloadStep

(* The pool never runs more connections than it has threads, and holds     *)
(* each connection that waits in its queue, once.                          *)
THEOREM ServerTypeCorrect == Spec => []TypeOK
  BY ServerInit, ServerStep, PTL DEF Spec

(* However the operator writes the files and however the reloads overlap,  *)
(* no connection is given a certificate with the key of another.           *)
THEOREM MatchedPairCorrect == Spec => []MatchedPair
  <1>1. PairInv => MatchedPair
    BY DEF PairInv, MatchedPair, Matching
  <1> QED
    BY <1>1, ServerInit, ServerStep, PTL DEF Spec

-----------------------------------------------------------------------------
(* Certificate rotation *)

(* A step of a reload or of an admin request, on what is rotated in. *)
LEMMA RotatedReload ==
    ASSUME TlsType, NEW x \in Certs, RotatedIn(x), UNCHANGED <<certFile, keyFile>>,
           NEW a \in Admins, Begin(a) \/ Reload(a)
    PROVE  RotatedIn(x)'
  <1>1. certFile = x /\ keyFile = KeyOf[x] /\ acceptor.cert = x /\ \A b \in Admins : job[b].cert \in {Bad, x}
    BY DEF RotatedIn
  <1>2. ASSUME NEW j \in Jobs, j.cert \in {Bad, x}, job' = [job EXCEPT ![a] = j], acceptor'.cert = x
        PROVE  RotatedIn(x)'
    BY <1>1, <1>2 DEF RotatedIn, TlsType
  <1>3. job[a] \in Jobs
    BY DEF TlsType
  <1>4. Idle.cert = Bad /\ Begun.cert = Bad
    BY DEF Idle, Begun
  <1>5. CASE Begin(a) \/ BuildFails(a)
    BY <1>1, <1>2, <1>4, <1>5, IdleJob DEF Begin, BuildFails
  <1>6. CASE ReadCert(a)
    <2>1. [job[a] EXCEPT !.cert = certFile] \in Jobs /\ [job[a] EXCEPT !.cert = certFile].cert = x
      BY <1>1, <1>3 DEF Jobs, TlsType
    <2> QED
      BY <1>1, <1>2, <1>6, <2>1 DEF ReadCert
  <1>7. CASE ReadKey(a)
    <2> DEFINE j == [job[a] EXCEPT !.key = keyFile]
    <2>1. j \in Jobs /\ j.cert \in {Bad, x}
      BY <1>1, <1>3 DEF Jobs, TlsType
    <2> QED
      BY <1>1, <1>2, <1>7, <2>1 DEF ReadKey
  <1>8. CASE Store(a)
    <2>1. job[a].cert # Bad
      BY <1>8 DEF Store
    <2>2. job[a].cert = x
      BY <1>1, <2>1
    <2>3. acceptor'.cert = x
      BY <1>8, <2>2 DEF Store
    <2> QED
      BY <1>2, <1>4, <1>8, <2>3, IdleJob DEF Store
  <1> QED
    BY <1>5, <1>6, <1>7, <1>8 DEF Reload

(* A step of a connection: the only acceptor it can take is the one in use. *)
LEMMA OutdatedConn ==
    ASSUME PoolType, NEW x \in Certs, RotatedIn(x), NEW c \in Conns,
           \/ \E l \in Loops : Accept(c, l)
           \/ Start(c) \/ Discard(c)
           \/ Handshake(c) \/ Receive(c) \/ Reply(c) \/ UpstreamHangs(c) \/ Close(c)
    PROVE  RotatedIn(x)' /\ Outdated(x)' \subseteq Outdated(x)
  <1>1. UNCHANGED tlsVars
    BY DEF Accept, Start, Discard, Handshake, Receive, Reply, UpstreamHangs, Close, Move
  <1>2. RotatedIn(x)' /\ acceptor.cert = x
    BY <1>1 DEF RotatedIn, tlsVars
  <1>3. acc' = acc \/ acc' = [acc EXCEPT ![c] = NoTls] \/ acc' = [acc EXCEPT ![c] = acceptor]
    BY DEF Accept, Start, Discard, Handshake, Receive, Reply, UpstreamHangs, Close, Move
  <1> QED
    BY <1>2, <1>3 DEF Outdated, PoolType

(* Whatever the reloads had read before, and however many connections wait *)
(* for a thread: a certificate that is rotated in stays, and the old ones  *)
(* are handed to nobody any more.                                          *)
THEOREM RotationStaysCorrect == Spec => RotationStays
  <1> DEFINE Stays == \A x \in Certs :
                 RotatedIn(x) /\ UNCHANGED <<certFile, keyFile>>
                     => RotatedIn(x)' /\ Outdated(x)' \subseteq Outdated(x)
  <1>1. TypeOK /\ PairInv /\ [Next]_vars => [Stays]_vars
    <2> SUFFICES ASSUME TypeOK, PairInv, Next, NEW x \in Certs,
                        RotatedIn(x), UNCHANGED <<certFile, keyFile>>
                 PROVE  RotatedIn(x)' /\ Outdated(x)' \subseteq Outdated(x)
      OBVIOUS
    <2>0. TlsType /\ PoolType
      BY TypeParts
    <2>1. ASSUME acc' = acc PROVE Outdated(x)' \subseteq Outdated(x)
      BY <2>1 DEF Outdated
    <2>2. ASSUME UNCHANGED <<tlsVars, acc>> PROVE RotatedIn(x)' /\ Outdated(x)' \subseteq Outdated(x)
      BY <2>1, <2>2 DEF RotatedIn, tlsVars
    <2>3. CASE CtrlC \/ Exit \/ \E l \in Loops : LoopFails(l)
      BY <2>2, <2>3 DEF CtrlC, Exit, LoopFails
    <2>4. CASE TakeTask
      BY <2>0, <2>4, OutdatedConn DEF TakeTask
    <2>5. ASSUME NEW c \in Conns,
                 \/ \E l \in Loops : Accept(c, l)
                 \/ Handshake(c) \/ Receive(c) \/ Reply(c) \/ UpstreamHangs(c) \/ Close(c)
          PROVE  RotatedIn(x)' /\ Outdated(x)' \subseteq Outdated(x)
      BY <2>0, <2>5, OutdatedConn
    <2>6. ASSUME NEW a \in Admins, Begin(a) \/ Reload(a), UNCHANGED serverVars
          PROVE  RotatedIn(x)' /\ Outdated(x)' \subseteq Outdated(x)
      BY <2>0, <2>1, <2>6, RotatedReload DEF serverVars
    <2>7. ASSUME Operator PROVE FALSE
      BY <2>7 DEF Operator, WriteCert, WriteKey
    <2> QED
      BY <2>3, <2>4, <2>5, <2>6, <2>7 DEF Next, ReloadStep
  <1> QED
    BY <1>1, ServerInit, ServerStep, PTL DEF Spec, RotationStays
=============================================================================
