------------------------------- MODULE Server -------------------------------
(***************************************************************************)
(* The process of src/src/main.rs: the accept loops, the blocking pool     *)
(* that gives each connection a thread for its life, the TLS acceptor      *)
(* (HotTls) a connection takes along when it is accepted, and the end of   *)
(* the process.  Of a request only this matters here: it is under way, or  *)
(* waits for an upstream that is silent (RequestPipeline has the rest).    *)
(***************************************************************************)
EXTENDS HotTls

CONSTANTS
    Conns,        \* client connections
    MaxThreads    \* threads of tokio's blocking pool for connections (512 in the code)

ASSUME ConnsAssumption == IsFiniteSet(Conns)
ASSUME MaxThreadsAssumption == MaxThreads \in Nat \ {0}

VARIABLES
    phase,       \* of the process
    listening,   \* the accept loops that run
    queue,       \* the blocking tasks that wait for a thread
    stage,       \* stage[c]: of connection c
    acc          \* acc[c]: the acceptor c is to shake hands with; NoTls for HTTP

serverVars == <<phase, listening, queue, stage, acc>>
vars == <<tlsVars, serverVars>>

Loops == {"http", "https"}

ThreadStages == {"handshake", "idle", "busy", "hung"}

(* The connections that occupy a thread. *)
Served == {c \in Conns : stage[c] \in ThreadStages}

(* The type invariant: the pool does not exceed its threads, and the queue *)
(* holds every connection without a thread exactly once.                   *)
TypeOK ==
    /\ certFile \in Certs \cup {Bad} /\ keyFile \in PrivateKeys \cup {Bad}
    /\ acceptor \in Pairs \cup {NoTls}
    /\ job \in [Admins -> Jobs]
    /\ phase \in {"running", "stopping", "exited"}
    /\ listening \subseteq Loops
    /\ stage \in [Conns -> ThreadStages \cup {"none", "queued"}]
    /\ acc \in [Conns -> Pairs \cup {NoTls}]
    /\ queue \in Seq(Conns)
    /\ \A c \in Conns : stage[c] = "queued" <=> \E i \in 1..Len(queue) : queue[i] = c
    /\ \A i, j \in 1..Len(queue) : queue[i] = queue[j] => i = j
    /\ Cardinality(Served) <= MaxThreads

(* main: the HTTPS loop is started only if there is an acceptor. *)
Init ==
    /\ TlsInit
    /\ phase = "running"
    /\ listening = IF acceptor = NoTls THEN {"http"} ELSE Loops
    /\ queue = <<>>
    /\ stage = [c \in Conns |-> "none"]
    /\ acc = [c \in Conns |-> NoTls]

-----------------------------------------------------------------------------
AcceptIfRoom(c, l) ==                 \* mutant: a full pool swallows the task
    /\ l \in listening /\ stage[c] = "none"
    /\ stage' = [stage EXCEPT ![c] = "queued"]
    /\ acc' = [acc EXCEPT ![c] = IF l = "https" THEN acceptor ELSE NoTls]
    /\ queue' = IF Cardinality(Served) < MaxThreads THEN Append(queue, c) ELSE queue
    /\ UNCHANGED <<tlsVars, phase, listening>>

AcceptShared(c, l) ==                 \* mutant: get() is cached while a connection waits with it
    LET cached == {acc[d] : d \in Conns} \ {NoTls}
        got == IF cached = {} THEN acceptor ELSE CHOOSE p \in cached : TRUE
    IN  /\ l \in listening /\ stage[c] = "none"
        /\ stage' = [stage EXCEPT ![c] = "queued"]
        /\ acc' = [acc EXCEPT ![c] = IF l = "https" THEN got ELSE NoTls]
        /\ queue' = Append(queue, c)
        /\ UNCHANGED <<tlsVars, phase, listening>>

(* listener.accept(), acceptor.get() and spawn_blocking. *)
Accept(c, l) ==
    /\ l \in listening /\ stage[c] = "none"
    /\ stage' = [stage EXCEPT ![c] = "queued"]
    /\ acc' = [acc EXCEPT ![c] = IF l = "https" THEN acceptor ELSE NoTls]
    /\ queue' = Append(queue, c)
    /\ UNCHANGED <<tlsVars, phase, listening>>

(* listener.bind or accept().await? fails: the loop returns for good, the  *)
(* process goes on without it.                                             *)
LoopFails(l) ==
    /\ l \in listening
    /\ listening' = listening \ {l}
    /\ UNCHANGED <<tlsVars, phase, queue, stage, acc>>

Free(c) == queue # <<>> /\ Head(queue) = c /\ Cardinality(Served) < MaxThreads

StartUnbounded(c) ==                  \* mutant: a thread for every task
    /\ queue # <<>> /\ Head(queue) = c
    /\ stage' = [stage EXCEPT ![c] = IF acc[c] = NoTls THEN "idle" ELSE "handshake"]
    /\ queue' = Tail(queue)
    /\ UNCHANGED <<tlsVars, phase, listening, acc>>

(* A thread of the pool takes the oldest task, also when the runtime is    *)
(* being dropped.                                                          *)
Start(c) ==
    /\ Free(c)
    /\ stage' = [stage EXCEPT ![c] = IF acc[c] = NoTls THEN "idle" ELSE "handshake"]
    /\ queue' = Tail(queue)
    /\ UNCHANGED <<tlsVars, phase, listening, acc>>

(* A thread that is idle when the runtime is dropped discards the task. *)
Discard(c) ==
    /\ Free(c) /\ phase = "stopping"
    /\ stage' = [stage EXCEPT ![c] = "none"]
    /\ acc' = [acc EXCEPT ![c] = NoTls]
    /\ queue' = Tail(queue)
    /\ UNCHANGED <<tlsVars, phase, listening>>

Move(c, from, to) ==
    /\ stage[c] = from
    /\ stage' = [stage EXCEPT ![c] = to]
    /\ UNCHANGED <<tlsVars, phase, listening, queue, acc>>

(* acc.accept(stream) succeeds, the acceptor's last use; LuaEngine::new. *)
Handshake(c) ==
    /\ stage[c] = "handshake"
    /\ stage' = [stage EXCEPT ![c] = "idle"]
    /\ acc' = [acc EXCEPT ![c] = NoTls]
    /\ UNCHANGED <<tlsVars, phase, listening, queue>>

(* The client sends a request, also when the process is stopping. *)
Receive(c) == Move(c, "idle", "busy")

(* handle_request returns; the connection is kept alive. *)
Reply(c) == Move(c, "busy", "idle")

(* The upstream takes the request and never answers: client.request has no *)
(* timeout.                                                                *)
UpstreamHangs(c) == Move(c, "busy", "hung")

(* The thread is done with the connection: the handshake or LuaEngine::new *)
(* fails, the client goes away or the handler panics.                      *)
Close(c) ==
    /\ stage[c] \in ThreadStages
    /\ stage' = [stage EXCEPT ![c] = "none"]
    /\ acc' = [acc EXCEPT ![c] = NoTls]
    /\ UNCHANGED <<tlsVars, phase, listening, queue>>

CtrlCOnlyMain ==                      \* mutant: the accept loops go on
    /\ phase = "running"
    /\ phase' = "stopping"
    /\ UNCHANGED <<tlsVars, listening, queue, stage, acc>>

(* signal::ctrl_c() returns and so does main: the async tasks are dropped. *)
CtrlC ==
    /\ phase = "running"
    /\ phase' = "stopping"
    /\ listening' = {}
    /\ UNCHANGED <<tlsVars, queue, stage, acc>>

(* Dropping the runtime waits for the threads of the pool. *)
Exit ==
    /\ phase = "stopping" /\ queue = <<>> /\ Served = {}
    /\ phase' = "exited"
    /\ UNCHANGED <<tlsVars, listening, queue, stage, acc>>

TakeTask == \E c \in Conns : Start(c) \/ Discard(c)

ReloadStep(a) == phase # "exited" /\ Reload(a) /\ UNCHANGED serverVars

Next ==
    \/ TakeTask \/ CtrlC \/ Exit
    \/ \E l \in Loops : LoopFails(l) \/ \E c \in Conns : Accept(c, l)
    \/ \E c \in Conns : Handshake(c) \/ Receive(c) \/ Reply(c) \/ UpstreamHangs(c) \/ Close(c)
    \/ \E a \in Admins :
        \/ ReloadStep(a)
        \/ phase = "running" /\ Begin(a) /\ UNCHANGED serverVars
    \/ Operator /\ UNCHANGED serverVars

Spec == Init /\ [][Next]_vars

(* The pool hands out its threads, a reload runs to its end, an upstream   *)
(* answers or is silent for good, and the dropped runtime lets the process *)
(* end.  Clients and operator need not do anything.                        *)
FairSpec ==
    /\ Spec
    /\ WF_vars(TakeTask) /\ WF_vars(Exit)
    /\ \A c \in Conns : WF_vars(Reply(c) \/ UpstreamHangs(c))
    /\ \A a \in Admins : WF_vars(ReloadStep(a))

-----------------------------------------------------------------------------
(* Properties *)

(* Whenever certificate and key are replaced and however reloads overlap,  *)
(* no connection ever gets a certificate with another one's key.           *)
MatchedPair ==
    \A p \in {acceptor} \cup {acc[c] : c \in Conns} : p # NoTls => p.key = KeyOf[p.cert]

(* Certificate rotation: once the files hold a pair for good and reloads   *)
(* go on being asked for, the handshakes in the end all use that pair.     *)
(* Reloads that read the old files and store late, and connections that    *)
(* were accepted with the old acceptor and waited for a thread, run out.   *)
RotationReachesClients ==
    \A x \in Certs :
        (/\ <>[](certFile = x /\ keyFile = KeyOf[x])
         /\ []<>(\E a \in Admins : job[a] = Begun))
        => <>[][\A c \in Conns : Handshake(c) => acc[c].cert = x]_vars

(* Certificate x has been rotated in: files and acceptor hold it, and no   *)
(* reload under way has read another.                                      *)
RotatedIn(x) ==
    /\ certFile = x /\ keyFile = KeyOf[x]
    /\ acceptor.cert = x
    /\ \A a \in Admins : job[a].cert \in {Bad, x}

(* The connections still to shake hands with another certificate. *)
Outdated(x) == {c \in Conns : acc[c] # NoTls /\ acc[c].cert # x}

(* Until the operator writes the files again, what is rotated in stays: no *)
(* reload, failed or late, brings another certificate back, and no further *)
(* connection gets one, so that those that wait with an old one run out.   *)
RotationStays ==
    [][\A x \in Certs :
        RotatedIn(x) /\ UNCHANGED <<certFile, keyFile>>
            => RotatedIn(x)' /\ Outdated(x)' \subseteq Outdated(x)]_vars

(* A connection that was accepted does not wait for a thread for ever, if  *)
(* every other connection now and then has none: the pool at its limit     *)
(* delays connections, it does not lose them.  (One that a silent upstream *)
(* holds on to keeps its thread.)                                          *)
AcceptedIsServed ==
    (\A d \in Conns : []<>(d \notin Served)) => \A c \in Conns : stage[c] = "queued" ~> stage[c] # "queued"

(* After Ctrl+C the process ends, unless a connection keeps its thread for *)
(* ever: the ones queued or accepted before do not hold it up one by one.  *)
ShutdownCompletes == <>[](phase = "stopping") => \E c \in Conns : <>[](c \in Served)
=============================================================================
