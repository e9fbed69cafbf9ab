-------------------------- MODULE RequestPipeline ---------------------------
(***************************************************************************)
(* One HTTP request through the proxy: the connection loop of main.rs,     *)
(* handle_request and forward_request (handler.rs), the hook runs of       *)
(* LuaEngine (lua/engine.rs) on a RequestCtx (lua/context.rs) and the      *)
(* metrics they update (metrics.rs).  A connection has a thread and a Lua  *)
(* VM of its own; the VM outlives the requests of a keep-alive connection, *)
(* and every hook run loads every plugin into it again.  The connections   *)
(* share the plugin sources, which a reload replaces between two hook runs *)
(* but not during one (see PluginReload for the reload itself).            *)
(***************************************************************************)
EXTENDS Integers, Sequences, FiniteSets

CONSTANTS
    Conns,        \* client connections, each with its thread and VM
    Plugins,      \* the plugin files
    Pipeline,     \* PluginSources.pipeline
    Versions,     \* what PluginSources.sources may be: functions Plugins -> Code
    Upstreams,    \* names of the configured upstreams
    Names,        \* upstream names the hooks use
    Statuses,     \* classes of status codes the hooks use
    Values,       \* classes of header values the hooks use
    Bodies,       \* classes of bodies the upstream answers with
    MaxRequests,  \* bound: requests received
    Nil           \* Lua's nil and Rust's None

Hooks == {"on_request", "on_route", "on_transform", "on_response"}

(* A plugin's source: whether the map has it, whether the chunk runs to    *)
(* its end, and the hooks it has defined when it ends or fails.            *)
Code == [there : BOOLEAN, ok : BOOLEAN, defs : SUBSET Hooks]

(* A "bad" status is outside 100..999, a "bad" header value is one that    *)
(* http's builder refuses.                                                 *)
Classes == {"ok", "bad"}

(* An empty body, UTF-8 text, bytes that are not UTF-8, and what           *)
(* from_utf8_lossy makes of those.                                         *)
BodyKinds == {"empty", "text", "binary", "mangled"}

ASSUME ConnsAssumption == IsFiniteSet(Conns)
ASSUME PipelineAssumption == Pipeline \in Seq(Plugins)
ASSUME VersionsAssumption == Versions \subseteq [Plugins -> Code] /\ Versions # {}
ASSUME InputsAssumption ==
    /\ Statuses \subseteq Classes /\ Values \subseteq Classes
    /\ Bodies \subseteq {"empty", "text", "binary"}
ASSUME MaxRequestsAssumption == MaxRequests \in Nat
ASSUME NilAssumption == Nil \notin Plugins \cup Names \cup Classes \cup {"default"}

Positions == 1..Len(Pipeline)

(* The stages of handle_request; "await" is client.request().await. *)
Stages == Hooks \cup {"closed", "idle", "collect", "pick", "forward", "await"}

Outcomes == {"rejected", "relayed", "500", "502", "503"}

VARIABLES
    srcs,      \* the shared PluginSources.sources
    pc,        \* pc[c]: the stage of c's request
    at,        \* at[c]: 0 waits for the read lock, else the position in the pipeline
    calling,   \* calling[c]: the hook function at at[c] runs
    globals,   \* globals[c][h]: plugin that defined global h in c's VM, or Nil
    ctx,       \* ctx[c]: the RequestCtx
    name,      \* name[c]: upstream_name
    raw,       \* raw[c]: res_body as the upstream sent it
    reply,     \* reply[c]: the response to c's request
    count,     \* the metrics, and the requests answered and dropped
    snap,      \* history: the sources of c's on_request run
    ran,       \* history: positions whose plugin's own on_request was called
    did,       \* history: what hooks did in c's request, in on_request or later
    sent       \* history: c's request went to an upstream

ghosts == <<snap, ran, did, sent>>
vars == <<srcs, pc, at, calling, globals, ctx, name, raw, reply, count, ghosts>>

(* REQ_COUNTER with a method's label, REQ_COUNTER["rejected"] and the      *)
(* number of observations of REQ_DURATION; then two of the history.        *)
Counters == {"requests", "rejected", "durations", "replied", "dropped"}

Replies == [status : Outcomes \cup {Nil}, header : Classes \cup {Nil}, body : BodyKinds]

NoReply == [status |-> Nil, header |-> Nil, body |-> "empty"]

(* RequestCtx, as far as the handler reads it again: vars is the one entry *)
(* "__upstream__", req_headers and res_headers one header each.            *)
Contexts == [rejected : Classes \cup {Nil}, upstream : Names \cup {Nil},
             req_header : Classes \cup {Nil}, res_status : Classes,
             res_header : Classes \cup {Nil}, res_body : BodyKinds]

(* RequestCtx::new *)
NewCtx == [rejected |-> Nil, upstream |-> Nil, req_header |-> Nil,
           res_status |-> "ok", res_header |-> Nil, res_body |-> "empty"]

Deeds == {"early", "late"} \X {"reject", "upstream", "set_res_header"}

(* The type invariant: a hook run stays within the pipeline, also when it  *)
(* is cut short, and every context and reply has its fields.               *)
TypeOK ==
    /\ srcs \in Versions
    /\ pc \in [Conns -> Stages]
    /\ at \in [Conns -> 0..(Len(Pipeline) + 1)]
    /\ calling \in [Conns -> BOOLEAN]
    /\ globals \in [Conns -> [Hooks -> Plugins \cup {Nil}]]
    /\ ctx \in [Conns -> Contexts]
    /\ name \in [Conns -> Names \cup {"default", Nil}]
    /\ raw \in [Conns -> BodyKinds]
    /\ reply \in [Conns -> Replies]
    /\ count \in [Counters -> Nat]
    /\ snap \in [Conns -> Versions]
    /\ ran \in [Conns -> SUBSET Positions]
    /\ did \in [Conns -> SUBSET Deeds]
    /\ sent \in [Conns -> BOOLEAN]

Init ==
    /\ srcs \in Versions
    /\ pc = [c \in Conns |-> "closed"]
    /\ at = [c \in Conns |-> 0]
    /\ calling = [c \in Conns |-> FALSE]
    /\ globals = [c \in Conns |-> [h \in Hooks |-> Nil]]
    /\ ctx = [c \in Conns |-> NewCtx]
    /\ name = [c \in Conns |-> Nil]
    /\ raw = [c \in Conns |-> "empty"]
    /\ reply = [c \in Conns |-> NoReply]
    /\ count = [k \in Counters |-> 0]
    /\ snap = [c \in Conns |-> srcs]
    /\ ran = [c \in Conns |-> {}]
    /\ did = [c \in Conns |-> {}]
    /\ sent = [c \in Conns |-> FALSE]

-----------------------------------------------------------------------------
(* Helpers *)

Goto(c, stage) ==
    /\ pc' = [pc EXCEPT ![c] = stage]
    /\ at' = [at EXCEPT ![c] = 0]

Tally(keys) == count' = [k \in Counters |-> IF k \in keys THEN count[k] + 1 ELSE count[k]]

(* The request ends without a response: the future is dropped or unwinds,  *)
(* and with it the timer, which then observes the duration.                *)
Drop(c) ==
    /\ Goto(c, "closed")
    /\ Tally({"durations", "dropped"})
    /\ UNCHANGED <<srcs, calling, globals, ctx, name, raw, reply, ghosts>>

(* The request ends with a response; the timer observes the duration. *)
Answer(c, status, stage) ==
    /\ Goto(c, stage)
    /\ reply' = [reply EXCEPT ![c].status = status]
    /\ Tally({"durations", "replied"})
    /\ UNCHANGED <<srcs, calling, globals, ctx, name, raw, ghosts>>

-----------------------------------------------------------------------------
(* The connection *)

(* accept, spawn_blocking and LuaEngine::new: a new VM. *)
Open(c) ==
    /\ pc[c] = "closed"
    /\ Goto(c, "idle")
    /\ globals' = [globals EXCEPT ![c] = [h \in Hooks |-> Nil]]
    /\ UNCHANGED <<srcs, calling, ctx, name, raw, reply, count, ghosts>>

(* serve_connection hands a request to handle_request, which counts it,    *)
(* starts the timer and waits for the body.                                *)
Receive(c) ==
    /\ pc[c] = "idle" /\ count["requests"] < MaxRequests
    /\ Goto(c, "collect")
    /\ Tally({"requests"})
    /\ name' = [name EXCEPT ![c] = Nil]
    /\ reply' = [reply EXCEPT ![c] = NoReply]
    /\ ran' = [ran EXCEPT ![c] = {}]
    /\ did' = [did EXCEPT ![c] = {}]
    /\ sent' = [sent EXCEPT ![c] = FALSE]
    /\ UNCHANGED <<srcs, calling, globals, ctx, raw, snap>>

CollectReuse(c) ==                    \* mutant: the context of the last request
    /\ pc[c] = "collect"
    /\ Goto(c, "on_request")
    /\ UNCHANGED <<srcs, calling, globals, ctx, name, raw, reply, count, ghosts>>

(* The body is there and RequestCtx::new makes the context. *)
Collect(c) ==
    /\ pc[c] = "collect"
    /\ Goto(c, "on_request")
    /\ ctx' = [ctx EXCEPT ![c] = NewCtx]
    /\ UNCHANGED <<srcs, calling, globals, name, raw, reply, count, ghosts>>

(* collect().await? fails: the service answers 500 and hyper, which cannot *)
(* find the end of the request, closes the connection.                     *)
CollectFails(c) == pc[c] = "collect" /\ Answer(c, "500", "closed")

(* The client goes away: the future is dropped where it awaits. *)
Disconnect(c) ==
    \/ /\ pc[c] = "idle"
       /\ Goto(c, "closed")
       /\ UNCHANGED <<srcs, calling, globals, ctx, name, raw, reply, count, ghosts>>
    \/ /\ pc[c] \in {"collect", "await"}
       /\ Drop(c)

-----------------------------------------------------------------------------
(* A hook run: run_on_request and its three siblings *)

(* The thread of c keeps the read lock from Enter to the end of the run. *)
Holding(c) == pc[c] \in Hooks /\ at[c] > 0

Enter(c) ==
    /\ pc[c] \in Hooks /\ at[c] = 0
    /\ at' = [at EXCEPT ![c] = 1]
    /\ snap' = IF pc[c] = "on_request" THEN [snap EXCEPT ![c] = srcs] ELSE snap
    /\ UNCHANGED <<srcs, pc, calling, globals, ctx, name, raw, reply, count, ran, did, sent>>

Plugin(c) == Pipeline[at[c]]

Turn(c) == pc[c] \in Hooks /\ at[c] \in Positions /\ ~calling[c]

(* sources.get(name) is None. *)
SkipMissing(c) ==
    /\ Turn(c) /\ ~srcs[Plugin(c)].there
    /\ at' = [at EXCEPT ![c] = @ + 1]
    /\ UNCHANGED <<srcs, pc, calling, globals, ctx, name, raw, reply, count, ghosts>>

(* The VM after load_plugin: the chunk's functions are globals, and the    *)
(* globals it does not define are still there.                             *)
Loaded(c) ==
    [h \in Hooks |-> IF h \in srcs[Plugin(c)].defs THEN Plugin(c) ELSE globals[c][h]]

LoadFailsRetry(c) ==                  \* mutant: the failed load does not advance
    /\ Turn(c) /\ srcs[Plugin(c)].there /\ ~srcs[Plugin(c)].ok
    /\ globals' = [globals EXCEPT ![c] = Loaded(c)]
    /\ UNCHANGED <<srcs, pc, at, calling, ctx, name, raw, reply, count, ghosts>>

(* load_plugin fails: `continue', with what the chunk did until then. *)
LoadFails(c) ==
    /\ Turn(c) /\ srcs[Plugin(c)].there /\ ~srcs[Plugin(c)].ok
    /\ globals' = [globals EXCEPT ![c] = Loaded(c)]
    /\ at' = [at EXCEPT ![c] = @ + 1]
    /\ UNCHANGED <<srcs, pc, calling, ctx, name, raw, reply, count, ghosts>>

(* globals.get::<LuaFunction>(hook) fails: no function of that name. *)
NoHook(c) ==
    /\ Turn(c) /\ srcs[Plugin(c)].there /\ srcs[Plugin(c)].ok /\ Loaded(c)[pc[c]] = Nil
    /\ globals' = [globals EXCEPT ![c] = Loaded(c)]
    /\ at' = [at EXCEPT ![c] = @ + 1]
    /\ UNCHANGED <<srcs, pc, calling, ctx, name, raw, reply, count, ghosts>>

(* func.call(lua_ctx) begins. *)
CallHook(c) ==
    /\ Turn(c) /\ srcs[Plugin(c)].there /\ srcs[Plugin(c)].ok /\ Loaded(c)[pc[c]] # Nil
    /\ globals' = [globals EXCEPT ![c] = Loaded(c)]
    /\ calling' = [calling EXCEPT ![c] = TRUE]
    /\ ran' = IF pc[c] = "on_request" /\ pc[c] \in srcs[Plugin(c)].defs
              THEN [ran EXCEPT ![c] = @ \cup {at[c]}] ELSE ran
    /\ UNCHANGED <<srcs, pc, at, ctx, name, raw, reply, count, snap, did, sent>>

ReturnHookGoesOn(c, n) ==             \* mutant: a reject does not break the loop
    /\ calling[c]
    /\ n # Nil => pc[c] = "on_route"
    /\ calling' = [calling EXCEPT ![c] = FALSE]
    /\ name' = IF n # Nil THEN [name EXCEPT ![c] = n] ELSE name
    /\ at' = [at EXCEPT ![c] = IF n # Nil THEN Len(Pipeline) + 1 ELSE @ + 1]
    /\ UNCHANGED <<srcs, pc, globals, ctx, raw, reply, count, ghosts>>

ReturnHookOvershoots(c, n) ==         \* mutant: off by one when the run is cut short
    /\ calling[c]
    /\ n # Nil => pc[c] = "on_route"
    /\ calling' = [calling EXCEPT ![c] = FALSE]
    /\ name' = IF n # Nil THEN [name EXCEPT ![c] = n] ELSE name
    /\ at' = [at EXCEPT ![c] = IF n # Nil THEN Len(Pipeline) + 2 ELSE @ + 1]
    /\ UNCHANGED <<srcs, pc, globals, ctx, raw, reply, count, ghosts>>

(* func.call returns, with a name (on_route only), with nil or with an     *)
(* error.  A name ends the on_route run, a reject the on_request run.      *)
ReturnHook(c, n) ==
    /\ calling[c]
    /\ n # Nil => pc[c] = "on_route"
    /\ calling' = [calling EXCEPT ![c] = FALSE]
    /\ name' = IF n # Nil THEN [name EXCEPT ![c] = n] ELSE name
    /\ at' = [at EXCEPT ![c] =
            IF n # Nil \/ (pc[c] = "on_request" /\ ctx[c].rejected # Nil)
            THEN Len(Pipeline) + 1 ELSE @ + 1]
    /\ UNCHANGED <<srcs, pc, globals, ctx, raw, reply, count, ghosts>>

-----------------------------------------------------------------------------
(* The methods of LuaCtx, called by a running hook *)

Note(c, op) ==
    did' = [did EXCEPT ![c] = @ \cup {<<IF pc[c] = "on_request" THEN "early" ELSE "late", op>>}]

CtxReject(c, s) ==
    /\ calling[c]
    /\ ctx' = [ctx EXCEPT ![c].rejected = s]
    /\ Note(c, "reject")
    /\ UNCHANGED <<srcs, pc, at, calling, globals, name, raw, reply, count, snap, ran, sent>>

CtxUpstream(c, n) ==
    /\ calling[c]
    /\ ctx' = [ctx EXCEPT ![c].upstream = n]
    /\ Note(c, "upstream")
    /\ UNCHANGED <<srcs, pc, at, calling, globals, name, raw, reply, count, snap, ran, sent>>

CtxSetReqHeader(c, v) ==
    /\ calling[c]
    /\ ctx' = [ctx EXCEPT ![c].req_header = v]
    /\ UNCHANGED <<srcs, pc, at, calling, globals, name, raw, reply, count, ghosts>>

CtxSetResHeader(c, v) ==
    /\ calling[c]
    /\ ctx' = [ctx EXCEPT ![c].res_header = v]
    /\ Note(c, "set_res_header")
    /\ UNCHANGED <<srcs, pc, at, calling, globals, name, raw, reply, count, snap, ran, sent>>

CtxSetResStatus(c, s) ==
    /\ calling[c]
    /\ ctx' = [ctx EXCEPT ![c].res_status = s]
    /\ UNCHANGED <<srcs, pc, at, calling, globals, name, raw, reply, count, ghosts>>

-----------------------------------------------------------------------------
(* handle_request between the hook runs *)

Ended(c, hook) == pc[c] = hook /\ at[c] = Len(Pipeline) + 1 /\ ~calling[c]

Admit(c) ==
    /\ Ended(c, "on_request") /\ ctx[c].rejected = Nil
    /\ Goto(c, "on_route")
    /\ UNCHANGED <<srcs, calling, globals, ctx, name, raw, reply, count, ghosts>>

RejectUntimed(c) ==                   \* mutant: the timer is discarded
    /\ Ended(c, "on_request") /\ ctx[c].rejected = "ok"
    /\ Goto(c, "idle")
    /\ reply' = [reply EXCEPT ![c].status = "rejected"]
    /\ Tally({"replied", "rejected"})
    /\ UNCHANGED <<srcs, calling, globals, ctx, name, raw, ghosts>>

(* error_response with the plugin's status; REQ_COUNTER counts the label   *)
(* "rejected" too.                                                         *)
Reject(c) ==
    /\ Ended(c, "on_request") /\ ctx[c].rejected = "ok"
    /\ Goto(c, "idle")
    /\ reply' = [reply EXCEPT ![c].status = "rejected"]
    /\ Tally({"durations", "replied", "rejected"})
    /\ UNCHANGED <<srcs, calling, globals, ctx, name, raw, ghosts>>

RejectPanicsUntimed(c) ==             \* mutant: observed by hand, after error_response
    /\ Ended(c, "on_request") /\ ctx[c].rejected = "bad"
    /\ Goto(c, "closed")
    /\ Tally({"dropped", "rejected"})
    /\ UNCHANGED <<srcs, calling, globals, ctx, name, raw, reply, ghosts>>

(* error_response unwraps the builder's error: the thread panics. *)
RejectPanics(c) ==
    /\ Ended(c, "on_request") /\ ctx[c].rejected = "bad"
    /\ Goto(c, "closed")
    /\ Tally({"durations", "dropped", "rejected"})
    /\ UNCHANGED <<srcs, calling, globals, ctx, name, raw, reply, ghosts>>

(* upstream_name: what on_route returned, or the last ctx:upstream(). *)
Route(c) ==
    /\ Ended(c, "on_route")
    /\ Goto(c, "on_transform")
    /\ name' = [name EXCEPT ![c] = CASE @ # Nil -> @
                                     [] @ = Nil /\ ctx[c].upstream # Nil -> ctx[c].upstream
                                     [] OTHER -> "default"]
    /\ UNCHANGED <<srcs, calling, globals, ctx, raw, reply, count, ghosts>>

Transformed(c) ==
    /\ Ended(c, "on_transform")
    /\ Goto(c, "pick")
    /\ UNCHANGED <<srcs, calling, globals, ctx, name, raw, reply, count, ghosts>>

(* UpstreamPool::next_url: the named upstream, else "default", else None;  *)
(* a known upstream has a target alive or not (see Balancer).              *)
Known(c) == {name[c], "default"} \cap Upstreams # {}

NoUpstream(c) == pc[c] = "pick" /\ Answer(c, "503", "idle")

PickTarget(c) ==
    /\ pc[c] = "pick" /\ Known(c)
    /\ Goto(c, "forward")
    /\ UNCHANGED <<srcs, calling, globals, ctx, name, raw, reply, count, ghosts>>

(* The request is built and sent; a header it refuses is an error. *)
Send(c) ==
    /\ pc[c] = "forward" /\ ctx[c].req_header # "bad"
    /\ Goto(c, "await")
    /\ sent' = [sent EXCEPT ![c] = TRUE]
    /\ UNCHANGED <<srcs, calling, globals, ctx, name, raw, reply, count, snap, ran, did>>

(* The URL of target and path does not parse, which depends on neither of  *)
(* the things modelled here, or a header is refused.                       *)
SendFails(c) == pc[c] = "forward" /\ Answer(c, "502", "idle")

UpstreamRetries(c) ==                 \* mutant: the request is sent once more
    /\ pc[c] = "await"
    /\ Goto(c, "forward")
    /\ UNCHANGED <<srcs, calling, globals, ctx, name, raw, reply, count, ghosts>>

(* The upstream refuses, breaks off or sends nonsense. *)
UpstreamFails(c) == pc[c] = "await" /\ Answer(c, "502", "idle")

(* from_utf8_lossy *)
Lossy(b) == IF b = "binary" THEN "mangled" ELSE b

(* The whole answer is there and replaces what the hooks had set. *)
UpstreamAnswers(c, b) ==
    /\ pc[c] = "await"
    /\ Goto(c, "on_response")
    /\ raw' = [raw EXCEPT ![c] = b]
    /\ ctx' = [ctx EXCEPT ![c] = [@ EXCEPT !.res_status = "ok", !.res_header = Nil,
                                           !.res_body = Lossy(b)]]
    /\ UNCHANGED <<srcs, calling, globals, name, reply, count, ghosts>>

Assembled(c) == "bad" \notin {ctx[c].res_status, ctx[c].res_header}

(* The final response; its body is res_body unless that is empty. *)
Relay(c) ==
    /\ Ended(c, "on_response") /\ Assembled(c)
    /\ Goto(c, "idle")
    /\ reply' = [reply EXCEPT ![c] =
            [status |-> "relayed", header |-> ctx[c].res_header,
             body |-> IF ctx[c].res_body = "empty" THEN raw[c] ELSE ctx[c].res_body]]
    /\ Tally({"durations", "replied"})
    /\ UNCHANGED <<srcs, calling, globals, ctx, name, raw, ghosts>>

(* builder.body(..)? fails: the service answers 500. *)
RelayFails(c) == Ended(c, "on_response") /\ ~Assembled(c) /\ Answer(c, "500", "idle")

ReloadAnyTime(v) ==                   \* mutant: the hook runs do not keep the lock
    /\ srcs # v
    /\ srcs' = v
    /\ UNCHANGED <<pc, at, calling, globals, ctx, name, raw, reply, count, ghosts>>

(* A reload takes the write lock and replaces the sources. *)
Reload(v) ==
    /\ srcs # v /\ \A c \in Conns : ~Holding(c)
    /\ srcs' = v
    /\ UNCHANGED <<pc, at, calling, globals, ctx, name, raw, reply, count, ghosts>>

-----------------------------------------------------------------------------
(* What the client, the upstream and a running hook may do. *)
Environment(c) ==
    \/ Open(c) \/ Receive(c) \/ Collect(c) \/ CollectFails(c) \/ Disconnect(c)
    \/ UpstreamFails(c)
    \/ \E b \in Bodies : UpstreamAnswers(c, b)
    \/ \E s \in Statuses : CtxReject(c, s) \/ CtxSetResStatus(c, s)
    \/ \E n \in Names : CtxUpstream(c, n)
    \/ \E v \in Values : CtxSetReqHeader(c, v) \/ CtxSetResHeader(c, v)

(* What the thread of the connection does by itself. *)
Advance(c) ==
    \/ Enter(c) \/ SkipMissing(c) \/ LoadFails(c) \/ NoHook(c) \/ CallHook(c)
    \/ \E n \in Names \cup {Nil} : ReturnHook(c, n)
    \/ Admit(c) \/ Reject(c) \/ RejectPanics(c) \/ Route(c) \/ Transformed(c)
    \/ NoUpstream(c) \/ PickTarget(c) \/ Send(c) \/ SendFails(c)
    \/ Relay(c) \/ RelayFails(c)

Next ==
    \/ \E c \in Conns : Environment(c) \/ Advance(c)
    \/ \E v \in Versions : Reload(v)

Spec == Init /\ [][Next]_vars

(* The threads run, and the functions of the plugins return; neither the   *)
(* client nor the upstream has to do anything.                             *)
FairSpec == Spec /\ \A c \in Conns : WF_vars(Advance(c))

-----------------------------------------------------------------------------
(* Properties *)

(* The positions whose plugin has an on_request hook of its own, in        *)
(* version v of the sources.                                               *)
Guards(v) == {i \in Positions :
    LET code == v[Pipeline[i]] IN code.there /\ code.ok /\ "on_request" \in code.defs}

(* A request that reaches an upstream went through the own on_request of   *)
(* every plugin that one single version of the sources could load, and     *)
(* none of the calls rejected it (run_on_request, handler.rs:58-71),       *)
(* whatever is reloaded meanwhile and whatever the VM still holds.         *)
NoPluginBypassed ==
    \A c \in Conns : sent[c] => ran[c] = Guards(snap[c]) /\ <<"early", "reject">> \notin did[c]

(* The plugins after the one that rejects do not run: a call of            *)
(* on_request begins only while the request is not rejected.               *)
RejectStopsPipeline ==
    [][\A c \in Conns : pc[c] = "on_request" /\ ~calling[c] /\ calling'[c]
                            => <<"early", "reject">> \notin did[c]]_vars

InRequest == {c \in Conns : pc[c] \notin {"closed", "idle"}}

(* Every request counted is under way, answered or dropped, and its        *)
(* duration is observed exactly once, on each of the handler's exits: the  *)
(* five returns, the two errors, the panic and the cancelled future.       *)
RequestsBalance ==
    /\ count["durations"] + Cardinality(InRequest) = count["requests"]
    /\ count["replied"] + count["dropped"] = count["durations"]

(* The context holds nothing of an earlier request of the connection: what *)
(* it says was done by a hook in this request.                             *)
FreshContext ==
    \A c \in InRequest : pc[c] # "collect" =>
        /\ ctx[c].rejected # Nil => \E w \in {"early", "late"} : <<w, "reject">> \in did[c]
        /\ ctx[c].upstream # Nil => \E w \in {"early", "late"} : <<w, "upstream">> \in did[c]

(* A request in the hands of the proxy (not of the client or the upstream) *)
(* gets out of them: every hook run, also one whose plugins are missing or *)
(* fail to load, comes to its end.                                         *)
HooksFinish ==
    \A c \in Conns :
        (pc[c] \in Hooks \cup {"pick", "forward"}) ~> (pc[c] \in {"idle", "closed", "await"})

(* engine.rs:125: the plugins are loaded into a fresh environment on every *)
(* request ("매 요청마다 fresh 환경"), so that an on_request that is called      *)
(* was defined by a plugin loaded for this request, not by one of an       *)
(* earlier request of the connection.                                      *)
FreshEveryRequest ==
    \A c \in Conns : calling[c] /\ pc[c] = "on_request" =>
        \E i \in 1..at[c] : LET p == Pipeline[i] IN
            p = globals[c]["on_request"] /\ srcs[p].there /\ "on_request" \in srcs[p].defs

-----------------------------------------------------------------------------
(* The pipeline as a Gateway: its checks are the positions of the pipeline *)
(* whose plugin has an on_request hook.                                    *)

StageOf(c) ==
    CASE pc[c] \in {"closed", "idle"} -> "none"
      [] pc[c] \in {"collect", "on_request"} -> "held"
      [] pc[c] \in {"on_route", "on_transform", "pick", "forward"} -> "cleared"
      [] pc[c] \in {"await", "on_response"} -> "sent"

PassedBy(c) == IF StageOf(c) \in {"cleared", "sent"} THEN ran[c] ELSE {}

G == INSTANCE Gateway WITH
        Checks <- Positions,
        policy <- Guards(srcs),
        stage  <- [c \in Conns |-> StageOf(c)],
        passed <- [c \in Conns |-> PassedBy(c)],
        answer <- [c \in Conns |-> reply[c].status]

(* The handler implements the gateway: although a hook run takes many      *)
(* steps, while other connections run and reloads wait, its effect is that *)
(* of one step that applies the checks in force, since the run keeps the   *)
(* read lock (engine.rs:122); what was not cleared is never sent, nothing  *)
(* is sent twice, and every exit of handle_request gives an answer its     *)
(* stage allows.                                                           *)
ImplementsGateway == G!Spec
=============================================================================
