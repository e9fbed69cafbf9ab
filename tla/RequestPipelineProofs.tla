----------------------- MODULE RequestPipelineProofs ------------------------
(***************************************************************************)
(* Theorems about RequestPipeline, for every number of connections, every  *)
(* pipeline and every set of versions of the sources.                      *)
(***************************************************************************)
EXTENDS RequestPipeline, FiniteSetTheorems, TLAPS

(* The plugin at a position of the pipeline is one of the plugins, and     *)
(* loading it into a VM leaves globals that plugins have defined.          *)
LEMMA LoadedType ==
    ASSUME TypeOK, NEW c \in Conns, Turn(c)
    PROVE  /\ Plugin(c) \in Plugins
           /\ srcs[Plugin(c)] \in Code
           /\ Loaded(c) \in [Hooks -> Plugins \cup {Nil}]
           /\ at[c] \in Positions
           /\ at[c] + 1 \in 0..(Len(Pipeline) + 1)
  <1>1. Len(Pipeline) \in Nat /\ at[c] \in Positions
    BY PipelineAssumption DEF Turn
  <1>2. Plugin(c) \in Plugins
    BY <1>1, PipelineAssumption DEF Plugin, Positions
  <1>3. srcs[Plugin(c)] \in Code
    BY <1>2, VersionsAssumption DEF TypeOK
  <1>4. Loaded(c) \in [Hooks -> Plugins \cup {Nil}]
    BY <1>2 DEF Loaded, TypeOK
  <1>5. at[c] + 1 \in 0..(Len(Pipeline) + 1)
    BY <1>1 DEF Positions
  <1> QED
    BY <1>1, <1>2, <1>3, <1>4, <1>5

(* The helpers of the actions keep the types of what they change. *)
LEMMA GotoType ==
    ASSUME TypeOK, NEW c \in Conns, NEW stage \in Stages, Goto(c, stage)
    PROVE  pc' \in [Conns -> Stages] /\ at' \in [Conns -> 0..(Len(Pipeline) + 1)]
  <1>1. 0 \in 0..(Len(Pipeline) + 1)
    BY PipelineAssumption
  <1> QED
    BY <1>1 DEF Goto, TypeOK

LEMMA TallyType ==
    ASSUME TypeOK, NEW keys, Tally(keys)
    PROVE  count' \in [Counters -> Nat]
  <1>1. \A k \in Counters : (IF k \in keys THEN count[k] + 1 ELSE count[k]) \in Nat
    BY DEF TypeOK
  <1> QED
    BY <1>1 DEF Tally

LEMMA StatusType ==
    ASSUME TypeOK, NEW c \in Conns, NEW status \in Outcomes,
           reply' = [reply EXCEPT ![c].status = status]
    PROVE  reply' \in [Conns -> Replies]
  <1>1. [reply[c] EXCEPT !.status = status] \in Replies
    BY DEF TypeOK, Replies
  <1>2. reply' = [reply EXCEPT ![c] = [reply[c] EXCEPT !.status = status]]
    OBVIOUS
  <1> QED
    BY <1>1, <1>2 DEF TypeOK

LEMMA AnswerType ==
    ASSUME TypeOK, NEW c \in Conns, NEW status \in Outcomes, NEW stage \in Stages,
           Answer(c, status, stage)
    PROVE  TypeOK'
  <1>1. pc' \in [Conns -> Stages] /\ at' \in [Conns -> 0..(Len(Pipeline) + 1)]
    BY GotoType DEF Answer
  <1>2. count' \in [Counters -> Nat]
    BY TallyType DEF Answer
  <1>3. reply' \in [Conns -> Replies]
    BY StatusType DEF Answer
  <1> QED
    BY <1>1, <1>2, <1>3 DEF Answer, TypeOK, ghosts

LEMMA DropType ==
    ASSUME TypeOK, NEW c \in Conns, Drop(c)
    PROVE  TypeOK'
  <1>1. pc' \in [Conns -> Stages] /\ at' \in [Conns -> 0..(Len(Pipeline) + 1)]
    BY GotoType DEF Drop, Stages
  <1>2. count' \in [Counters -> Nat]
    BY TallyType DEF Drop
  <1> QED
    BY <1>1, <1>2 DEF Drop, TypeOK, ghosts

(* Each method of ctx leaves a context. *)
LEMMA ContextUpdates ==
    ASSUME TypeOK, NEW c \in Conns
    PROVE  /\ \A s \in Classes : [ctx[c] EXCEPT !.rejected = s] \in Contexts
           /\ \A n \in Names : [ctx[c] EXCEPT !.upstream = n] \in Contexts
           /\ \A v \in Classes : [ctx[c] EXCEPT !.req_header = v] \in Contexts
           /\ \A v \in Classes : [ctx[c] EXCEPT !.res_header = v] \in Contexts
           /\ \A s \in Classes : [ctx[c] EXCEPT !.res_status = s] \in Contexts
  BY DEF TypeOK, Contexts

(* So does the replacement of the response by the upstream's answer. *)
LEMMA AnswerContext ==
    ASSUME NEW x \in Contexts, NEW b \in BodyKinds
    PROVE  [x EXCEPT !.res_status = "ok", !.res_header = Nil, !.res_body = b] \in Contexts
  <1>1. [x EXCEPT !.res_status = "ok"] \in Contexts
    BY DEF Contexts, Classes
  <1>2. \A y \in Contexts : [y EXCEPT !.res_header = Nil] \in Contexts
    BY DEF Contexts
  <1>3. \A y \in Contexts : [y EXCEPT !.res_body = b] \in Contexts
    BY DEF Contexts
  <1> QED
    BY <1>1, <1>2, <1>3

LEMMA NoteType ==
    ASSUME TypeOK, NEW c \in Conns, NEW op \in {"reject", "upstream", "set_res_header"},
           Note(c, op)
    PROVE  did' \in [Conns -> SUBSET Deeds]
  <1>1. <<IF pc[c] = "on_request" THEN "early" ELSE "late", op>> \in Deeds
    BY DEF Deeds
  <1> QED
    BY <1>1 DEF Note, TypeOK

(* A hook function runs inside a hook run, at a position of the pipeline:  *)
(* what makes the position of the next turn one of the pipeline or its end. *)
HookCalls == \A c \in Conns : calling[c] => pc[c] \in Hooks /\ at[c] \in Positions

LEMMA TypeInit == Init => TypeOK
  BY PipelineAssumption, VersionsAssumption
     DEF Init, TypeOK, NewCtx, Contexts, NoReply, Replies, Stages, Outcomes, Classes, BodyKinds

(* One step of the pipeline keeps the types, by one case per action. *)
LEMMA TypeStep == TypeOK /\ HookCalls /\ [Next]_vars => TypeOK'
  <1> SUFFICES ASSUME TypeOK, HookCalls, [Next]_vars PROVE TypeOK'
    OBVIOUS
  <1>0. Len(Pipeline) \in Nat
    BY PipelineAssumption
  <1>1. ASSUME NEW c \in Conns, Environment(c) PROVE TypeOK'
    <2>1. CASE Open(c)
      <3>1. pc' \in [Conns -> Stages] /\ at' \in [Conns -> 0..(Len(Pipeline) + 1)]
        BY <2>1, GotoType DEF Open, Stages, Hooks
      <3> QED
        BY <2>1, <3>1 DEF Open, TypeOK, ghosts
    <2>2. CASE Receive(c)
      <3>1. pc' \in [Conns -> Stages] /\ at' \in [Conns -> 0..(Len(Pipeline) + 1)]
        BY <2>2, GotoType DEF Receive, Stages, Hooks
      <3>2. count' \in [Counters -> Nat]
        BY <2>2, TallyType DEF Receive
      <3>3. NoReply \in Replies
        BY DEF NoReply, Replies, BodyKinds
      <3> QED
        BY <2>2, <3>1, <3>2, <3>3 DEF Receive, TypeOK, ghosts
    <2>3. CASE Collect(c)
      <3>1. pc' \in [Conns -> Stages] /\ at' \in [Conns -> 0..(Len(Pipeline) + 1)]
        BY <2>3, GotoType DEF Collect, Stages, Hooks
      <3>2. NewCtx \in Contexts
        BY DEF NewCtx, Contexts, Classes, BodyKinds
      <3> QED
        BY <2>3, <3>1, <3>2 DEF Collect, TypeOK, ghosts
    <2>4. CASE CollectFails(c)
      BY <2>4, AnswerType DEF CollectFails, Outcomes, Stages
    <2>5. CASE Disconnect(c)
      <3>1. CASE pc[c] = "idle"
        <4>1. pc' \in [Conns -> Stages] /\ at' \in [Conns -> 0..(Len(Pipeline) + 1)]
          BY <2>5, <3>1, GotoType DEF Disconnect, Stages
        <4> QED
          BY <2>5, <3>1, <4>1 DEF Disconnect, TypeOK, ghosts
      <3>2. CASE pc[c] # "idle"
        BY <2>5, <3>2, DropType DEF Disconnect
      <3> QED
        BY <3>1, <3>2
    <2>6. CASE UpstreamFails(c)
      BY <2>6, AnswerType DEF UpstreamFails, Outcomes, Stages
    <2>7. ASSUME NEW b \in Bodies, UpstreamAnswers(c, b) PROVE TypeOK'
      <3>1. pc' \in [Conns -> Stages] /\ at' \in [Conns -> 0..(Len(Pipeline) + 1)]
        BY <2>7, GotoType DEF UpstreamAnswers, Stages, Hooks
      <3>2. b \in BodyKinds /\ Lossy(b) \in BodyKinds
        BY InputsAssumption DEF Lossy, BodyKinds
      <3>3. [ctx[c] EXCEPT !.res_status = "ok", !.res_header = Nil, !.res_body = Lossy(b)]
              \in Contexts
        BY <3>2, AnswerContext DEF TypeOK
      <3> QED
        BY <2>7, <3>1, <3>2, <3>3 DEF UpstreamAnswers, TypeOK, ghosts
    <2>8. ASSUME NEW s \in Statuses, CtxReject(c, s) PROVE TypeOK'
      <3>1. ctx' = [ctx EXCEPT ![c] = [ctx[c] EXCEPT !.rejected = s]]
        BY <2>8 DEF CtxReject
      <3>2. ctx' \in [Conns -> Contexts]
        BY <3>1, ContextUpdates, InputsAssumption DEF TypeOK
      <3>3. did' \in [Conns -> SUBSET Deeds]
        BY <2>8, NoteType DEF CtxReject
      <3> QED
        BY <2>8, <3>2, <3>3 DEF CtxReject, TypeOK
    <2>9. ASSUME NEW s \in Statuses, CtxSetResStatus(c, s) PROVE TypeOK'
      <3>1. ctx' = [ctx EXCEPT ![c] = [ctx[c] EXCEPT !.res_status = s]]
        BY <2>9 DEF CtxSetResStatus
      <3>2. ctx' \in [Conns -> Contexts]
        BY <3>1, ContextUpdates, InputsAssumption DEF TypeOK
      <3> QED
        BY <2>9, <3>2 DEF CtxSetResStatus, TypeOK, ghosts
    <2>10. ASSUME NEW n \in Names, CtxUpstream(c, n) PROVE TypeOK'
      <3>1. ctx' = [ctx EXCEPT ![c] = [ctx[c] EXCEPT !.upstream = n]]
        BY <2>10 DEF CtxUpstream
      <3>2. ctx' \in [Conns -> Contexts]
        BY <3>1, ContextUpdates, InputsAssumption DEF TypeOK
      <3>3. did' \in [Conns -> SUBSET Deeds]
        BY <2>10, NoteType DEF CtxUpstream
      <3> QED
        BY <2>10, <3>2, <3>3 DEF CtxUpstream, TypeOK
    <2>11. ASSUME NEW v \in Values, CtxSetReqHeader(c, v) PROVE TypeOK'
      <3>1. ctx' = [ctx EXCEPT ![c] = [ctx[c] EXCEPT !.req_header = v]]
        BY <2>11 DEF CtxSetReqHeader
      <3>2. ctx' \in [Conns -> Contexts]
        BY <3>1, ContextUpdates, InputsAssumption DEF TypeOK
      <3> QED
        BY <2>11, <3>2 DEF CtxSetReqHeader, TypeOK, ghosts
    <2>12. ASSUME NEW v \in Values, CtxSetResHeader(c, v) PROVE TypeOK'
      <3>1. ctx' = [ctx EXCEPT ![c] = [ctx[c] EXCEPT !.res_header = v]]
        BY <2>12 DEF CtxSetResHeader
      <3>2. ctx' \in [Conns -> Contexts]
        BY <3>1, ContextUpdates, InputsAssumption DEF TypeOK
      <3>3. did' \in [Conns -> SUBSET Deeds]
        BY <2>12, NoteType DEF CtxSetResHeader
      <3> QED
        BY <2>12, <3>2, <3>3 DEF CtxSetResHeader, TypeOK
    <2> QED
      BY <1>1, <2>1, <2>2, <2>3, <2>4, <2>5, <2>6, <2>7, <2>8, <2>9, <2>10, <2>11, <2>12
         DEF Environment
  <1>2. ASSUME NEW c \in Conns, Advance(c) PROVE TypeOK'
    <2>1. CASE Enter(c)
      BY <1>0, <2>1 DEF Enter, TypeOK
    <2>2. CASE SkipMissing(c)
      BY <2>2, LoadedType DEF SkipMissing, TypeOK, ghosts
    <2>3. CASE LoadFails(c)
      BY <2>3, LoadedType DEF LoadFails, TypeOK, ghosts
    <2>4. CASE NoHook(c)
      BY <2>4, LoadedType DEF NoHook, TypeOK, ghosts
    <2>5. CASE CallHook(c)
      <3>1. at[c] \in Positions /\ Loaded(c) \in [Hooks -> Plugins \cup {Nil}]
        BY <2>5, LoadedType DEF CallHook
      <3>2. ran' \in [Conns -> SUBSET Positions]
        BY <2>5, <3>1 DEF CallHook, TypeOK
      <3> QED
        BY <2>5, <3>1, <3>2 DEF CallHook, TypeOK
    <2>6. ASSUME NEW n \in Names \cup {Nil}, ReturnHook(c, n) PROVE TypeOK'
      <3>1. at' \in [Conns -> 0..(Len(Pipeline) + 1)]
        BY <1>0, <2>6 DEF ReturnHook, TypeOK, HookCalls, Positions
      <3>2. name' \in [Conns -> Names \cup {"default", Nil}]
        BY <2>6 DEF ReturnHook, TypeOK
      <3> QED
        BY <2>6, <3>1, <3>2 DEF ReturnHook, TypeOK, ghosts
    <2>7. CASE Admit(c)
      <3>1. pc' \in [Conns -> Stages] /\ at' \in [Conns -> 0..(Len(Pipeline) + 1)]
        BY <2>7, GotoType DEF Admit, Stages, Hooks
      <3> QED
        BY <2>7, <3>1 DEF Admit, TypeOK, ghosts
    <2>8. CASE Reject(c)
      <3>1. pc' \in [Conns -> Stages] /\ at' \in [Conns -> 0..(Len(Pipeline) + 1)]
        BY <2>8, GotoType DEF Reject, Stages, Hooks
      <3>2. count' \in [Counters -> Nat]
        BY <2>8, TallyType DEF Reject
      <3>3. reply' \in [Conns -> Replies]
        BY <2>8, StatusType DEF Reject, Outcomes
      <3> QED
        BY <2>8, <3>1, <3>2, <3>3 DEF Reject, TypeOK, ghosts
    <2>9. CASE RejectPanics(c)
      <3>1. pc' \in [Conns -> Stages] /\ at' \in [Conns -> 0..(Len(Pipeline) + 1)]
        BY <2>9, GotoType DEF RejectPanics, Stages, Hooks
      <3>2. count' \in [Counters -> Nat]
        BY <2>9, TallyType DEF RejectPanics
      <3> QED
        BY <2>9, <3>1, <3>2 DEF RejectPanics, TypeOK, ghosts
    <2>10. CASE Route(c)
      <3>1. pc' \in [Conns -> Stages] /\ at' \in [Conns -> 0..(Len(Pipeline) + 1)]
        BY <2>10, GotoType DEF Route, Stages, Hooks
      <3>2. name' \in [Conns -> Names \cup {"default", Nil}]
        BY <2>10 DEF Route, TypeOK, Contexts
      <3> QED
        BY <2>10, <3>1, <3>2 DEF Route, TypeOK, ghosts
    <2>11. CASE Transformed(c)
      <3>1. pc' \in [Conns -> Stages] /\ at' \in [Conns -> 0..(Len(Pipeline) + 1)]
        BY <2>11, GotoType DEF Transformed, Stages, Hooks
      <3> QED
        BY <2>11, <3>1 DEF Transformed, TypeOK, ghosts
    <2>12. CASE NoUpstream(c)
      BY <2>12, AnswerType DEF NoUpstream, Outcomes, Stages
    <2>13. CASE PickTarget(c)
      <3>1. pc' \in [Conns -> Stages] /\ at' \in [Conns -> 0..(Len(Pipeline) + 1)]
        BY <2>13, GotoType DEF PickTarget, Stages, Hooks
      <3> QED
        BY <2>13, <3>1 DEF PickTarget, TypeOK, ghosts
    <2>14. CASE Send(c)
      <3>1. pc' \in [Conns -> Stages] /\ at' \in [Conns -> 0..(Len(Pipeline) + 1)]
        BY <2>14, GotoType DEF Send, Stages, Hooks
      <3> QED
        BY <2>14, <3>1 DEF Send, TypeOK, ghosts
    <2>15. CASE SendFails(c)
      BY <2>15, AnswerType DEF SendFails, Outcomes, Stages
    <2>16. CASE Relay(c)
      <3>1. pc' \in [Conns -> Stages] /\ at' \in [Conns -> 0..(Len(Pipeline) + 1)]
        BY <2>16, GotoType DEF Relay, Stages, Hooks
      <3>2. count' \in [Counters -> Nat]
        BY <2>16, TallyType DEF Relay
      <3>3. [status |-> "relayed", header |-> ctx[c].res_header,
             body |-> IF ctx[c].res_body = "empty" THEN raw[c] ELSE ctx[c].res_body] \in Replies
        BY DEF TypeOK, Contexts, Replies, Outcomes
      <3> QED
        BY <2>16, <3>1, <3>2, <3>3 DEF Relay, TypeOK, ghosts
    <2>17. CASE RelayFails(c)
      BY <2>17, AnswerType DEF RelayFails, Outcomes, Stages
    <2> QED
      BY <1>2, <2>1, <2>2, <2>3, <2>4, <2>5, <2>6, <2>7, <2>8, <2>9, <2>10, <2>11, <2>12,
         <2>13, <2>14, <2>15, <2>16, <2>17 DEF Advance
  <1>3. ASSUME NEW v \in Versions, Reload(v) PROVE TypeOK'
    BY <1>3 DEF Reload, TypeOK, ghosts
  <1>4. CASE UNCHANGED vars
    BY <1>4 DEF vars, ghosts, TypeOK
  <1> QED
    BY <1>1, <1>2, <1>3, <1>4 DEF Next

LEMMA HookCallsStep == TypeOK /\ HookCalls /\ [Next]_vars => HookCalls'
  <1> SUFFICES ASSUME TypeOK, HookCalls, [Next]_vars PROVE HookCalls'
    OBVIOUS
  <1>1. ASSUME NEW c \in Conns, Environment(c) PROVE HookCalls'
    <2>1. CASE pc[c] \in {"closed", "idle", "collect", "await"} /\ calling' = calling
               /\ \E stage \in Stages : Goto(c, stage)
      BY <2>1 DEF Goto, HookCalls, TypeOK, Hooks
    <2>2. CASE UNCHANGED <<pc, at, calling>>
      BY <2>2 DEF HookCalls
    <2> QED
      BY <1>1, <2>1, <2>2 DEF Environment, Open, Receive, Collect, CollectFails, Disconnect,
         UpstreamFails, UpstreamAnswers, CtxReject, CtxSetResStatus, CtxUpstream, CtxSetReqHeader,
         CtxSetResHeader, Answer, Drop, Stages, Hooks
  <1>2. ASSUME NEW c \in Conns, Advance(c) PROVE HookCalls'
    <2>1. CASE ~calling[c] /\ UNCHANGED calling /\ \E stage \in Stages : Goto(c, stage)
      BY <2>1 DEF Goto, HookCalls, TypeOK
    <2>2. CASE ~calling[c] /\ UNCHANGED <<pc, calling>>
               /\ \E i : at' = [at EXCEPT ![c] = i]
      BY <2>2 DEF HookCalls, TypeOK
    <2>3. CASE CallHook(c)
      BY <2>3 DEF CallHook, Turn, HookCalls, TypeOK
    <2>4. ASSUME NEW n \in Names \cup {Nil}, ReturnHook(c, n) PROVE HookCalls'
      BY <2>4 DEF ReturnHook, HookCalls, TypeOK
    <2>5. CASE pc[c] \in {"pick", "forward"}
      <3>1. ~calling[c]
        BY <2>5 DEF HookCalls, Hooks
      <3> QED
        BY <1>2, <2>1, <2>5, <3>1
           DEF Advance, Enter, SkipMissing, LoadFails, NoHook, CallHook, Turn, ReturnHook, Admit,
               Reject, RejectPanics, Route, Transformed, Relay, RelayFails, Ended,
               NoUpstream, PickTarget, Send, SendFails, Answer, Stages, Hooks
    <2>6. CASE pc[c] \notin {"pick", "forward"}
      <3>1. CASE Enter(c)
        BY <3>1, <2>2 DEF Enter, HookCalls, Positions
      <3>2. CASE SkipMissing(c) \/ LoadFails(c) \/ NoHook(c)
        BY <3>2, <2>2 DEF SkipMissing, LoadFails, NoHook, Turn
      <3>3. CASE Admit(c) \/ Reject(c) \/ RejectPanics(c) \/ Route(c) \/ Transformed(c)
        BY <3>3, <2>1 DEF Admit, Reject, RejectPanics, Route, Transformed, Ended, Stages, Hooks
      <3>4. CASE Relay(c) \/ RelayFails(c)
        BY <3>4, <2>1 DEF Relay, RelayFails, Answer, Ended, Stages
      <3> QED
        BY <1>2, <2>3, <2>4, <2>6, <3>1, <3>2, <3>3, <3>4
           DEF Advance, NoUpstream, PickTarget, Send, SendFails
    <2> QED
      BY <2>5, <2>6
  <1>3. ASSUME NEW v \in Versions, Reload(v) PROVE HookCalls'
    BY <1>3 DEF Reload, HookCalls
  <1>4. CASE UNCHANGED vars
    BY <1>4 DEF vars, HookCalls
  <1> QED
    BY <1>1, <1>2, <1>3, <1>4 DEF Next

(* Every variable of the request pipeline keeps its type: in particular a  *)
(* hook run never leaves the pipeline, and a global is a plugin's or nil.  *)
THEOREM TypeCorrect == Spec => []TypeOK
  <1>1. Init => TypeOK /\ HookCalls
    BY TypeInit DEF Init, HookCalls
  <1>2. TypeOK /\ HookCalls /\ [Next]_vars => (TypeOK /\ HookCalls)'
    BY TypeStep, HookCallsStep
  <1> QED
    BY <1>1, <1>2, PTL DEF Spec

-----------------------------------------------------------------------------
(* No plugin is bypassed *)

(* The request of c has passed every guard of the version it met. *)
Cleared(c) == ran[c] = Guards(snap[c]) /\ <<"early", "reject">> \notin did[c]

(* The guards that an unrejected on_request run of c has reached. *)
Reached(c) == {i \in Guards(snap[c]) : i < at[c] \/ (i = at[c] /\ calling[c])}

(* What holds of one connection: a run works on the version it began with  *)
(* and has called the guards up to its position, unless one rejected and   *)
(* ended it; past the run they have all been called, and it stays so when  *)
(* the request is over.                                                    *)
GuardedConn(c) ==
    /\ pc[c] = "collect" => ran[c] = {} /\ did[c] = {}
    /\ pc[c] = "on_request" /\ at[c] = 0 => ran[c] = {}
    /\ pc[c] = "on_request" => (ctx[c].rejected = Nil <=> <<"early", "reject">> \notin did[c])
    /\ pc[c] = "on_request" /\ ctx[c].rejected # Nil => calling[c] \/ at[c] = Len(Pipeline) + 1
    /\ pc[c] = "on_request" /\ at[c] > 0 => snap[c] = srcs
    /\ pc[c] = "on_request" /\ at[c] > 0 /\ ctx[c].rejected = Nil => ran[c] = Reached(c)
    /\ pc[c] \in {"on_route", "on_transform", "pick", "forward", "await", "on_response"} => Cleared(c)
    /\ pc[c] \in {"collect", "on_request"} => ~sent[c]
    /\ sent[c] => Cleared(c)

GuardInv == \A c \in Conns : GuardedConn(c)

(* A step of one connection leaves the state of the others alone. *)
LEMMA OthersKeep ==
    ASSUME TypeOK, NEW c \in Conns, NEW d \in Conns, d # c, Environment(c) \/ Advance(c)
    PROVE  /\ srcs' = srcs /\ pc'[d] = pc[d] /\ at'[d] = at[d] /\ calling'[d] = calling[d]
           /\ ctx'[d] = ctx[d] /\ snap'[d] = snap[d] /\ ran'[d] = ran[d] /\ did'[d] = did[d]
           /\ sent'[d] = sent[d]
  <1>1. CASE Environment(c)
    BY <1>1 DEF Environment, Open, Receive, Collect, CollectFails, Disconnect, UpstreamFails,
       UpstreamAnswers, CtxReject, CtxSetResStatus, CtxUpstream, CtxSetReqHeader, CtxSetResHeader,
       Answer, Drop, Goto, Note, TypeOK, ghosts
  <1>2. CASE Advance(c)
    BY <1>2 DEF Advance, Enter, SkipMissing, LoadFails, NoHook, CallHook, ReturnHook, Admit,
       Reject, RejectPanics, Route, Transformed, NoUpstream, PickTarget, Send, SendFails, Relay,
       RelayFails, Answer, Goto, TypeOK, ghosts
  <1> QED
    BY <1>1, <1>2

(* A connection of which nothing changes stays guarded. *)
LEMMA GuardedFrame ==
    ASSUME NEW d \in Conns, GuardedConn(d),
           srcs' = srcs, pc'[d] = pc[d], at'[d] = at[d], calling'[d] = calling[d],
           ctx'[d] = ctx[d], snap'[d] = snap[d], ran'[d] = ran[d], did'[d] = did[d],
           sent'[d] = sent[d]
    PROVE  GuardedConn(d)'
  BY DEF GuardedConn, Cleared, Reached, Guards

(* A connection that leaves its request keeps what is known of it. *)
LEMMA GuardedLeaves ==
    ASSUME NEW c \in Conns, GuardedConn(c),
           pc'[c] \in {"idle", "closed"}, snap'[c] = snap[c], ran'[c] = ran[c],
           did'[c] = did[c], sent'[c] = sent[c]
    PROVE  GuardedConn(c)'
  BY DEF GuardedConn, Cleared, Guards

(* A request that has passed the guards goes from one stage to the next. *)
LEMMA GuardedPasses ==
    ASSUME NEW c \in Conns, GuardedConn(c), Cleared(c),
           pc'[c] \in {"on_route", "on_transform", "pick", "forward", "await", "on_response"},
           snap'[c] = snap[c], ran'[c] = ran[c], <<"early", "reject">> \notin did'[c]
    PROVE  GuardedConn(c)'
  BY DEF GuardedConn, Cleared, Guards

(* What client and upstream do, and what a running hook does to ctx. *)
LEMMA GuardedEnvironment ==
    ASSUME TypeOK, HookCalls, NEW c \in Conns, GuardedConn(c), Environment(c)
    PROVE  GuardedConn(c)'
  <1>1. CASE Open(c) \/ CollectFails(c) \/ Disconnect(c) \/ UpstreamFails(c)
    BY <1>1, GuardedLeaves
       DEF Open, CollectFails, Disconnect, UpstreamFails, Answer, Drop, Goto, TypeOK, ghosts
  <1>2. CASE Receive(c)
    BY <1>2 DEF Receive, Goto, TypeOK, GuardedConn
  <1>3. CASE Collect(c)
    BY <1>3 DEF Collect, Goto, TypeOK, NewCtx, GuardedConn, ghosts
  <1>4. ASSUME NEW b \in Bodies, UpstreamAnswers(c, b) PROVE GuardedConn(c)'
    <2>1. Cleared(c)
      BY <1>4 DEF UpstreamAnswers, GuardedConn
    <2> QED
      BY <1>4, <2>1, GuardedPasses DEF UpstreamAnswers, Goto, TypeOK, Cleared, ghosts
  <1>5. ASSUME calling[c], UNCHANGED <<srcs, pc, at, calling, snap, ran, sent>>,
               NEW op \in {"reject", "upstream", "set_res_header"}, Note(c, op),
               op = "reject" => ctx'[c].rejected # Nil,
               op # "reject" => ctx'[c].rejected = ctx[c].rejected
        PROVE  GuardedConn(c)'
    <2>1. pc[c] \in Hooks
      BY <1>5 DEF HookCalls
    <2>2. CASE pc[c] = "on_request"
      <3>1. did'[c] = did[c] \cup {<<"early", op>>}
        BY <1>5, <2>2 DEF Note, TypeOK
      <3>2. <<"early", "reject">> \in did'[c] <=> op = "reject" \/ <<"early", "reject">> \in did[c]
        BY <3>1
      <3> QED
        BY <1>5, <2>2, <3>2 DEF GuardedConn, Reached, Guards
    <2>3. CASE pc[c] # "on_request"
      <3>1. did'[c] = did[c] \cup {<<"late", op>>}
        BY <1>5, <2>3 DEF Note, TypeOK
      <3>2. <<"early", "reject">> \in did'[c] <=> <<"early", "reject">> \in did[c]
        BY <3>1
      <3>3. Cleared(c)
        BY <2>1, <2>3 DEF GuardedConn, Hooks
      <3> QED
        BY <1>5, <2>1, <2>3, <3>2, <3>3, GuardedPasses DEF Cleared, Hooks
    <2> QED
      BY <2>2, <2>3
  <1>6. ASSUME NEW s \in Statuses, CtxReject(c, s) PROVE GuardedConn(c)'
    <2>1. ctx'[c].rejected # Nil
      BY <1>6, InputsAssumption, NilAssumption DEF CtxReject, TypeOK, Contexts
    <2> QED
      BY <1>5, <1>6, <2>1 DEF CtxReject
  <1>7. ASSUME NEW n \in Names, CtxUpstream(c, n) PROVE GuardedConn(c)'
    <2>1. ctx'[c].rejected = ctx[c].rejected
      BY <1>7 DEF CtxUpstream, TypeOK, Contexts
    <2> QED
      BY <1>5, <1>7, <2>1 DEF CtxUpstream
  <1>8. ASSUME NEW v \in Values, CtxSetResHeader(c, v) PROVE GuardedConn(c)'
    <2>1. ctx'[c].rejected = ctx[c].rejected
      BY <1>8 DEF CtxSetResHeader, TypeOK, Contexts
    <2> QED
      BY <1>5, <1>8, <2>1 DEF CtxSetResHeader
  <1>9. ASSUME UNCHANGED <<srcs, pc, at, calling, snap, ran, did, sent>>,
               ctx'[c].rejected = ctx[c].rejected
        PROVE  GuardedConn(c)'
    BY <1>9 DEF GuardedConn, Cleared, Reached, Guards
  <1>10. ASSUME NEW v \in Values, CtxSetReqHeader(c, v) PROVE GuardedConn(c)'
    <2>1. ctx'[c].rejected = ctx[c].rejected
      BY <1>10 DEF CtxSetReqHeader, TypeOK, Contexts
    <2> QED
      BY <1>9, <1>10, <2>1 DEF CtxSetReqHeader, ghosts
  <1>11. ASSUME NEW s \in Statuses, CtxSetResStatus(c, s) PROVE GuardedConn(c)'
    <2>1. ctx'[c].rejected = ctx[c].rejected
      BY <1>11 DEF CtxSetResStatus, TypeOK, Contexts
    <2> QED
      BY <1>9, <1>11, <2>1 DEF CtxSetResStatus, ghosts
  <1> QED
    BY <1>1, <1>2, <1>3, <1>4, <1>6, <1>7, <1>8, <1>10, <1>11 DEF Environment

(* A turn of a hook run other than on_request, or the end of one: the      *)
(* request has passed the guards and nothing about that changes.           *)
LEMMA GuardedTurn ==
    ASSUME TypeOK, NEW c \in Conns, GuardedConn(c), pc[c] \in Hooks \ {"on_request"},
           pc' = pc, UNCHANGED <<snap, did, sent>>, ran'[c] = ran[c]
    PROVE  GuardedConn(c)'
  <1>1. Cleared(c)
    BY DEF GuardedConn, Hooks
  <1> QED
    BY <1>1, GuardedPasses DEF Cleared, Hooks

(* A turn of the on_request run that calls nothing and goes on to the next *)
(* position: the plugin there is no guard.                                 *)
LEMMA GuardedSkip ==
    ASSUME TypeOK, NEW c \in Conns, GuardedConn(c), Turn(c), pc[c] = "on_request",
           at[c] \notin Guards(srcs), at' = [at EXCEPT ![c] = @ + 1],
           UNCHANGED <<srcs, pc, calling, ctx, ghosts>>
    PROVE  GuardedConn(c)'
  <1>1. at[c] \in Positions /\ at[c] \in Nat /\ at'[c] = at[c] + 1
    BY PipelineAssumption DEF Turn, TypeOK, Positions
  <1>2. Guards(snap[c]) \subseteq Nat
    BY PipelineAssumption DEF Guards, Positions
  <1>3. snap[c] = srcs
    BY <1>1 DEF GuardedConn, Positions
  <1>4. Reached(c)' = Reached(c)
    BY <1>1, <1>2, <1>3 DEF Reached, Guards, Turn, ghosts
  <1> QED
    BY <1>1, <1>3, <1>4 DEF GuardedConn, Positions, ghosts

(* What the thread of the connection does. *)
LEMMA GuardedAdvance ==
    ASSUME TypeOK, HookCalls, NEW c \in Conns, GuardedConn(c), Advance(c)
    PROVE  GuardedConn(c)'
  <1>1. CASE Enter(c)
    <2>1. CASE pc[c] = "on_request"
      <3>1. snap'[c] = srcs /\ at'[c] = 1 /\ ~calling[c] /\ ran[c] = {}
        BY <1>1, <2>1 DEF Enter, TypeOK, HookCalls, Positions, GuardedConn
      <3>2. ctx[c].rejected = Nil
        BY <1>1, <2>1, <3>1, PipelineAssumption DEF Enter, GuardedConn
      <3>3. Reached(c)' = {}
        BY <1>1, <3>1, PipelineAssumption DEF Enter, Reached, Guards, Positions
      <3> QED
        BY <1>1, <2>1, <3>1, <3>2, <3>3 DEF Enter, GuardedConn
    <2>2. CASE pc[c] # "on_request"
      BY <1>1, <2>2, GuardedTurn DEF Enter
    <2> QED
      BY <2>1, <2>2
  <1>2. ASSUME Turn(c), at' = [at EXCEPT ![c] = @ + 1], UNCHANGED <<srcs, pc, calling, ctx, ghosts>>,
               pc[c] = "on_request" => at[c] \notin Guards(srcs)
        PROVE  GuardedConn(c)'
    <2>1. CASE pc[c] = "on_request"
      BY <1>2, <2>1, GuardedSkip
    <2>2. CASE pc[c] # "on_request"
      BY <1>2, <2>2, GuardedTurn DEF Turn, ghosts
    <2> QED
      BY <2>1, <2>2
  <1>3. CASE SkipMissing(c) \/ LoadFails(c)
    BY <1>2, <1>3 DEF SkipMissing, LoadFails, Guards, Plugin
  <1>4. CASE NoHook(c)
    <2>1. pc[c] = "on_request" => "on_request" \notin srcs[Plugin(c)].defs
      BY <1>4, LoadedType, NilAssumption DEF NoHook, Loaded, Hooks
    <2> QED
      BY <1>2, <1>4, <2>1 DEF NoHook, Guards, Plugin
  <1>5. CASE CallHook(c)
    <2>1. CASE pc[c] = "on_request"
      <3>1. /\ at[c] \in Positions /\ at[c] \in Nat /\ at[c] > 0
            /\ calling'[c] = TRUE /\ ~calling[c]
        BY <1>5, PipelineAssumption DEF CallHook, Turn, TypeOK, Positions
      <3>2. snap[c] = srcs /\ ctx[c].rejected = Nil
        BY <2>1, <3>1, PipelineAssumption DEF GuardedConn, Positions
      <3>3. ran[c] = Reached(c)
        BY <2>1, <3>1, <3>2 DEF GuardedConn
      <3>4. at[c] \in Guards(srcs) <=> "on_request" \in srcs[Plugin(c)].defs
        BY <1>5, <3>1 DEF CallHook, Guards, Plugin
      <3>5. ran'[c] = IF at[c] \in Guards(srcs) THEN ran[c] \cup {at[c]} ELSE ran[c]
        BY <1>5, <2>1, <3>4 DEF CallHook, TypeOK
      <3>6. Guards(snap[c])' = Guards(snap[c])
        BY <1>5 DEF CallHook, Guards
      <3>7. Guards(snap[c]) \subseteq Nat
        BY PipelineAssumption DEF Guards, Positions
      <3>8. Reached(c)' = {i \in Guards(snap[c]) : i < at[c] \/ i = at[c]}
        BY <1>5, <3>1, <3>6 DEF CallHook, Reached
      <3>9. Reached(c) = {i \in Guards(snap[c]) : i < at[c]}
        BY <3>1 DEF Reached
      <3>10. ran'[c] = Reached(c)'
        BY <3>2, <3>3, <3>5, <3>7, <3>8, <3>9
      <3> QED
        BY <1>5, <2>1, <3>1, <3>2, <3>10 DEF CallHook, GuardedConn
    <2>2. CASE pc[c] # "on_request"
      BY <1>5, <2>2, GuardedTurn DEF CallHook, Turn
    <2> QED
      BY <2>1, <2>2
  <1>6. ASSUME NEW n \in Names \cup {Nil}, ReturnHook(c, n) PROVE GuardedConn(c)'
    <2>1. calling[c] /\ pc[c] \in Hooks /\ at[c] \in Positions
      BY <1>6 DEF ReturnHook, HookCalls
    <2>2. CASE pc[c] = "on_request"
      <3>1. /\ n = Nil /\ calling'[c] = FALSE /\ at[c] \in Nat /\ at[c] > 0
            /\ at'[c] = IF ctx[c].rejected # Nil THEN Len(Pipeline) + 1 ELSE at[c] + 1
        BY <1>6, <2>1, <2>2, PipelineAssumption DEF ReturnHook, TypeOK, Positions
      <3>2. at'[c] > 0
        BY <3>1, PipelineAssumption
      <3>3. Guards(snap[c])' = Guards(snap[c]) /\ Guards(snap[c]) \subseteq Nat
        BY <1>6, PipelineAssumption DEF ReturnHook, Guards, Positions, ghosts
      <3>4. ASSUME ctx[c].rejected = Nil PROVE Reached(c)' = Reached(c)
        <4>1. Reached(c)' = {i \in Guards(snap[c]) : i < at[c] + 1}
          BY <3>1, <3>3, <3>4 DEF Reached
        <4>2. Reached(c) = {i \in Guards(snap[c]) : i < at[c] \/ i = at[c]}
          BY <2>1 DEF Reached
        <4> QED
          BY <3>1, <3>3, <4>1, <4>2
      <3> QED
        BY <1>6, <2>1, <2>2, <3>1, <3>2, <3>4 DEF ReturnHook, GuardedConn, ghosts
    <2>3. CASE pc[c] # "on_request"
      BY <1>6, <2>1, <2>3, GuardedTurn DEF ReturnHook, ghosts
    <2> QED
      BY <2>2, <2>3
  <1>7. CASE Admit(c)
    <2>1. Reached(c) = Guards(snap[c])
      BY <1>7, PipelineAssumption DEF Admit, Ended, Reached, Guards, Positions
    <2>2. Cleared(c)
      BY <1>7, <2>1, PipelineAssumption DEF Admit, Ended, GuardedConn, Cleared
    <2> QED
      BY <1>7, <2>2, GuardedPasses DEF Admit, Goto, TypeOK, Cleared, ghosts
  <1>8. CASE Route(c) \/ Transformed(c) \/ PickTarget(c)
    <2>1. Cleared(c)
      BY <1>8 DEF Route, Transformed, PickTarget, Ended, GuardedConn
    <2> QED
      BY <1>8, <2>1, GuardedPasses
         DEF Route, Transformed, PickTarget, Goto, TypeOK, Cleared, ghosts
  <1>9. CASE Send(c)
    <2>1. Cleared(c)
      BY <1>9 DEF Send, GuardedConn
    <2> QED
      BY <1>9, <2>1, GuardedPasses DEF Send, Goto, TypeOK, Cleared
  <1>10. CASE Reject(c) \/ RejectPanics(c) \/ NoUpstream(c) \/ SendFails(c) \/ Relay(c)
              \/ RelayFails(c)
    BY <1>10, GuardedLeaves
       DEF Reject, RejectPanics, NoUpstream, SendFails, Relay, RelayFails, Answer, Goto, TypeOK,
           ghosts
  <1> QED
    BY <1>1, <1>3, <1>4, <1>5, <1>6, <1>7, <1>8, <1>9, <1>10 DEF Advance

LEMMA GuardStep == TypeOK /\ HookCalls /\ GuardInv /\ [Next]_vars => GuardInv'
  <1> SUFFICES ASSUME TypeOK, HookCalls, GuardInv, [Next]_vars, NEW d \in Conns
               PROVE  GuardedConn(d)'
    BY DEF GuardInv
  <1>0. GuardedConn(d)
    BY DEF GuardInv
  <1>1. ASSUME NEW c \in Conns, Environment(c) \/ Advance(c) PROVE GuardedConn(d)'
    <2>1. CASE d = c
      BY <1>0, <1>1, <2>1, GuardedEnvironment, GuardedAdvance
    <2>2. CASE d # c
      BY <1>0, <1>1, <2>2, OthersKeep, GuardedFrame
    <2> QED
      BY <2>1, <2>2
  <1>2. ASSUME NEW v \in Versions, Reload(v) PROVE GuardedConn(d)'
    <2>1. ~(pc[d] = "on_request" /\ at[d] > 0)
      BY <1>2 DEF Reload, Holding, Hooks
    <2> QED
      BY <1>0, <1>2, <2>1 DEF Reload, GuardedConn, Cleared, Guards, ghosts
  <1>3. CASE UNCHANGED vars
    BY <1>0, <1>3, GuardedFrame DEF vars, ghosts
  <1> QED
    BY <1>1, <1>2, <1>3 DEF Next

LEMMA GuardInit == Init => GuardInv
  BY DEF Init, GuardInv, GuardedConn

(* The inductive invariant of the pipeline holds throughout. *)
LEMMA PipelineInvariant == Spec => [](TypeOK /\ HookCalls /\ GuardInv)
  <1>1. Init => TypeOK /\ HookCalls /\ GuardInv
    BY TypeInit, GuardInit DEF Init, HookCalls
  <1>2. TypeOK /\ HookCalls /\ GuardInv /\ [Next]_vars => (TypeOK /\ HookCalls /\ GuardInv)'
    BY TypeStep, HookCallsStep, GuardStep
  <1> QED
    BY <1>1, <1>2, PTL DEF Spec

(* For every pipeline, every set of connections and every history of       *)
(* reloads, a request reaches an upstream only through the own on_request  *)
(* of every plugin of one version of the sources that defines one and      *)
(* loads, and only if none of them rejected it.                            *)
THEOREM NoBypass == Spec => []NoPluginBypassed
  <1>1. GuardInv => NoPluginBypassed
    BY DEF GuardInv, GuardedConn, Cleared, NoPluginBypassed
  <1> QED
    BY <1>1, PipelineInvariant, PTL

(* No plugin's on_request is called once an earlier one has rejected.      *)
THEOREM RejectStops == Spec => RejectStopsPipeline
  <1>1. TypeOK /\ HookCalls /\ GuardInv /\ [Next]_vars =>
            [\A c \in Conns : pc[c] = "on_request" /\ ~calling[c] /\ calling'[c]
                                  => <<"early", "reject">> \notin did[c]]_vars
    <2> SUFFICES ASSUME TypeOK, HookCalls, GuardInv, Next, NEW c \in Conns,
                        pc[c] = "on_request", ~calling[c], calling'[c]
                 PROVE  <<"early", "reject">> \notin did[c]
      OBVIOUS
    <2>1. CASE CallHook(c)
      <3>1. at[c] \in Positions
        BY <2>1 DEF CallHook, Turn
      <3>2. ctx[c].rejected = Nil
        BY <3>1, PipelineAssumption DEF GuardInv, GuardedConn, Positions
      <3> QED
        BY <3>2 DEF GuardInv, GuardedConn
    <2>2. CASE ~CallHook(c)
      <3>1. PICK d \in Conns : Environment(d) \/ Advance(d)
        BY DEF Next, Reload
      <3>2. d = c
        BY <3>1, OthersKeep
      <3>3. calling'[c] = calling[c] \/ calling'[c] = FALSE
        BY <2>2, <3>1, <3>2
           DEF Environment, Open, Receive, Collect, CollectFails, Disconnect, UpstreamFails,
               UpstreamAnswers, CtxReject, CtxSetResStatus, CtxUpstream, CtxSetReqHeader,
               CtxSetResHeader, Answer, Drop, Advance, Enter, SkipMissing, LoadFails, NoHook,
               ReturnHook, Admit, Reject, RejectPanics, Route, Transformed, NoUpstream,
               PickTarget, Send, SendFails, Relay, RelayFails, TypeOK
      <3> QED
        BY <3>3
    <2> QED
      BY <2>1, <2>2
  <1> QED
    BY <1>1, PipelineInvariant, PTL DEF Spec, RejectStopsPipeline

-----------------------------------------------------------------------------
(* The metrics *)

(* A request comes in, ends or goes on: how many are under way then. *)
LEMMA InRequestCount ==
    ASSUME TypeOK, NEW c \in Conns, NEW stage \in Stages, pc' = [pc EXCEPT ![c] = stage]
    PROVE  /\ Cardinality(InRequest) \in Nat
           /\ c \notin InRequest /\ stage \notin {"closed", "idle"}
                => Cardinality(InRequest') = Cardinality(InRequest) + 1
           /\ c \in InRequest /\ stage \in {"closed", "idle"}
                => Cardinality(InRequest) = Cardinality(InRequest') + 1 /\ Cardinality(InRequest') \in Nat
           /\ (c \in InRequest <=> stage \notin {"closed", "idle"})
                => InRequest' = InRequest
  <1>1. IsFiniteSet(InRequest) /\ Cardinality(InRequest) \in Nat
    BY ConnsAssumption, FS_Subset, FS_CardinalityType DEF InRequest
  <1>2. ASSUME c \notin InRequest, stage \notin {"closed", "idle"}
        PROVE  Cardinality(InRequest') = Cardinality(InRequest) + 1
    <2>1. InRequest' = InRequest \cup {c}
      BY <1>2 DEF InRequest, TypeOK
    <2> QED
      BY <1>1, <1>2, <2>1, FS_AddElement
  <1>3. ASSUME c \in InRequest, stage \in {"closed", "idle"}
        PROVE  /\ Cardinality(InRequest) = Cardinality(InRequest') + 1
               /\ Cardinality(InRequest') \in Nat
    <2>1. InRequest' = InRequest \ {c}
      BY <1>3 DEF InRequest, TypeOK
    <2>2. IsFiniteSet(InRequest') /\ Cardinality(InRequest') = Cardinality(InRequest) - 1
      BY <1>1, <1>3, <2>1, FS_RemoveElement
    <2> QED
      BY <1>1, <2>2, FS_CardinalityType
  <1>4. ASSUME c \in InRequest <=> stage \notin {"closed", "idle"}
        PROVE  InRequest' = InRequest
    BY <1>4 DEF InRequest, TypeOK
  <1> QED
    BY <1>1, <1>2, <1>3, <1>4

(* A request that ends is tallied as ended and as one of the two ways to   *)
(* end.                                                                    *)
LEMMA BalanceEnds ==
    ASSUME TypeOK, RequestsBalance, NEW c \in Conns, pc[c] \notin {"closed", "idle"},
           NEW stage \in {"closed", "idle"}, Goto(c, stage),
           NEW way \in {"replied", "dropped"}, NEW keys,
           keys = {"durations", way} \/ keys = {"durations", way, "rejected"}, Tally(keys)
    PROVE  RequestsBalance'
  <1>1. /\ Cardinality(InRequest) \in Nat /\ Cardinality(InRequest') \in Nat
        /\ Cardinality(InRequest) = Cardinality(InRequest') + 1
    BY InRequestCount DEF Goto, InRequest, Stages
  <1>2. /\ count'["durations"] = count["durations"] + 1
        /\ count'["requests"] = count["requests"]
        /\ count'["replied"] = IF way = "replied" THEN count["replied"] + 1 ELSE count["replied"]
        /\ count'["dropped"] = IF way = "dropped" THEN count["dropped"] + 1 ELSE count["dropped"]
    BY DEF Tally, Counters
  <1>3. \A k \in Counters : count[k] \in Nat
    BY DEF TypeOK
  <1>4. /\ count["durations"] \in Nat /\ count["requests"] \in Nat
        /\ count["replied"] \in Nat /\ count["dropped"] \in Nat
    BY <1>3 DEF Counters
  <1> QED
    BY <1>1, <1>2, <1>4 DEF RequestsBalance

(* A step within a request, or outside of one, tallies nothing. *)
LEMMA BalanceKeeps ==
    ASSUME TypeOK, RequestsBalance, NEW c \in Conns, NEW stage \in Stages,
           Goto(c, stage), pc[c] \in {"closed", "idle"} <=> stage \in {"closed", "idle"},
           count' = count
    PROVE  RequestsBalance'
  <1>1. InRequest' = InRequest
    BY InRequestCount DEF Goto, InRequest
  <1> QED
    BY <1>1 DEF RequestsBalance

(* The requests that REQ_COUNTER counts by method are those under way,     *)
(* answered and dropped, and REQ_DURATION has exactly one observation for  *)
(* each that is over.                                                      *)
THEOREM MetricsBalance == Spec => []RequestsBalance
  <1>1. Init => RequestsBalance
    <2> SUFFICES ASSUME Init PROVE RequestsBalance
      OBVIOUS
    <2>1. InRequest = {}
      BY DEF Init, InRequest
    <2>2. Cardinality(InRequest) = 0
      BY <2>1, FS_EmptySet
    <2> QED
      BY <2>2 DEF Init, RequestsBalance, Counters
  <1>2. TypeOK /\ RequestsBalance /\ [Next]_vars => RequestsBalance'
    <2> SUFFICES ASSUME TypeOK, RequestsBalance, [Next]_vars PROVE RequestsBalance'
      OBVIOUS
    <2>1. ASSUME UNCHANGED <<pc, count>> PROVE RequestsBalance'
      BY <2>1 DEF RequestsBalance, InRequest
    <2>2. ASSUME NEW c \in Conns, Environment(c) PROVE RequestsBalance'
      <3>1. CASE Receive(c)
        <4>1. Cardinality(InRequest') = Cardinality(InRequest) + 1 /\ Cardinality(InRequest) \in Nat
          BY <3>1, InRequestCount DEF Receive, Goto, InRequest, Stages
        <4>2. /\ count'["requests"] = count["requests"] + 1
              /\ count'["durations"] = count["durations"]
              /\ count'["replied"] = count["replied"] /\ count'["dropped"] = count["dropped"]
          BY <3>1 DEF Receive, Tally, Counters
        <4>3. count["requests"] \in Nat /\ count["durations"] \in Nat
          BY DEF TypeOK, Counters
        <4> QED
          BY <4>1, <4>2, <4>3 DEF RequestsBalance
      <3>2. CASE Open(c) \/ Collect(c) \/ (pc[c] = "idle" /\ Disconnect(c))
        BY <3>2, BalanceKeeps DEF Open, Collect, Disconnect, Stages, Hooks
      <3>3. CASE CollectFails(c) \/ UpstreamFails(c)
        BY <3>3, BalanceEnds DEF CollectFails, UpstreamFails, Answer
      <3>4. CASE pc[c] # "idle" /\ Disconnect(c)
        BY <3>4, BalanceEnds DEF Disconnect, Drop
      <3>5. ASSUME NEW b \in Bodies, UpstreamAnswers(c, b) PROVE RequestsBalance'
        BY <3>5, BalanceKeeps DEF UpstreamAnswers, Stages, Hooks
      <3> QED
        BY <2>1, <2>2, <3>1, <3>2, <3>3, <3>4, <3>5
           DEF Environment, CtxReject, CtxSetResStatus, CtxUpstream, CtxSetReqHeader, CtxSetResHeader
    <2>3. ASSUME NEW c \in Conns, Advance(c) PROVE RequestsBalance'
      <3>1. CASE Admit(c) \/ Route(c) \/ Transformed(c) \/ PickTarget(c) \/ Send(c)
        BY <3>1, BalanceKeeps
           DEF Admit, Route, Transformed, PickTarget, Send, Ended, Stages, Hooks
      <3>2. CASE Reject(c)
        BY <3>2, BalanceEnds DEF Reject, Ended
      <3>3. CASE RejectPanics(c)
        BY <3>3, BalanceEnds DEF RejectPanics, Ended
      <3>4. CASE NoUpstream(c) \/ SendFails(c) \/ RelayFails(c)
        BY <3>4, BalanceEnds DEF NoUpstream, SendFails, RelayFails, Answer, Ended
      <3>5. CASE Relay(c)
        BY <3>5, BalanceEnds DEF Relay, Ended
      <3> QED
        BY <2>1, <2>3, <3>1, <3>2, <3>3, <3>4, <3>5
           DEF Advance, Enter, SkipMissing, LoadFails, NoHook, CallHook, ReturnHook
    <2>4. ASSUME NEW v \in Versions, Reload(v) PROVE RequestsBalance'
      BY <2>1, <2>4 DEF Reload
    <2>5. CASE UNCHANGED vars
      BY <2>1, <2>5 DEF vars
    <2> QED
      BY <2>2, <2>3, <2>4, <2>5 DEF Next
  <1> QED
    BY <1>1, <1>2, PipelineInvariant, PTL DEF Spec

-----------------------------------------------------------------------------
(* The context *)

(* What the context of c says was done in c's request. *)
Fresh(c) ==
    /\ ctx[c].rejected # Nil => \E w \in {"early", "late"} : <<w, "reject">> \in did[c]
    /\ ctx[c].upstream # Nil => \E w \in {"early", "late"} : <<w, "upstream">> \in did[c]

HasContext(c) == pc[c] \notin {"closed", "idle", "collect"}

(* A step of c that touches neither field and forgets nothing c did. *)
LEMMA FreshKeeps ==
    ASSUME TypeOK, NEW c \in Conns, HasContext(c)' => HasContext(c) /\ Fresh(c),
           ctx'[c].rejected = ctx[c].rejected, ctx'[c].upstream = ctx[c].upstream,
           did[c] \subseteq did'[c]
    PROVE  HasContext(c)' => Fresh(c)'
  BY DEF Fresh

(* Note records the call of a method. *)
LEMMA Noted ==
    ASSUME TypeOK, NEW c \in Conns, NEW op, Note(c, op)
    PROVE  did[c] \subseteq did'[c] /\ \E w \in {"early", "late"} : <<w, op>> \in did'[c]
  BY DEF Note, TypeOK

LEMMA FreshEnvironment ==
    ASSUME TypeOK, NEW c \in Conns, HasContext(c) => Fresh(c), Environment(c)
    PROVE  HasContext(c)' => Fresh(c)'
  <1>1. CASE Open(c) \/ Receive(c) \/ CollectFails(c) \/ Disconnect(c) \/ UpstreamFails(c)
    BY <1>1 DEF Open, Receive, CollectFails, Disconnect, UpstreamFails, Answer, Drop, Goto,
                HasContext, TypeOK
  <1>2. CASE Collect(c)
    BY <1>2 DEF Collect, NewCtx, Fresh, TypeOK
  <1>3. ASSUME NEW b \in Bodies, UpstreamAnswers(c, b) PROVE HasContext(c)' => Fresh(c)'
    <2>1. ctx'[c].rejected = ctx[c].rejected /\ ctx'[c].upstream = ctx[c].upstream /\ did' = did
      BY <1>3 DEF UpstreamAnswers, ghosts, TypeOK, Contexts
    <2> QED
      BY <1>3, <2>1, FreshKeeps DEF UpstreamAnswers, HasContext
  <1>4. ASSUME NEW s \in Statuses, CtxReject(c, s) PROVE HasContext(c)' => Fresh(c)'
    <2>1. ctx'[c].upstream = ctx[c].upstream
      BY <1>4 DEF CtxReject, TypeOK, Contexts
    <2>2. did[c] \subseteq did'[c] /\ \E w \in {"early", "late"} : <<w, "reject">> \in did'[c]
      BY <1>4, Noted DEF CtxReject
    <2> QED
      BY <1>4, <2>1, <2>2 DEF CtxReject, Fresh, HasContext
  <1>5. ASSUME NEW n \in Names, CtxUpstream(c, n) PROVE HasContext(c)' => Fresh(c)'
    <2>1. ctx'[c].rejected = ctx[c].rejected
      BY <1>5 DEF CtxUpstream, TypeOK, Contexts
    <2>2. did[c] \subseteq did'[c] /\ \E w \in {"early", "late"} : <<w, "upstream">> \in did'[c]
      BY <1>5, Noted DEF CtxUpstream
    <2> QED
      BY <1>5, <2>1, <2>2 DEF CtxUpstream, Fresh, HasContext
  <1>6. ASSUME NEW v \in Values \cup Statuses,
               CtxSetReqHeader(c, v) \/ CtxSetResHeader(c, v) \/ CtxSetResStatus(c, v)
        PROVE  HasContext(c)' => Fresh(c)'
    <2>1. ctx'[c].rejected = ctx[c].rejected /\ ctx'[c].upstream = ctx[c].upstream /\ pc' = pc
      BY <1>6 DEF CtxSetReqHeader, CtxSetResHeader, CtxSetResStatus, TypeOK, Contexts
    <2>2. did[c] \subseteq did'[c]
      BY <1>6, Noted DEF CtxSetReqHeader, CtxSetResHeader, CtxSetResStatus, ghosts
    <2> QED
      BY <2>1, <2>2, FreshKeeps DEF HasContext
  <1> QED
    BY <1>1, <1>2, <1>3, <1>4, <1>5, <1>6 DEF Environment

LEMMA FreshAdvance ==
    ASSUME TypeOK, HookCalls, NEW c \in Conns, HasContext(c) => Fresh(c), Advance(c)
    PROVE  HasContext(c)' => Fresh(c)'
  <1>1. ctx' = ctx /\ did' = did
    BY DEF Advance, Enter, SkipMissing, LoadFails, NoHook, CallHook, ReturnHook, Admit, Reject,
           RejectPanics, Route, Transformed, NoUpstream, PickTarget, Send, SendFails, Relay,
           RelayFails, Answer, ghosts
  <1>2. HasContext(c)
    BY DEF Advance, Enter, SkipMissing, LoadFails, NoHook, CallHook, ReturnHook, Admit, Reject,
           RejectPanics, Route, Transformed, NoUpstream, PickTarget, Send, SendFails, Relay,
           RelayFails, Answer, Turn, Ended, Hooks, HookCalls, HasContext
  <1> QED
    BY <1>1, <1>2, FreshKeeps

(* What a request finds in its context, and so what handle_request acts    *)
(* on, was put there by the hooks of this very request: nothing is left of *)
(* an earlier request of the connection or of another connection.          *)
THEOREM ContextIsFresh == Spec => []FreshContext
  <1> DEFINE Inv == \A c \in Conns : HasContext(c) => Fresh(c)
  <1>1. Init => Inv
    BY DEF Init, HasContext
  <1>2. TypeOK /\ HookCalls /\ Inv /\ [Next]_vars => Inv'
    <2> SUFFICES ASSUME TypeOK, HookCalls, Inv, [Next]_vars PROVE Inv'
      OBVIOUS
    <2>1. ASSUME NEW c \in Conns, Environment(c) \/ Advance(c) PROVE Inv'
      <3>1. HasContext(c)' => Fresh(c)'
        BY <2>1, FreshEnvironment, FreshAdvance
      <3>2. \A d \in Conns \ {c} : pc'[d] = pc[d] /\ ctx'[d] = ctx[d] /\ did'[d] = did[d]
        BY <2>1, OthersKeep
      <3> QED
        BY <3>1, <3>2 DEF HasContext, Fresh
    <2>2. ASSUME NEW v \in Versions, Reload(v) PROVE Inv'
      BY <2>2 DEF Reload, ghosts, HasContext, Fresh
    <2>3. CASE UNCHANGED vars
      BY <2>3 DEF vars, ghosts, HasContext, Fresh
    <2> QED
      BY <2>1, <2>2, <2>3 DEF Next
  <1>3. Inv => FreshContext
    BY DEF FreshContext, InRequest, HasContext, Fresh
  <1> QED
    BY <1>1, <1>2, <1>3, PipelineInvariant, PTL DEF Spec
=============================================================================
