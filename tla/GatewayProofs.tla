---------------------------- MODULE GatewayProofs ---------------------------
(***************************************************************************)
(* The request pipeline implements the gateway, for every number of        *)
(* connections, every pipeline and every set of versions of the sources.   *)
(***************************************************************************)
EXTENDS RequestPipelineProofs

(* A request that is not over has no answer yet. *)
Unanswered == \A c \in InRequest : reply[c].status = Nil

(* A step of one connection leaves the other connections' part of the      *)
(* gateway alone, and the policy.                                          *)
LEMMA OthersMap ==
    ASSUME TypeOK, NEW c \in Conns, NEW d \in Conns, d # c, Environment(c) \/ Advance(c)
    PROVE  StageOf(d)' = StageOf(d) /\ PassedBy(d)' = PassedBy(d) /\ reply'[d] = reply[d]
  <1>1. pc'[d] = pc[d] /\ ran'[d] = ran[d]
    BY OthersKeep
  <1>2. reply'[d] = reply[d]
    <2>1. CASE Environment(c)
      BY <2>1 DEF Environment, Open, Receive, Collect, CollectFails, Disconnect, UpstreamFails,
         UpstreamAnswers, CtxReject, CtxSetResStatus, CtxUpstream, CtxSetReqHeader,
         CtxSetResHeader, Answer, Drop, TypeOK
    <2>2. CASE Advance(c)
      BY <2>2 DEF Advance, Enter, SkipMissing, LoadFails, NoHook, CallHook, ReturnHook, Admit,
         Reject, RejectPanics, Route, Transformed, NoUpstream, PickTarget, Send, SendFails,
         Relay, RelayFails, Answer, TypeOK
    <2> QED
      BY <2>1, <2>2
  <1>3. StageOf(d)' = StageOf(d)
    BY <1>1 DEF StageOf
  <1> QED
    BY <1>1, <1>2, <1>3 DEF PassedBy

(* What a step of one connection is for the gateway: a change of that      *)
(* connection's entries.                                                   *)
LEMMA MappedStep ==
    ASSUME TypeOK, NEW c \in Conns, Environment(c) \/ Advance(c)
    PROVE  /\ Guards(srcs)' = Guards(srcs)
           /\ [d \in Conns |-> StageOf(d)]' = [[d \in Conns |-> StageOf(d)] EXCEPT ![c] = StageOf(c)']
           /\ [d \in Conns |-> PassedBy(d)]' = [[d \in Conns |-> PassedBy(d)] EXCEPT ![c] = PassedBy(c)']
           /\ [d \in Conns |-> reply[d].status]'
                = [[d \in Conns |-> reply[d].status] EXCEPT ![c] = reply'[c].status]
  <1>1. srcs' = srcs
    BY DEF Environment, Open, Receive, Collect, CollectFails, Disconnect, UpstreamFails,
         UpstreamAnswers, CtxReject, CtxSetResStatus, CtxUpstream, CtxSetReqHeader,
         CtxSetResHeader, Answer, Drop, Advance, Enter, SkipMissing, LoadFails, NoHook, CallHook,
         ReturnHook, Admit, Reject, RejectPanics, Route, Transformed, NoUpstream, PickTarget,
         Send, SendFails, Relay, RelayFails
  <1>2. \A d \in Conns : d # c =>
            StageOf(d)' = StageOf(d) /\ PassedBy(d)' = PassedBy(d) /\ reply'[d] = reply[d]
    BY OthersMap
  <1>3. Guards(srcs)' = Guards(srcs)
    BY <1>1 DEF Guards
  <1>4. [d \in Conns |-> StageOf(d)]' = [[d \in Conns |-> StageOf(d)] EXCEPT ![c] = StageOf(c)']
    BY <1>2
  <1>5. [d \in Conns |-> PassedBy(d)]' = [[d \in Conns |-> PassedBy(d)] EXCEPT ![c] = PassedBy(c)']
    BY <1>2
  <1>6. [d \in Conns |-> reply[d].status]'
            = [[d \in Conns |-> reply[d].status] EXCEPT ![c] = reply'[c].status]
    BY <1>2
  <1> QED
    BY <1>3, <1>4, <1>5, <1>6

(* The five kinds of step, each from what it does to the connection. *)
LEMMA StutterMaps ==
    ASSUME TypeOK, NEW c \in Conns, Environment(c) \/ Advance(c),
           StageOf(c)' = StageOf(c), PassedBy(c)' = PassedBy(c), reply'[c].status = reply[c].status
    PROVE  UNCHANGED G!gatewayVars
  BY MappedStep DEF G!gatewayVars

LEMMA ArriveMaps ==
    ASSUME TypeOK, NEW c \in Conns, Environment(c) \/ Advance(c),
           StageOf(c) = "none", StageOf(c)' = "held", reply'[c].status = Nil
    PROVE  G!Arrive(c)
  <1>1. PassedBy(c) = {} /\ PassedBy(c)' = {}
    BY DEF PassedBy
  <1> QED
    BY <1>1, MappedStep DEF G!Arrive

LEMMA ClearMaps ==
    ASSUME TypeOK, NEW c \in Conns, Environment(c) \/ Advance(c),
           StageOf(c) = "held", StageOf(c)' = "cleared", ran'[c] = Guards(srcs),
           reply'[c].status = reply[c].status
    PROVE  G!Clear(c)
  <1>1. PassedBy(c)' = Guards(srcs)
    BY DEF PassedBy
  <1> QED
    BY <1>1, MappedStep DEF G!Clear

LEMMA ForwardMaps ==
    ASSUME TypeOK, NEW c \in Conns, Environment(c) \/ Advance(c),
           StageOf(c) = "cleared", StageOf(c)' = "sent", ran'[c] = ran[c],
           reply'[c].status = reply[c].status
    PROVE  G!Forward(c)
  <1>1. PassedBy(c)' = PassedBy(c)
    BY DEF PassedBy
  <1> QED
    BY <1>1, MappedStep DEF G!Forward

LEMMA FinishMaps ==
    ASSUME TypeOK, NEW c \in Conns, Environment(c) \/ Advance(c),
           StageOf(c) # "none", StageOf(c)' = "none",
           reply'[c].status \in G!AnswersFrom(StageOf(c)) \cup {Nil}
    PROVE  \E a \in G!AnswersFrom(StageOf(c)) \cup {Nil} : G!Finish(c, a)
  <1>1. PassedBy(c)' = {}
    BY DEF PassedBy
  <1>2. PICK a \in G!AnswersFrom(StageOf(c)) \cup {Nil} : a = reply'[c].status
    OBVIOUS
  <1>3. G!Finish(c, a)
    BY <1>1, <1>2, MappedStep DEF G!Finish
  <1> QED
    BY <1>3

LEMMA UnansweredStep == TypeOK /\ Unanswered /\ [Next]_vars => Unanswered'
  <1> SUFFICES ASSUME TypeOK, Unanswered, [Next]_vars, NEW d \in Conns,
                      pc'[d] \notin {"closed", "idle"}
               PROVE  reply'[d].status = Nil
    BY DEF Unanswered, InRequest
  <1>1. ASSUME NEW c \in Conns, c # d, Environment(c) \/ Advance(c) PROVE reply'[d].status = Nil
    BY <1>1, OthersKeep, OthersMap DEF Unanswered, InRequest
  <1>2. CASE Receive(d)
    BY <1>2 DEF Receive, NoReply, TypeOK
  <1>3. CASE Environment(d) /\ ~Receive(d)
    BY <1>3 DEF Environment, Open, Collect, CollectFails, Disconnect, UpstreamFails,
         UpstreamAnswers, CtxReject, CtxSetResStatus, CtxUpstream, CtxSetReqHeader,
         CtxSetResHeader, Answer, Drop, Goto, TypeOK, Unanswered, InRequest
  <1>4. CASE Advance(d)
    BY <1>4 DEF Advance, Enter, SkipMissing, LoadFails, NoHook, CallHook, ReturnHook, Admit,
         Reject, RejectPanics, Route, Transformed, NoUpstream, PickTarget, Send, SendFails,
         Relay, RelayFails, Answer, Goto, Ended, Turn, Hooks, TypeOK, Unanswered, InRequest
  <1>5. CASE UNCHANGED srcs /\ UNCHANGED vars
    BY <1>5 DEF vars, Unanswered, InRequest
  <1>6. ASSUME NEW v \in Versions, Reload(v) PROVE reply'[d].status = Nil
    BY <1>6 DEF Reload, Unanswered, InRequest
  <1> QED
    BY <1>1, <1>2, <1>3, <1>4, <1>5, <1>6 DEF Next, vars

(* The steps of client, upstream and a running hook. *)
LEMMA EnvironmentMaps ==
    ASSUME TypeOK, HookCalls, Unanswered, NEW c \in Conns, Environment(c)
    PROVE  [G!Next]_(G!gatewayVars)
  <1>1. CASE Receive(c)
    <2>1. StageOf(c) = "none" /\ StageOf(c)' = "held" /\ reply'[c].status = Nil
      BY <1>1 DEF Receive, Goto, StageOf, NoReply, TypeOK
    <2> QED
      BY <2>1, ArriveMaps DEF G!Next
  <1>2. CASE Open(c) \/ Collect(c) \/ (\E b \in Bodies : UpstreamAnswers(c, b))
    <2>1. StageOf(c)' = StageOf(c) /\ ran'[c] = ran[c] /\ reply' = reply
      BY <1>2 DEF Open, Collect, UpstreamAnswers, Goto, StageOf, TypeOK, ghosts
    <2>2. PassedBy(c)' = PassedBy(c)
      BY <2>1 DEF PassedBy
    <2> QED
      BY <2>1, <2>2, StutterMaps
  <1>3. CASE \/ \E s \in Statuses : CtxReject(c, s) \/ CtxSetResStatus(c, s)
             \/ \E n \in Names : CtxUpstream(c, n)
             \/ \E v \in Values : CtxSetReqHeader(c, v) \/ CtxSetResHeader(c, v)
    <2>1. pc' = pc /\ ran' = ran /\ reply' = reply
      BY <1>3 DEF CtxReject, CtxSetResStatus, CtxUpstream, CtxSetReqHeader, CtxSetResHeader, ghosts
    <2>2. StageOf(c)' = StageOf(c)
      BY <2>1 DEF StageOf
    <2>3. PassedBy(c)' = PassedBy(c)
      BY <2>1, <2>2 DEF PassedBy
    <2> QED
      BY <2>1, <2>2, <2>3, StutterMaps
  <1>4. CASE CollectFails(c)
    <2>1. StageOf(c) = "held" /\ StageOf(c)' = "none" /\ reply'[c].status = "500"
      BY <1>4 DEF CollectFails, Answer, Goto, StageOf, TypeOK, Replies
    <2> QED
      BY <2>1, FinishMaps DEF G!Next, G!AnswersFrom
  <1>5. CASE UpstreamFails(c)
    <2>1. StageOf(c) = "sent" /\ StageOf(c)' = "none" /\ reply'[c].status = "502"
      BY <1>5 DEF UpstreamFails, Answer, Goto, StageOf, TypeOK, Replies
    <2> QED
      BY <2>1, FinishMaps DEF G!Next, G!AnswersFrom
  <1>6. CASE Disconnect(c)
    <2>1. CASE pc[c] = "idle"
      <3>1. StageOf(c)' = StageOf(c) /\ StageOf(c) = "none" /\ reply' = reply
        BY <1>6, <2>1 DEF Disconnect, Goto, StageOf, TypeOK
      <3>2. PassedBy(c)' = PassedBy(c)
        BY <3>1 DEF PassedBy
      <3> QED
        BY <3>1, <3>2, StutterMaps
    <2>2. CASE pc[c] # "idle"
      <3>1. StageOf(c) \in {"held", "sent"} /\ StageOf(c)' = "none" /\ reply' = reply
        BY <1>6, <2>2 DEF Disconnect, Drop, Goto, StageOf, TypeOK
      <3>2. reply[c].status = Nil
        BY <1>6, <2>2 DEF Disconnect, Unanswered, InRequest
      <3> QED
        BY <3>1, <3>2, FinishMaps DEF G!Next
    <2> QED
      BY <2>1, <2>2
  <1> QED
    BY <1>1, <1>2, <1>3, <1>4, <1>5, <1>6 DEF Environment

(* The steps of the connection's thread. *)
LEMMA AdvanceMaps ==
    ASSUME TypeOK, HookCalls, GuardInv, Unanswered, NEW c \in Conns, Advance(c)
    PROVE  [G!Next]_(G!gatewayVars)
  <1>1. CASE \/ Enter(c) \/ SkipMissing(c) \/ LoadFails(c) \/ NoHook(c) \/ CallHook(c)
             \/ \E n \in Names \cup {Nil} : ReturnHook(c, n)
    <2>1. pc' = pc /\ reply' = reply /\ (pc[c] = "on_request" \/ ran' = ran)
      BY <1>1 DEF Enter, SkipMissing, LoadFails, NoHook, CallHook, ReturnHook, ghosts
    <2>2. StageOf(c)' = StageOf(c)
      BY <2>1 DEF StageOf
    <2>3. PassedBy(c)' = PassedBy(c)
      BY <2>1, <2>2 DEF PassedBy, StageOf
    <2> QED
      BY <2>1, <2>2, <2>3, StutterMaps
  <1>2. CASE Admit(c)
    <2>1. StageOf(c) = "held" /\ StageOf(c)' = "cleared" /\ reply' = reply /\ ran' = ran
      BY <1>2 DEF Admit, Ended, Goto, StageOf, TypeOK, ghosts
    <2>2. snap[c] = srcs /\ ran[c] = Reached(c)
      BY <1>2, PipelineAssumption DEF Admit, Ended, GuardInv, GuardedConn
    <2>3. Reached(c) = Guards(snap[c])
      BY <1>2, PipelineAssumption DEF Admit, Ended, Reached, Guards, Positions
    <2> QED
      BY <2>1, <2>2, <2>3, ClearMaps DEF G!Next
  <1>3. CASE Send(c)
    <2>1. StageOf(c) = "cleared" /\ StageOf(c)' = "sent" /\ reply' = reply /\ ran' = ran
      BY <1>3 DEF Send, Goto, StageOf, TypeOK
    <2> QED
      BY <2>1, ForwardMaps DEF G!Next
  <1>4. CASE Route(c) \/ Transformed(c) \/ PickTarget(c)
    <2>1. StageOf(c)' = StageOf(c) /\ reply' = reply /\ ran' = ran
      BY <1>4 DEF Route, Transformed, PickTarget, Ended, Goto, StageOf, TypeOK, ghosts
    <2>2. PassedBy(c)' = PassedBy(c)
      BY <2>1 DEF PassedBy
    <2> QED
      BY <2>1, <2>2, StutterMaps
  <1>5. CASE Reject(c)
    <2>1. StageOf(c) = "held" /\ StageOf(c)' = "none" /\ reply'[c].status = "rejected"
      BY <1>5 DEF Reject, Ended, Goto, StageOf, TypeOK, Replies
    <2> QED
      BY <2>1, FinishMaps DEF G!Next, G!AnswersFrom
  <1>6. CASE RejectPanics(c)
    <2>1. StageOf(c) = "held" /\ StageOf(c)' = "none" /\ reply' = reply
      BY <1>6 DEF RejectPanics, Ended, Goto, StageOf, TypeOK
    <2>2. reply[c].status = Nil
      BY <1>6 DEF RejectPanics, Ended, Unanswered, InRequest
    <2> QED
      BY <2>1, <2>2, FinishMaps DEF G!Next
  <1>7. CASE NoUpstream(c) \/ SendFails(c)
    <2>1. StageOf(c) = "cleared" /\ StageOf(c)' = "none" /\ reply'[c].status \in {"503", "502"}
      BY <1>7 DEF NoUpstream, SendFails, Answer, Goto, StageOf, TypeOK, Replies
    <2> QED
      BY <2>1, FinishMaps DEF G!Next, G!AnswersFrom
  <1>8. CASE Relay(c) \/ RelayFails(c)
    <2>1. StageOf(c) = "sent" /\ StageOf(c)' = "none" /\ reply'[c].status \in {"relayed", "500"}
      BY <1>8 DEF Relay, RelayFails, Answer, Ended, Goto, StageOf, TypeOK, Replies
    <2> QED
      BY <2>1, FinishMaps DEF G!Next, G!AnswersFrom
  <1> QED
    BY <1>1, <1>2, <1>3, <1>4, <1>5, <1>6, <1>7, <1>8 DEF Advance

LEMMA NextMaps == TypeOK /\ HookCalls /\ GuardInv /\ Unanswered /\ [Next]_vars => [G!Next]_(G!gatewayVars)
  <1> SUFFICES ASSUME TypeOK, HookCalls, GuardInv, Unanswered, [Next]_vars
               PROVE  [G!Next]_(G!gatewayVars)
    OBVIOUS
  <1>1. ASSUME NEW c \in Conns, Environment(c) \/ Advance(c) PROVE [G!Next]_(G!gatewayVars)
    BY <1>1, EnvironmentMaps, AdvanceMaps
  <1>2. ASSUME NEW v \in Versions, Reload(v) PROVE [G!Next]_(G!gatewayVars)
    <2>1. Guards(srcs)' \in SUBSET Positions
      BY DEF Guards
    <2>2. \A c \in Conns : StageOf(c)' = StageOf(c)
      BY <1>2 DEF Reload, StageOf
    <2>3. \A c \in Conns : PassedBy(c)' = PassedBy(c)
      BY <1>2, <2>2 DEF Reload, PassedBy, ghosts
    <2>4. reply' = reply
      BY <1>2 DEF Reload
    <2> QED
      BY <2>1, <2>2, <2>3, <2>4 DEF G!Next, G!ChangePolicy
  <1>3. CASE UNCHANGED vars
    <2>1. srcs' = srcs /\ pc' = pc /\ ran' = ran /\ reply' = reply
      BY <1>3 DEF vars, ghosts
    <2>2. Guards(srcs)' = Guards(srcs)
      BY <2>1 DEF Guards
    <2>3. \A c \in Conns : StageOf(c)' = StageOf(c)
      BY <2>1 DEF StageOf
    <2>4. \A c \in Conns : PassedBy(c)' = PassedBy(c)
      BY <2>1, <2>3 DEF PassedBy
    <2> QED
      BY <2>1, <2>2, <2>3, <2>4 DEF G!gatewayVars
  <1> QED
    BY <1>1, <1>2, <1>3 DEF Next

LEMMA InitMaps == Init => G!Init
  <1> SUFFICES ASSUME Init PROVE G!Init
    OBVIOUS
  <1>1. Guards(srcs) \in SUBSET Positions
    BY DEF Guards
  <1>2. \A c \in Conns : StageOf(c) = "none" /\ reply[c].status = Nil
    BY DEF Init, StageOf, NoReply
  <1>3. \A c \in Conns : PassedBy(c) = {}
    BY <1>2 DEF PassedBy
  <1> QED
    BY <1>1, <1>2, <1>3 DEF G!Init

(* The request pipeline implements the gateway: whatever the pipeline, the *)
(* connections and the reloads, every hook run that admits a request acts  *)
(* as one step that applies exactly the on_request hooks in force at that  *)
(* step; only then is the request sent, and once; and it ends with an      *)
(* answer its stage allows.                                                *)
THEOREM Implements == Spec => ImplementsGateway
  <1>1. Init => Unanswered
    BY DEF Init, Unanswered, InRequest
  <1>2. Init => G!Init
    BY InitMaps
  <1> QED
    BY <1>1, <1>2, PipelineInvariant, UnansweredStep, NextMaps, PTL
       DEF Spec, ImplementsGateway, G!Spec
=============================================================================
