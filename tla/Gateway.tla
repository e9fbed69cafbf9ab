------------------------------ MODULE Gateway -------------------------------
(***************************************************************************)
(* What the proxy promises its clients, without hooks, locks and VMs: a    *)
(* request is held until it is cleared, in one step, by all the checks in  *)
(* force at that moment; only then is it forwarded, once at most; and      *)
(* the answers are the ones its stage allows.  RequestPipeline implements  *)
(* it (see ImplementsGateway there): the handler of handler.rs, whose      *)
(* checks are the on_request hooks of the plugins.                         *)
(***************************************************************************)
CONSTANTS
    Conns,    \* client connections
    Checks,   \* the checks there may be
    Nil       \* no answer

VARIABLES
    policy,   \* the checks in force
    stage,    \* stage[c]: how far c's request is
    passed,   \* passed[c]: the checks that cleared c's request
    answer    \* answer[c]: the last answer c got, or Nil

gatewayVars == <<policy, stage, passed, answer>>

(* handle_request holds a request while its hooks examine it, has cleared  *)
(* it until it is sent, and has sent it until it is answered.              *)
RequestStages == {"none", "held", "cleared", "sent"}

(* The answers of handle_request: error_response of a rejection, 503, 502, *)
(* the 500 of the service and the relayed response.                        *)
AnswersFrom(s) ==
    CASE s = "held"    -> {"rejected", "500"}
      [] s = "cleared" -> {"503", "502"}
      [] s = "sent"    -> {"relayed", "502", "500"}
      [] OTHER         -> {}

Init ==
    /\ policy \in SUBSET Checks
    /\ stage = [c \in Conns |-> "none"]
    /\ passed = [c \in Conns |-> {}]
    /\ answer = [c \in Conns |-> Nil]

ChangePolicy ==
    /\ policy' \in SUBSET Checks
    /\ UNCHANGED <<stage, passed, answer>>

Arrive(c) ==
    /\ stage[c] = "none"
    /\ stage' = [stage EXCEPT ![c] = "held"]
    /\ answer' = [answer EXCEPT ![c] = Nil]
    /\ UNCHANGED <<policy, passed>>

(* The request passes exactly the checks in force, all at once. *)
Clear(c) ==
    /\ stage[c] = "held"
    /\ stage' = [stage EXCEPT ![c] = "cleared"]
    /\ passed' = [passed EXCEPT ![c] = policy]
    /\ UNCHANGED <<policy, answer>>

Forward(c) ==
    /\ stage[c] = "cleared"
    /\ stage' = [stage EXCEPT ![c] = "sent"]
    /\ UNCHANGED <<policy, passed, answer>>

(* The request ends, with an answer (a) or, when a is Nil, without one. *)
Finish(c, a) ==
    /\ stage[c] # "none" /\ a \in AnswersFrom(stage[c]) \cup {Nil}
    /\ stage' = [stage EXCEPT ![c] = "none"]
    /\ passed' = [passed EXCEPT ![c] = {}]
    /\ answer' = [answer EXCEPT ![c] = a]
    /\ UNCHANGED policy

Next ==
    \/ ChangePolicy
    \/ \E c \in Conns :
        \/ Arrive(c) \/ Clear(c) \/ Forward(c)
        \/ \E a \in AnswersFrom(stage[c]) \cup {Nil} : Finish(c, a)

Spec == Init /\ [][Next]_gatewayVars
=============================================================================
