------------------------ MODULE ShippedPluginsProofs ------------------------
(***************************************************************************)
(* Theorems about ShippedPlugins, for every client, every blocklist and    *)
(* allowlist, every bucket size and whatever plugins a reload takes away.  *)
(***************************************************************************)
EXTENDS ShippedPlugins, TLAPS

Allowed == req.path \in PublicPaths \/ RoleOf(req.cred) \in RuleRoles(req.path)

(* What is known of the request while the plugins see it, one after the    *)
(* other, and when it has its answer.                                      *)
RunInv ==
    /\ ctx.role # Nil => ctx.role = RoleOf(req.cred)
    /\ ctx.auth_method = "public" => req.path \in PublicPaths
    /\ at \in 1..5 => ctx.rejected = Nil
    /\ at \in 1..3 => "auth" \notin ran
    /\ at \in 1..4 => "authz" \notin ran
    /\ "auth" \in ran /\ ctx.rejected = Nil =>
            IF req.path \in PublicPaths THEN ctx.auth_method = "public"
                                        ELSE ctx.role = RoleOf(req.cred)
    /\ "authz" \in ran /\ ctx.rejected = Nil => Allowed
    /\ "auth" \in ran /\ ctx.rejected # Nil => ~Allowed
    /\ reply.status # Nil => reply.status = IF ctx.rejected = Nil THEN "sent" ELSE ctx.rejected
    /\ at \in 1..6 => reply.status = Nil /\ reply.upstream = Nil
    /\ reply.upstream = "api_v2" => req.path = "/api/v2/x" /\ reply.status = "sent"

LEMMA RolesOfCredentials == RoleOf(req.cred) \in Roles \cup {Nil}
  BY DEF RoleOf, Roles

(* Only public paths have a rule that asks for no role. *)
LEMMA NoRoleIsPublic ==
    ASSUME req.path \in Paths, Nil \in RuleRoles(req.path)
    PROVE  req.path \in PublicPaths
  BY NilAssumption DEF RuleRoles, PublicPaths, Paths, Roles

LEMMA InitInv == Init => TypeOK /\ RunInv
  <1> SUFFICES ASSUME Init PROVE TypeOK /\ RunInv
    OBVIOUS
  <1>1. TypeOK
    <2>1. now \in 0..MaxTime /\ at \in 0..7
      BY BoundsAssumption DEF Init
    <2>0. PICK i \in Ips : req = [path |-> "/x", cred |-> "none", ip |-> i]
      BY DEF Init
    <2>2. req.path \in Paths /\ req.cred \in Credentials /\ req.ip \in Ips
      BY <2>0 DEF Paths, Credentials
    <2>3. ctx = NewCtx /\ reply = NoReply /\ routes \in BOOLEAN
      BY DEF Init
    <2>4. \A j \in Ips : buckets[j] = Nil
      BY DEF Init, NoBuckets
    <2> QED
      BY <2>1, <2>2, <2>3, <2>4 DEF Init, TypeOK, NewCtx, NoReply
  <1>2. RunInv
    BY NilAssumption DEF Init, RunInv, NewCtx, NoReply
  <1> QED
    BY <1>1, <1>2

LEMMA TypeStep == TypeOK /\ [Next]_vars => TypeOK'
  <1> SUFFICES ASSUME TypeOK, [Next]_vars PROVE TypeOK'
    OBVIOUS
  <1> DEFINE CtxType == [role : Roles \cup {Nil}, auth_method : {"api_key", "jwt", "public", Nil},
                         rejected : {"401", "403", "429", Nil}]
  <1>0. \A r \in {"401", "403", "429"} : [ctx EXCEPT !.rejected = r] \in CtxType
    BY DEF TypeOK
  <1>1. CASE Connect
    BY <1>1 DEF Connect, TypeOK, NoReply, NoBuckets
  <1>2. ASSUME NEW path \in Paths, NEW cred \in Credentials, NEW i \in Ips, Receive(path, cred, i)
        PROVE  TypeOK'
    BY <1>2 DEF Receive, TypeOK, NoReply, NewCtx
  <1>3. ASSUME NEW s \in Loadables, Reload(s) PROVE TypeOK'
    BY <1>3 DEF Reload, TypeOK
  <1>4. CASE Tick
    <2>1. now' \in 0..MaxTime /\ 0..now \subseteq 0..now'
      BY <1>4, BoundsAssumption DEF Tick, TypeOK
    <2> QED
      BY <1>4, <2>1 DEF Tick, TypeOK
  <1>5. CASE SkipPlugin
    BY <1>5 DEF SkipPlugin, TypeOK
  <1>6. ASSUME NEW p, at \in 1..5, NEW c \in CtxType, Ran(p, c),
               UNCHANGED <<loadable, now, req, reply>>, routes' \in BOOLEAN,
               \A i \in Ips : \/ buckets'[i] \in {buckets[i], Nil}
                              \/ buckets'[i].tokens \in 0..Capacity /\ buckets'[i].last \in 0..now
        PROVE  TypeOK'
    BY <1>6 DEF Ran, TypeOK
  <1>7. ctx \in CtxType
    BY DEF TypeOK
  <1>8. CASE IpFilter
    BY <1>0, <1>6, <1>7, <1>8 DEF IpFilter, Turn, TypeOK
  <1>9. CASE RateLimit
    <2> DEFINE b == Refill(GetBucket(NoBuckets[req.ip]))
    <2>1. b = [tokens |-> Capacity, last |-> now] /\ now \in 0..now
      BY BoundsAssumption DEF Refill, GetBucket, NoBuckets, TypeOK
    <2> DEFINE b2 == IF b.tokens < 1 THEN b ELSE [b EXCEPT !.tokens = @ - 1]
    <2>2. b2.tokens \in 0..Capacity /\ b2.last \in 0..now
      BY <2>1, BucketAssumption
    <2>3. buckets' = [NoBuckets EXCEPT ![req.ip] = b2]
      BY <1>9 DEF RateLimit
    <2>4. \A i \in Ips : buckets'[i] = Nil \/ buckets'[i] = b2
      BY <2>3 DEF NoBuckets
    <2> QED
      BY <1>0, <1>6, <1>7, <1>9, <2>2, <2>4 DEF RateLimit, Turn, TypeOK
  <1>10. CASE Auth
    <2>1. /\ [ctx EXCEPT !.auth_method = "public"] \in CtxType
          /\ [ctx EXCEPT !.role = RoleOf(req.cred), !.auth_method = "api_key"] \in CtxType
          /\ [ctx EXCEPT !.role = RoleOf(req.cred), !.auth_method = "jwt"] \in CtxType
      BY <1>7, RolesOfCredentials
    <2> QED
      BY <1>0, <1>6, <1>10, <2>1 DEF Auth, Turn, TypeOK
  <1>11. CASE AuthRaises
    BY <1>6, <1>7, <1>11 DEF AuthRaises, Turn, TypeOK
  <1>12. CASE Authz
    BY <1>0, <1>6, <1>7, <1>12 DEF Authz, Turn, TypeOK
  <1>13. CASE Transform
    BY <1>6, <1>7, <1>13 DEF Transform, Turn
  <1>14. CASE Reject
    BY <1>14 DEF Reject, NoReply, TypeOK
  <1>15. CASE Route \/ Respond
    <2>1. routes' \in BOOLEAN
      BY <1>15 DEF Route, Respond
    <2>2. reply' \in [status : {"401", "403", "429", "sent", Nil}, upstream : {"default", "api_v2", Nil}]
      BY <1>15 DEF Route, Respond, TypeOK
    <2>3. at' \in 0..7 /\ UNCHANGED <<loadable, now, buckets, req, ctx>>
      BY <1>15 DEF Route, Respond
    <2> QED
      BY <2>1, <2>2, <2>3 DEF TypeOK
  <1>16. CASE UNCHANGED vars
    BY <1>16 DEF vars, TypeOK
  <1> QED
    BY <1>1, <1>2, <1>3, <1>4, <1>5, <1>8, <1>9, <1>10, <1>11, <1>12, <1>13, <1>14, <1>15, <1>16
       DEF Next

LEMMA RunStep == TypeOK /\ RunInv /\ [Next]_vars => RunInv'
  <1> SUFFICES ASSUME TypeOK, RunInv, [Next]_vars PROVE RunInv'
    OBVIOUS
  <1> USE DEF Allowed
  <1>1. CASE Connect
    BY <1>1, NilAssumption DEF Connect, RunInv, NoReply
  <1>2. ASSUME NEW path \in Paths, NEW cred \in Credentials, NEW i \in Ips, Receive(path, cred, i)
        PROVE  RunInv'
    BY <1>2, NilAssumption DEF Receive, RunInv, NoReply, NewCtx
  <1>3. ASSUME NEW s \in Loadables, Reload(s) PROVE RunInv'
    BY <1>3 DEF Reload, RunInv
  <1>4. CASE Tick
    BY <1>4 DEF Tick, RunInv
  <1>5. CASE SkipPlugin
    BY <1>5 DEF SkipPlugin, RunInv
  <1>6. ASSUME NEW p, p \notin {"auth", "authz"}, at \in 1..5, Ran(p, ctx), UNCHANGED <<req, reply>>
        PROVE  RunInv'
    BY <1>6 DEF Ran, RunInv, TypeOK
  <1>7. ASSUME NEW p, p \notin {"auth", "authz"}, at \in 1..2, NEW r \in {"401", "403", "429"},
               Ran(p, [ctx EXCEPT !.rejected = r]), UNCHANGED <<req, reply>>
        PROVE  RunInv'
    BY <1>7, NilAssumption DEF Ran, RunInv, TypeOK
  <1>8. CASE IpFilter
    BY <1>6, <1>7, <1>8 DEF IpFilter, Turn, Pipeline
  <1>9. CASE RateLimit
    BY <1>6, <1>7, <1>9 DEF RateLimit, Turn, Pipeline
  <1>10. CASE Auth
    <2>1. Turn("auth") /\ UNCHANGED <<req, reply>>
      BY <1>10 DEF Auth
    <2>2. at = 3
      BY <2>1 DEF Turn, Pipeline
    <2>3. ctx.rejected = Nil /\ "authz" \notin ran
      BY <2>2 DEF RunInv
    <2>4. CASE req.path \in PublicPaths
      <3>1. Ran("auth", [ctx EXCEPT !.auth_method = "public"])
        BY <1>10, <2>4 DEF Auth
      <3> QED
        BY <2>1, <2>2, <2>3, <2>4, <3>1 DEF Ran, RunInv, TypeOK
    <2>5. ASSUME NEW m \in {"api_key", "jwt"}, req.path \notin PublicPaths,
                 Ran("auth", [ctx EXCEPT !.role = RoleOf(req.cred), !.auth_method = m])
          PROVE  RunInv'
      BY <2>1, <2>2, <2>3, <2>5 DEF Ran, RunInv, TypeOK
    <2>6. ASSUME Ran("auth", [ctx EXCEPT !.rejected = "401"]), ~Allowed PROVE RunInv'
      BY <2>1, <2>2, <2>3, <2>6, NilAssumption DEF Ran, RunInv, TypeOK
    <2>7. CASE req.path \notin PublicPaths /\ req.cred \in {"admin key", "reader key"}
      BY <1>10, <2>5, <2>7 DEF Auth
    <2>8. CASE req.path \notin PublicPaths /\ req.cred = "user token"
      BY <1>10, <2>5, <2>8 DEF Auth
    <2>9. CASE req.path \notin PublicPaths /\ req.cred \notin {"admin key", "reader key", "user token"}
      <3>1. RoleOf(req.cred) = Nil
        BY <2>9 DEF RoleOf
      <3>2. ~Allowed
        BY <2>9, <3>1, NoRoleIsPublic DEF TypeOK
      <3> QED
        BY <1>10, <2>6, <2>9, <3>2 DEF Auth
    <2> QED
      BY <2>4, <2>7, <2>8, <2>9
  <1>11. CASE AuthRaises
    <2>1. at = 3 /\ RoleOf(req.cred) = Nil /\ UNCHANGED <<req, reply>>
      BY <1>11 DEF AuthRaises, Turn, Pipeline, RoleOf
    <2> QED
      BY <1>11, <2>1 DEF AuthRaises, Ran, RunInv, TypeOK
  <1>12. CASE Authz
    <2>1. at = 4 /\ ctx.rejected = Nil /\ UNCHANGED <<req, reply>>
      BY <1>12 DEF Authz, Turn, Pipeline, RunInv
    <2>2. ctx.role \in RuleRoles(req.path) => Allowed
      BY NoRoleIsPublic DEF RunInv, TypeOK
    <2> QED
      BY <1>12, <2>1, <2>2, NilAssumption DEF Authz, Ran, RunInv, TypeOK
  <1>13. CASE Transform
    BY <1>6, <1>13 DEF Transform, Turn
  <1>14. CASE Reject
    BY <1>14, NilAssumption DEF Reject, NoReply, RunInv
  <1>15. CASE Route
    BY <1>15 DEF Route, RunInv
  <1>16. CASE Respond
    BY <1>16 DEF Respond, RunInv
  <1>17. CASE UNCHANGED vars
    BY <1>17 DEF vars, RunInv
  <1> QED
    BY <1>1, <1>2, <1>3, <1>4, <1>5, <1>8, <1>9, <1>10, <1>11, <1>12, <1>13, <1>14, <1>15, <1>16,
       <1>17 DEF Next

LEMMA PluginsInvariant == Spec => [](TypeOK /\ RunInv)
  BY InitInv, TypeStep, RunStep, PTL DEF Spec

(* The on_request run stays within the pipeline and the token buckets      *)
(* within their capacity.                                                  *)
THEOREM PluginsTypeCorrect == Spec => []TypeOK
  BY PluginsInvariant, PTL

(* authz lets nobody through whose own credentials do not give a role that *)
(* the rule of the path allows, also if auth fails, is missing or comes    *)
(* and goes.                                                               *)
THEOREM OnlyAuthorizedCorrect == Spec => []OnlyAuthorized
  <1>1. TypeOK /\ RunInv => OnlyAuthorized
    BY NilAssumption DEF RunInv, OnlyAuthorized, Allowed, TypeOK
  <1> QED
    BY <1>1, PluginsInvariant, PTL

(* Neither auth nor authz refuses a request, once auth has seen it, whose  *)
(* credentials give such a role.                                           *)
THEOREM AuthorizedPassesCorrect == Spec => []AuthorizedPasses
  <1>1. TypeOK /\ RunInv => AuthorizedPasses
    BY NilAssumption DEF RunInv, AuthorizedPasses, Allowed, TypeOK
  <1> QED
    BY <1>1, PluginsInvariant, PTL

(* Whatever plugins come and go between the run that checks a request and  *)
(* the run that routes it, authz's rule for /api/v2/ guards the upstream   *)
(* that transform sends such requests to.                                  *)
THEOREM ApiV2ProtectedCorrect == Spec => []ApiV2Protected
  <1>1. TypeOK /\ RunInv => ApiV2Protected
    <2> SUFFICES ASSUME TypeOK, RunInv, reply.upstream = "api_v2", "authz" \in ran
                 PROVE  RoleOf(req.cred) \in {"admin", "user"}
      BY DEF ApiV2Protected
    <2>1. req.path = "/api/v2/x" /\ ctx.rejected = Nil
      BY NilAssumption DEF RunInv, TypeOK
    <2>2. req.path \notin PublicPaths /\ RuleRoles(req.path) = {"admin", "user"}
      BY <2>1 DEF PublicPaths, RuleRoles
    <2> QED
      BY <2>1, <2>2 DEF RunInv, Allowed
  <1> QED
    BY <1>1, PluginsInvariant, PTL
=============================================================================
