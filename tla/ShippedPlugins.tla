--------------------------- MODULE ShippedPlugins ---------------------------
(***************************************************************************)
(* The plugins of src/plugins in the pipeline of proxy.toml: ip_filter,    *)
(* rate_limit, auth, authz and transform on the requests of a keep-alive   *)
(* connection, whose Lua VM outlives them.  A reload, between two hook     *)
(* runs, may leave any of the plugins missing or broken (PluginReload).    *)
(* What the plugins do is modelled; RequestPipeline has the hook runs.     *)
(***************************************************************************)
EXTENDS Integers, Sequences

CONSTANTS
    Ips,           \* client addresses
    Blocklist,     \* BLOCKLIST and ALLOWLIST of ip_filter.lua
    Allowlist,
    Capacity,      \* CAPACITY (100) and REFILL_RATE (10 per second)
    RefillRate,
    Loadables,     \* what a reload may leave: sets of plugins that load
    MaxRequests,   \* bound: requests of a connection
    MaxTime,       \* bound: seconds
    Nil

Pipeline == <<"ip_filter", "rate_limit", "auth", "authz", "transform">>

ASSUME ListsAssumption == Blocklist \subseteq Ips /\ Allowlist \subseteq Ips
ASSUME BucketAssumption == Capacity \in Nat \ {0} /\ RefillRate \in Nat \ {0}
ASSUME BoundsAssumption == MaxRequests \in Nat /\ MaxTime \in Nat
ASSUME LoadablesAssumption == Loadables \subseteq SUBSET {Pipeline[i] : i \in 1..5} /\ Loadables # {}

(* A path per rule, and two that only look like one. *)
Paths == {"/health", "/metrics", "/metrics/x", "/public/x", "/admin/x", "/api/v1/x", "/api/v2/x", "/x"}

(* The API keys, a key that is unknown, a token that verifies (and says    *)
(* role user) or does not, another scheme, and neither header.             *)
Credentials == {"admin key", "reader key", "unknown key", "user token", "bad token", "basic", "none"}

Roles == {"admin", "reader", "user"}

ASSUME NilAssumption ==
    Nil \notin Roles \cup {"ops", "api_key", "jwt", "public", "401", "403", "429", "sent",
                           "default", "api_v2"}

(* The role API_KEYS or the verified claims give. *)
RoleOf(cred) ==
    CASE cred = "admin key"  -> "admin"
      [] cred = "reader key" -> "reader"
      [] cred = "user token" -> "user"
      [] OTHER               -> Nil

(* PUBLIC_PATHS of auth.lua *)
PublicPaths == {"/health", "/metrics", "/public/x"}

(* RULES of authz.lua: Nil is a rule without roles.  "/x" has no rule. *)
RuleRoles(path) ==
    CASE path = "/admin/x" -> {"admin"}
      [] path \in {"/metrics", "/metrics/x"} -> {"admin", "ops"}
      [] path = "/api/v1/x" -> {"admin", "user", "reader"}
      [] path = "/api/v2/x" -> {"admin", "user"}
      [] path \in {"/health", "/public/x"} -> Roles \cup {Nil}
      [] path = "/x" -> Roles

VARIABLES
    loadable,   \* the plugins the shared sources hold and that load
    now,        \* os.time()
    buckets,    \* the table of the rate_limit chunk in the VM; Nil where it has no entry
    routes,     \* the VM has transform's on_route
    at,         \* 0 between requests, a position of the pipeline, 6 after on_request, 7 after on_route
    req,        \* the request; its ip is x-real-ip, x-forwarded-for or the peer's
    ctx,        \* role, auth_method and rejected of the RequestCtx
    reply,      \* the status of a rejection, "sent" with the upstream's name, or Nil
    ran,        \* history: plugins whose on_request ran on this request
    count       \* history: requests of the connection received, and past rate_limit by ip

vars == <<loadable, now, buckets, routes, at, req, ctx, reply, ran, count>>

NewCtx == [role |-> Nil, auth_method |-> Nil, rejected |-> Nil]
NoReply == [status |-> Nil, upstream |-> Nil]
NewConnection == [received |-> 0, passed |-> [i \in Ips |-> 0], since |-> 0]
NoBuckets == [i \in Ips |-> Nil]

(* The type invariant: the on_request run ends after the fifth plugin, and *)
(* a bucket never holds more than Capacity tokens, nor less than none.     *)
TypeOK ==
    /\ loadable \in Loadables /\ now \in 0..MaxTime
    /\ \A i \in Ips :
            buckets[i] = Nil \/ (buckets[i].tokens \in 0..Capacity /\ buckets[i].last \in 0..now)
    /\ routes \in BOOLEAN /\ at \in 0..7
    /\ req.path \in Paths /\ req.cred \in Credentials /\ req.ip \in Ips
    /\ ctx \in [role : Roles \cup {Nil}, auth_method : {"api_key", "jwt", "public", Nil},
                rejected : {"401", "403", "429", Nil}]
    /\ reply \in [status : {"401", "403", "429", "sent", Nil}, upstream : {"default", "api_v2", Nil}]

Init ==
    /\ loadable \in Loadables /\ now = 0
    /\ buckets = NoBuckets /\ routes = FALSE /\ at = 0
    /\ \E i \in Ips : req = [path |-> "/x", cred |-> "none", ip |-> i]
    /\ ctx = NewCtx /\ reply = NoReply /\ ran = {} /\ count = NewConnection

-----------------------------------------------------------------------------
(* The connection and the operator *)

(* A new connection: a new VM. *)
Connect ==
    /\ at = 0 /\ count.received > 0
    /\ buckets' = NoBuckets /\ routes' = FALSE
    /\ reply' = NoReply /\ ran' = {} /\ count' = [NewConnection EXCEPT !.since = now]
    /\ UNCHANGED <<loadable, now, at, req, ctx>>

Receive(path, cred, i) ==
    /\ at = 0 /\ count.received < MaxRequests
    /\ at' = 1
    /\ req' = [path |-> path, cred |-> cred, ip |-> i]
    /\ ctx' = NewCtx /\ reply' = NoReply /\ ran' = {}
    /\ count' = [count EXCEPT !.received = @ + 1]
    /\ UNCHANGED <<loadable, now, buckets, routes>>

(* Between two hook runs. *)
Reload(s) ==
    /\ at \in {0, 6, 7} /\ s # loadable
    /\ loadable' = s
    /\ UNCHANGED <<now, buckets, routes, at, req, ctx, reply, ran, count>>

Tick ==
    /\ now < MaxTime
    /\ now' = now + 1
    /\ UNCHANGED <<loadable, buckets, routes, at, req, ctx, reply, ran, count>>

-----------------------------------------------------------------------------
(* The on_request run: one step per plugin *)

Turn(p) == at \in 1..5 /\ Pipeline[at] = p /\ p \in loadable

(* A plugin's on_request ends, and with it the run if it has rejected. *)
Ran(p, c) ==
    /\ ctx' = c
    /\ ran' = ran \cup {p}
    /\ at' = IF c.rejected # Nil THEN 6 ELSE at + 1

(* Not in the sources, or load_plugin fails. *)
SkipPlugin ==
    /\ at \in 1..5 /\ Pipeline[at] \notin loadable
    /\ at' = at + 1
    /\ UNCHANGED <<loadable, now, buckets, routes, req, ctx, reply, ran, count>>

IpFilter ==
    /\ Turn("ip_filter")
    /\ Ran("ip_filter", IF req.ip \in Blocklist \/ (Allowlist # {} /\ req.ip \notin Allowlist)
                        THEN [ctx EXCEPT !.rejected = "403"] ELSE ctx)
    /\ UNCHANGED <<loadable, now, buckets, routes, req, reply, count>>

(* get_bucket in the table the chunk begins with: `local buckets = {}'. *)
GetBucket(b) == IF b = Nil THEN [tokens |-> Capacity, last |-> now] ELSE b

Refill(b) ==
    IF now > b.last
    THEN LET sum == b.tokens + (now - b.last) * RefillRate
         IN  [tokens |-> IF sum < Capacity THEN sum ELSE Capacity, last |-> now]
    ELSE b

RateLimitAllTokens ==                 \* mutant: a token is taken from an empty bucket
    /\ Turn("rate_limit")
    /\ LET b == Refill(GetBucket(buckets[req.ip]))
       IN  /\ buckets' = [buckets EXCEPT ![req.ip] = [b EXCEPT !.tokens = @ - 1]]
           /\ Ran("rate_limit", ctx)
           /\ count' = [count EXCEPT !.passed[req.ip] = @ + 1]
    /\ UNCHANGED <<loadable, now, routes, req, reply>>

(* Loading the chunk makes the table of buckets anew, and on_request takes *)
(* a token from the client's bucket in it.                                 *)
RateLimit ==
    /\ Turn("rate_limit")
    /\ LET b == Refill(GetBucket(NoBuckets[req.ip]))
           empty == b.tokens < 1
       IN  /\ buckets' = [NoBuckets EXCEPT ![req.ip] = IF empty THEN b ELSE [b EXCEPT !.tokens = @ - 1]]
           /\ Ran("rate_limit", IF empty THEN [ctx EXCEPT !.rejected = "429"] ELSE ctx)
           /\ count' = IF empty THEN count ELSE [count EXCEPT !.passed[req.ip] = @ + 1]
    /\ UNCHANGED <<loadable, now, routes, req, reply>>

AuthTokenFirst ==                     \* mutant: a token that fails is refused before the key is tried
    /\ Turn("auth") /\ (req.cred # "none" \/ req.path \in PublicPaths)
    /\ Ran("auth",
           CASE req.path \in PublicPaths -> [ctx EXCEPT !.auth_method = "public"]
             [] req.path \notin PublicPaths /\ req.cred = "user token" ->
                    [ctx EXCEPT !.role = RoleOf(req.cred), !.auth_method = "jwt"]
             [] OTHER -> [ctx EXCEPT !.rejected = "401"])
    /\ UNCHANGED <<loadable, now, buckets, routes, req, reply, count>>

(* on_request of auth.lua: public paths, then the API key, then the token. *)
Auth ==
    /\ Turn("auth") /\ (req.cred # "none" \/ req.path \in PublicPaths)
    /\ Ran("auth",
           CASE req.path \in PublicPaths -> [ctx EXCEPT !.auth_method = "public"]
             [] req.path \notin PublicPaths /\ req.cred \in {"admin key", "reader key"} ->
                    [ctx EXCEPT !.role = RoleOf(req.cred), !.auth_method = "api_key"]
             [] req.path \notin PublicPaths /\ req.cred = "user token" ->
                    [ctx EXCEPT !.role = RoleOf(req.cred), !.auth_method = "jwt"]
             [] OTHER -> [ctx EXCEPT !.rejected = "401"])
    /\ UNCHANGED <<loadable, now, buckets, routes, req, reply, count>>

(* Without x-api-key and authorization, try_api_key indexes nil: the call  *)
(* fails, the engine logs it and goes on with the next plugin.             *)
AuthRaises ==
    /\ Turn("auth") /\ req.cred = "none" /\ req.path \notin PublicPaths
    /\ Ran("auth", ctx)
    /\ UNCHANGED <<loadable, now, buckets, routes, req, reply, count>>

AuthzTrustsAuth ==                    \* mutant: no role passes for any role
    /\ Turn("authz")
    /\ Ran("authz", IF ctx.auth_method = "public" \/ ctx.role \in RuleRoles(req.path) \cup {Nil}
                    THEN ctx ELSE [ctx EXCEPT !.rejected = "403"])
    /\ UNCHANGED <<loadable, now, buckets, routes, req, reply, count>>

Authz ==
    /\ Turn("authz")
    /\ Ran("authz", IF ctx.auth_method = "public" \/ ctx.role \in RuleRoles(req.path)
                    THEN ctx ELSE [ctx EXCEPT !.rejected = "403"])
    /\ UNCHANGED <<loadable, now, buckets, routes, req, reply, count>>

(* transform.lua defines on_route too; its on_request only sets headers. *)
Transform ==
    /\ Turn("transform")
    /\ routes' = TRUE
    /\ Ran("transform", ctx)
    /\ UNCHANGED <<loadable, now, buckets, req, reply, count>>

-----------------------------------------------------------------------------
(* After on_request *)

Reject ==
    /\ at = 6 /\ ctx.rejected # Nil
    /\ reply' = [NoReply EXCEPT !.status = ctx.rejected]
    /\ at' = 0
    /\ UNCHANGED <<loadable, now, buckets, routes, req, ctx, ran, count>>

(* The on_route run: at each plugin that loads, the on_route the VM has is *)
(* called, the one transform left there earlier or leaves now.             *)
RouteCalled == loadable # {} /\ (routes \/ "transform" \in loadable)

RouteByPrefix ==                      \* mutant: the pattern is "^/api/"
    /\ at = 6 /\ ctx.rejected = Nil
    /\ reply' = [status |-> "sent", upstream |->
            IF RouteCalled /\ req.path \in {"/api/v1/x", "/api/v2/x"} THEN "api_v2" ELSE "default"]
    /\ routes' = (routes \/ "transform" \in loadable)
    /\ at' = 7
    /\ UNCHANGED <<loadable, now, buckets, req, ctx, ran, count>>

(* on_route of transform.lua, or "default".  The chunks of the run are     *)
(* loaded up to the one at whose turn a name is returned.                  *)
Route ==
    /\ at = 6 /\ ctx.rejected = Nil
    /\ reply' = [status |-> "sent", upstream |->
            IF RouteCalled /\ req.path = "/api/v2/x" THEN "api_v2" ELSE "default"]
    /\ routes' = (routes \/ "transform" \in loadable)
    /\ at' = 7
    /\ UNCHANGED <<loadable, now, buckets, req, ctx, ran, count>>

(* The on_transform and on_response runs load the chunks again; transform's *)
(* on_response only sets headers.                                          *)
Respond ==
    /\ at = 7
    /\ routes' = (routes \/ "transform" \in loadable)
    /\ at' = 0
    /\ UNCHANGED <<loadable, now, buckets, req, ctx, reply, ran, count>>

Next ==
    \/ Connect
    \/ \E path \in Paths, cred \in Credentials, i \in Ips : Receive(path, cred, i)
    \/ \E s \in Loadables : Reload(s)
    \/ Tick
    \/ SkipPlugin \/ IpFilter \/ RateLimit \/ Auth \/ AuthRaises \/ Authz \/ Transform
    \/ Reject \/ Route \/ Respond

Spec == Init /\ [][Next]_vars

-----------------------------------------------------------------------------
(* Properties *)

(* A request that authz has seen is sent only if its path is public or its *)
(* own credentials give a role that the path's rule allows: also when auth *)
(* is missing or raises an error, and whatever the connection's earlier    *)
(* requests carried.                                                       *)
OnlyAuthorized ==
    reply.status = "sent" /\ "authz" \in ran =>
        req.path \in PublicPaths \/ RoleOf(req.cred) \in RuleRoles(req.path)

(* A request with such credentials that auth has seen is refused for them  *)
(* by nobody: not by auth itself with 401, and not by authz with 403, which *)
(* must find what auth left in ctx.vars.                                   *)
AuthorizedPasses ==
    reply.status \in {"401", "403"} /\ "auth" \in ran =>
        req.path \notin PublicPaths /\ RoleOf(req.cred) \notin RuleRoles(req.path)

(* What authz.lua guards and what transform.lua routes agree: a request    *)
(* that authz has seen reaches the upstream api_v2 only with credentials   *)
(* of an admin or a user, also when the plugins that route it, or the      *)
(* on_route left in the VM, are not those that were there when it was      *)
(* checked.                                                                *)
ApiV2Protected ==
    reply.upstream = "api_v2" /\ "authz" \in ran => RoleOf(req.cred) \in {"admin", "user"}

(* rate_limit.lua:9: the buckets are kept while the VM lives ("Lua VM 생존   *)
(* 기간 동안 유지"), so that a client gets no more than Capacity requests      *)
(* of a connection and RefillRate per second past rate_limit (test.sh:78:  *)
(* 429 from the 102nd on).                                                 *)
RateLimited ==
    \A i \in Ips : count.passed[i] <= Capacity + RefillRate * (now - count.since)

(* test.sh:59 asserts 401 for a protected path without credentials: also  *)
(* here, whenever auth has seen the request.                               *)
Unauthenticated401 ==
    reply.status # Nil /\ "auth" \in ran /\ req.cred = "none" /\ req.path \notin PublicPaths =>
        reply.status = "401"
=============================================================================
