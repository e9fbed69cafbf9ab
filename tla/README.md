# A TLA+ model of the proxy

These modules model the proxy in `src/`: an HTTP(S) reverse proxy whose requests
pass through a pipeline of Lua plugins, with upstreams behind load balancers and
health checks, and plugin sources and certificates that are reloaded while
requests run. TLC checks the modules on small instances and TLAPS proves the
central properties for every instance. Paths below are relative to the
repository; `handler.rs` stands for `src/src/handler.rs` and so on.

`PROJECT.json` lists the runs, the source lines of each definition (`map`), one
plausible bug per property that the property detects (`mutants`; in the modules
these are the definitions marked `mutant`, just before the one they corrupt),
the disagreements found (`findings`), the hazards and the theorems.

## 1. Inventory

| Part | State | Operations | Interacts with |
|---|---|---|---|
| Connection loops, `main.rs` | the queue of the blocking pool; one thread, one `LuaEngine` (Lua VM) per connection | accept, serve, close, shutdown | handler, TLS acceptor |
| Request handler, `handler.rs` | `RequestCtx`, `upstream_name`, the timer | `handle_request`, `forward_request`, `error_response` | hook runs, upstream pool, metrics |
| Lua engine, `lua/engine.rs` | the VM's globals; a reference to the shared `PluginSources` | `load_plugin`, `run_on_request`, `run_on_route`, `run_on_transform`, `run_on_response` | holds the read lock of the sources for a whole run |
| Request context, `lua/context.rs` | `rejected`, `vars`, headers, status, body | the methods of `ctx` | read back by the handler |
| Plugin sources and hot reload, `lua/engine.rs`, `watcher.rs`, `admin.rs` | `RwLock<PluginSources>`, the watcher's channel and `pending` | `load`, file events, debounce tick, `POST /reload` | file system, hook runs |
| Load balancers, `upstream/balancer.rs` | `alive` and `active` per target, the round robin counter | `next` | called by the handler, flags stored by the health checks |
| Health checks, `upstream/pool.rs` | probes in flight | the 5 s loop, the probe, the store | balancers, upstream servers |
| Upstream pool, `upstream/pool.rs` | the map from name to balancer | `init`, `next_url` | handler |
| Metrics, `metrics.rs` | counters and a histogram | updated by the handler, formatted by `/metrics` | |
| TLS acceptor, `tls.rs` | `ArcSwap<TlsAcceptor>`, the paths of the two files | `get`, `reload` | admin API, HTTPS loop |
| Admin API, `admin.rs` | none of its own | `/reload`, `/reload/tls`, `/plugins`, `/metrics`, `/health` | sources, TLS acceptor |
| Shipped plugins, `src/plugins/*.lua` | token buckets, allow lists | the hooks | `ctx` |
| Codec helpers, `lua/engine.rs` | none | base64, hmac, json, uuid | plugins |
| Configuration, `config.rs` | read once | | all |

What is hard to test here: hook runs of many connections interleave with reloads
of the sources they read; two reloads read files without a lock and swap in any
order; the Lua VM outlives plugins, runs and requests; a request leaves the
handler at a dozen places, a panic and a cancelled future among them; probes of
successive rounds overlap and finish in any order; `next` loads its flags one by
one while they change; a counter wraps; a bounded channel fills up while its
consumer is busy causing more events; certificate and key are read one after the
other while they are replaced, by reloads that overlap; a connection waits for a
thread with an acceptor it took earlier; a plugin that guards raises an error and
the next one has to hold. `PROJECT.json` lists each as a hazard, at
its line.

What makes the parts correct:

* no request reaches an upstream around a plugin that guards it;
* a reject ends the request, and every request is answered or dropped, once;
* a request sees nothing of the request before it;
* an edit of a plugin goes live, and stays live;
* a hook run sees one version of the sources, and a reload is not starved;
* a balancer chooses an alive target and uses all of them;
* the flag of a target follows its server, and requests follow the flags;
* a handshake uses a certificate with its own key, and a rotated one in the end;
* an accepted connection gets its thread, and a shutdown ends;
* a request passes the shipped plugins exactly if its own credentials allow it.

## 2. Modules

| Module | Models | Proofs |
|---|---|---|
| `RequestPipeline` | connection, handler, hook runs, context, metrics | `RequestPipelineProofs` |
| `Gateway` | abstract: what the handler promises, implemented by `RequestPipeline` | `GatewayProofs` |
| `PluginReload` | sources, watcher, `POST /reload`, the start order, the lock | `PluginReloadProofs` |
| `Balancer` | the three balancers under concurrent flag changes | `BalancerProofs` |
| `HealthCheck` | the probe loop and overlapping probes | `HealthCheckProofs` |
| `UpstreamPool` | the pool: `Balancer` and `HealthCheck` over the same flags | `UpstreamPoolProofs` |
| `HotTls` | the TLS acceptor and `POST /reload/tls` | with `Server` |
| `Server` | accept loops, blocking pool, shutdown; extends `HotTls` | `ServerProofs` |
| `ShippedPlugins` | the five plugins of `src/plugins` in the pipeline of `proxy.toml` | `ShippedPluginsProofs` |
| `MCRequestPipeline`, `MCPluginReload`, `MCBalancer`, `MCUpstreamPool`, `MCServer`, `MCShippedPlugins` | constants for TLC | |

### RequestPipeline

Each connection `c` has a stage `pc[c]`. While it is a hook's name, `at[c]` is
the position in the pipeline (0 before the read lock is taken) and `calling[c]`
says that a Lua function runs. The steps are those of the code: `Enter` takes the
read lock, which is kept to the end of the run; at each turn the plugin is
missing (`SkipMissing`), its chunk fails (`LoadFails`), it leaves no function of
the hook's name (`NoHook`) or the function is called (`CallHook`) and returns
(`ReturnHook`). `globals[c]` remembers which plugin defined each global function
of the VM; a chunk overwrites what it defines and leaves the rest. While a
function runs it may call any method of `ctx` any number of times
(`CtxReject`, `CtxUpstream`, `CtxSet...`).

Between the runs, `handle_request` admits, answers a rejection or panics (a
status that `http` refuses, unwrapped in `error_response`), routes, picks a
target, forwards, awaits, and relays. `Drop` is the future that is dropped or
unwinds; the histogram's timer then observes the duration as it does on a return.
`Disconnect` can happen where the code awaits. `Reload` replaces the sources when
no connection is inside a hook run; `PluginReload` is the detailed model of it.

Data is abstracted to classes: a status or header value is `ok` or `bad` (one the
`http` builder refuses); a body is empty, text, binary, or what
`from_utf8_lossy` makes of binary; a plugin's source is whether it is there,
whether its chunk runs to the end, and which hooks it has defined by then.
`snap`, `ran`, `did` and `sent` are history variables; no guard reads them.

`UpstreamPool::next_url` is the pair `NoUpstream` and `PickTarget`: an upstream
of a known name may or may not have an alive target, an unknown one falls back to
`default`.

`Admit` gives the lock back together with the look at `rejected`, while the code
drops the guard when `run_on_request` returns; between the two only the
connection's own state is read. `SendFails` is the 502 of a request that cannot be
built: a header value that `http` refuses, or a URL that does not parse, which may
happen to any request since URLs are not modelled.

### Gateway

The abstract specification of the handler: a request is held, cleared in one step
by exactly the checks in force, forwarded at most once, and ended with an answer
that its stage allows, or with none. `RequestPipeline` instantiates it (`G`): the
checks in force are the guards of the current sources, the stage is a function of
`pc`, the checks passed are the positions whose own `on_request` ran, the answer
is the last reply. The mapping hides the VM, the lock, the position and the
context; what it shows is that a hook run of many steps, under reloads and other
connections, acts like one step, and that nothing else leads to an upstream.

### PluginReload

The loaders (`main`, the watcher, one per admin connection) read the files of the
pipeline one at a time (`ReadFile`), without a lock; they then wait for the write
lock (`AwaitWriteLock`) and replace the sources (`Swap`). A file has a version and
may be missing. File events pass through `events` (inotify and notify's thread),
a bounded `channel` and the flag `pending`; the watcher's `select` receives one
(`Receive`) or ticks (`Tick`). A read in the watched directory is itself an event,
of a kind that `watcher.rs` ignores. `main` loads first and installs the watch
afterwards (`Publish`, `StartServing`); edits made before the watch exists are
not promised to be seen, so the history variable `watched` counts only the others.
`asked` notes the versions on the disk when `POST /reload` was called. Left out is
an overflow of inotify's queue: the kernel then reports one event without a path,
which `watcher.rs:52` ignores, and edits may go unseen until the next one.
`NoEditLost` and what rests on it assume that it does not happen.
A waiting writer keeps new readers out, as `std`'s lock does on Linux.

### Balancer

A call of `next` scans the flags (`Scan`, one target a step) and then picks
(`PickNone`, `PickRoundRobin`, `PickLeastConn`, `PickConsistentHash`).
`StoreAlive` changes a flag between any two of these steps. The round robin
counter has `CounterMod` values (2^64 in the code). `lb` is chosen at the start
and selects the balancer as `make_balancer` does. `stable[c]` says that no flag
changed since the call began; `round` collects the targets served in the current
rotation.

### HealthCheck

A round spawns one probe per target and waits for none; a probe waits for its
answer without a timeout and then stores its verdict. Servers are up, down or
silent and change at any time. `probes[t]` counts the probes of `t` that wait, or
hold a good or a bad verdict not yet stored.

### UpstreamPool

One upstream of the map: `NextUrl` looks the name up, falls back to `default` for
an unknown name only, and calls `next`; `Proceed` is the rest of the call. The
store of a probe (`StoreFlag`) is at once a step of `HealthCheck` and a
`StoreAlive` of `Balancer`, on the flag a scan may be about to load. The map is
written by `init` only, so the upstreams are independent; names are taken to be
distinct (of two upstreams of one name `init` keeps the later, whose targets are
then probed twice a round: overlapping probes, as `MaxProbes` allows anyway).

### HotTls and Server

`certFile` and `keyFile` are written by the operator at any time, and are `Bad`
while missing or half written. A reload (one per admin connection, so several at
once) gets the content of the certificate file (`ReadCert`) and that of the key
file (`ReadKey`), and builds with the second, or gives up and keeps the acceptor
(`BuildFails`); `Store` swaps the acceptor in. `build_acceptor` opens both files
before it reads either; a content is fixed at the open if a new file is renamed
over the old one, and at the read if the old one is overwritten. With a key that is
renamed and a certificate that is overwritten the key comes first, so the model
allows both orders.

In `Server` the accept loops give each connection a task, with the acceptor of
that moment (`Accept`); a thread of the pool takes the oldest task (`Start`), does
the handshake and serves requests until the connection ends (`Close`). An upstream
may hang (`UpstreamHangs`), a loop may end on an error (`LoopFails`). Ctrl+C drops
the loops; the runtime then waits for the started tasks. Tokio's pool is external:
while the runtime shuts down, a thread that comes free still runs what is queued,
and one that was idle discards it (`Discard`); the model allows either.

### ShippedPlugins

One step per plugin of the `on_request` run, then `Reject`, or `Route` and
`Respond`. Paths are one per rule of `authz.lua` plus two that look like one;
credentials are the known API keys, an unknown one, a token that verifies or does
not, another scheme and none. The address is that of the request (`handler.rs:41`
takes it from headers first), so requests of one connection may differ in it.
`rate_limit.lua` prefers the variable `user_id` to the address; it runs before
`auth.lua`, which sets it, so the key is the address. `loadable` is the set of
plugins the shared sources hold and that load; a reload replaces it between two
hook runs. `routes` says that transform's `on_route` is among the VM's globals.
Loading `rate_limit.lua` executes `local buckets = {}`, hence `NoBuckets` in
`RateLimit`. `ran` and `count` are history.

## 3. Runs

Runs that pass:

| Run | Instance | Properties |
|---|---|---|
| `pipeline_reload` | 2 connections, 2 requests, 2 plugins, 4 versions | `NoPluginBypassed`, `RejectStopsPipeline`, `RequestsBalance`, `HooksFinish`, `ImplementsGateway` |
| `pipeline_context` | 1 connection, 2 requests, every method with both classes of arguments, three kinds of body | `TypeOK`, `FreshContext`, `RequestsBalance` |
| `plugin_reload` | 2 files, 2 edits, the watcher with a channel of one, 1 admin request, 1 reader | `TypeOK`, `NoEditLost`, `EveryEditGoesLive`, `WatcherKeepsUp`, `NoRollback`, `ReloadsAreCaused`, `WatcherRests`, `AnsweredIsLive`, `WriterGetsLock` |
| `balancer` | each of the 3 balancers, 3 targets, 2 callers, 2 keys, a counter of 8 values | `TypeOK`, `StableChoice`, `StickyKey`, `RoundRobinRotation` |
| `upstream_pool` | each of the 3 balancers, 2 targets, 2 overlapping probes each, 1 caller | `TypeOK`, `SettledStays`, `RequestsFollow`, `FlagConverges`, `DownIsLeftAlone`, `UpIsFound` |
| `server` | 2 connections, 1 thread, 2 overlapping reloads, 2 certificates | `TypeOK`, `MatchedPair`, `RotationStays`, `RotationReachesClients`, `AcceptedIsServed`, `ShutdownCompletes` |
| `shipped_plugins` | 3 requests per connection, 8 paths, 7 credentials, 2 addresses, 7 sets of plugins | `TypeOK`, `OnlyAuthorized`, `AuthorizedPasses`, `ApiV2Protected` |

* `NoPluginBypassed`: a request that was sent upstream went through the plugin's
  own `on_request` at every position that could load in one single version of the
  sources, and no plugin rejected it. It holds although stale globals exist,
  because a plugin that defines the hook overwrites them just before its turn,
  and although reloads come in, because a run keeps the lock.
* `RejectStopsPipeline`: after a reject no later `on_request` begins. Both this
  and the last part of `NoPluginBypassed` are about rejects made in the
  `on_request` run; what a later hook's reject comes to is listed below.
* `RequestsBalance`: `proxy_requests_total` (of the methods) is the number of
  requests under way, answered and dropped, and each one that is over has
  exactly one observed duration, on every exit. `pipeline_reload` checks it with
  two connections, `pipeline_context` with the exits that bad statuses and header
  values cause, the panic in `error_response` among them.
* `HooksFinish`: a request in the hands of the proxy gets out of them.
* `ImplementsGateway`: the refinement described above.
* `FreshContext`: no rejection and no upstream of an earlier request of the
  keep-alive connection is seen.
* `EveryEditGoesLive`: an edit under watch is live at some later time, also when
  it falls into a reload or finds the channel full, and whatever the admin API
  does. `WatcherKeepsUp`: it then stays live, as long as nobody uses
  `POST /reload` (see `reload_race`). `NoRollback`: under the same condition no
  swap brings an older version of any file back. `NoEditLost` is what stands
  behind the first two: until an edit is live, a change is queued, noted in
  `pending`, or carried by a load that has yet to read the file or to swap it in.
* `WatcherRests`: the events caused by the watcher's own reads do not make it
  reload for ever. `ReloadsAreCaused` says why: each tick that reloads uses up a
  change, and only an edit makes one, so there are at most as many reloads as
  edits.
* `AnsweredIsLive`: when `POST /reload` answers that the plugins are reloaded,
  what was on the disk when it was asked has been live, or something newer has,
  although files change while they are read and the watcher swaps in between.
* `WriterGetsLock`: hook runs that come one after the other do not starve a
  reload.
* `StableChoice`: a call that no flag change disturbed returns an alive target,
  and `None` only if there is none. `RoundRobinRotation`: no target is served
  twice in a rotation while another waits. `StickyKey`: two undisturbed calls
  with the same key agree.
* `SettledStays`: once flag and server agree and no contrary verdict is on its
  way, the flag stays until the server changes. `FlagConverges`: it gets there.
  `RequestsFollow`: when in addition the scans under way have found the flag as
  it is, then until the server changes no call returns a target that is down, and
  none comes back empty while it is up.
* `DownIsLeftAlone`: once a server stays down, it is chosen only for a while;
  `UpIsFound`: while one stays up, `next` in the end no longer returns `None`.
  Both go through the whole pool: the probes, the stores in any order, the flags
  a scan has already loaded. A server that hangs is in neither: its probe never
  ends and its flag stays as it is.
* `MatchedPair`: neither the acceptor in use nor one that a connection took along
  joins a certificate and a foreign key. It rests on the check that rustls makes in
  `with_single_cert` (`Builds`). `RotationReachesClients`: if the files
  hold a pair for good and reloads go on being asked for, handshakes in the end
  all use that pair. One reload is not enough: another, older one may store last,
  and the property's premise says so. `RotationStays`: once files, acceptor and
  the reloads under way all hold the new certificate, nothing but the operator
  changes that, and the connections that wait with an old one can only get fewer.
* `AcceptedIsServed`: a full pool delays connections and loses none, provided
  every other connection now and then has no thread. `ShutdownCompletes`: after
  Ctrl+C the process ends unless one connection keeps its thread for ever (an
  idle keep-alive client or a silent upstream does: the code has no limit).
* `OnlyAuthorized`: a request that `authz` saw is sent only if its path is public
  or its own credentials give a role the rule allows, also if `auth` raised an
  error or was missing. `AuthorizedPasses`: a request that `auth` has seen gets
  neither its 401 nor the 403 of `authz` if its path is public or its credentials
  give such a role. `ApiV2Protected`: the rules of `authz.lua` and the routes of
  `transform.lua` fit together, so that a request `authz` has seen gets to the
  upstream `api_v2` only with an admin's or a user's credentials, also if a reload
  changes the plugins between the check and the routing.

Runs in which TLC finds a counterexample, each to a statement made in the
repository (quoted in `findings`):

| Run | What the code does |
|---|---|
| `hook_environment` | a plugin that a reload has removed still runs on the connection's next request: its function is among the VM's globals and is called at the turn of a plugin without the hook |
| `least_conn` | nothing writes `Target.active`, so a second request goes to the target that is busy with the first, while others have none; calls of `next` follow each other here (`SerialSpec`), so that no race is to blame |
| `reload_race` | `POST /reload` reads an old file, the watcher loads the edit, and the handler's older load then replaces it for good |
| `rate_limit` | each load of `rate_limit.lua`, once per request, begins with an empty table: the limit is never reached |
| `missing_auth` | without credentials `auth.lua` raises an error, and `authz.lua` answers 403 where `test.sh` expects 401 |

More disagreements were met and have no run:

* `ctx:reject` after `on_request` is ignored: `rejected` is read once
  (`handler.rs:63`, against `README.md:168` and `context.rs:109`).
* A response header set in `on_request` is lost, since the upstream's headers
  replace all (`handler.rs:119`, against `rate_limit.lua:54`).
* `POST /reload` keeps the pipeline read at the start (`admin.rs:86`, against
  `README.md:229`).
* A body that is not UTF-8 reaches the client altered, though no hook can change
  it: what is sent is `res_body`, the lossy text (`handler.rs:133`, against
  `handler.rs:132`).
* A rejected request is counted twice in `proxy_requests_total`, the second time
  under the label `rejected` (`handler.rs:65`, against `metrics.rs:17`).
* `GET /plugins` lists plugins whose file could not be read (`admin.rs:128`,
  against `README.md:203`).
* The consistent hash is a hash modulo the number of alive targets, so that one
  failure moves the keys of other targets (`balancer.rs:100`, against its name in
  `README.md:36`).
* `health_check_interval` is parsed and not used: the loop sleeps five seconds.
* `hmac.sha256` returns the digest as a Rust `String` with one char per byte;
  Lua gets its UTF-8 form, in which a byte above 127 takes two, so that the
  signature is not that of the raw bytes (`engine.rs:309`, against
  `engine.rs:298`). Tokens signed by `jwt.lua` itself still verify.
* `base64.decode` drops a last group with padding (`engine.rs:286`).

### Bounds, and why they are enough

* Two connections are needed for a reload that one connection's run delays while
  another goes on; connections share only the sources and the counters, so a
  third adds no new kind of interleaving. Two requests cover a keep-alive
  connection and its leftovers. The pipeline has a plugin before and one after
  each place of interest. The four versions are the shipped pair of kinds, the
  guard missing, the guard failing half-way and the guard emptied.
* `Names`, `Values` and the bad `Statuses` are left out of `pipeline_reload` and
  included in `pipeline_context`, which in turn has one connection and one
  version: the context belongs to one connection.
* Two edits give one that falls into the reload caused by the other. The channel
  holds one event instead of 32, so that it is full most of the time.
* Three targets let the number of alive targets change without reaching 0 or 1;
  eight counter values make the counter wrap, and at a length (3) that does not
  divide 8 and at others that do. A rotation is not claimed across a wrap that
  makes the index jump; the definition `Steady` says so.
* One thread and two connections make the pool full; a connection that waits then
  sees the acceptor replaced. Two certificates are an old and a new one, two
  reloads the least that can store in the wrong order.
* One caller is enough in `upstream_pool`, whose question is the flags under it;
  `balancer` has two callers and flags that change freely, which is more than the
  health checks do (`PoolImplementsBalancer`).
* Three requests of a connection give one before and one after the request at
  issue; a capacity of 2 tokens is exceeded by the third, which is the least
  instance in which a limit could be seen to work or fail. One second is enough
  for a refill. The sets of plugins are all of them, all but one, one alone, none.
* Two probes per target are enough for an older verdict to land after a newer
  one. `MaxProbes` bounds a number the code does not bound.

The proofs remove these bounds for the properties they cover.

### Fairness

Weak fairness of what the proxy's own threads and tasks do: connection threads
run and plugin functions return (`FairSpec` of `RequestPipeline`); loaders,
notify's thread and both branches of the watcher's `select` get their turn
(tokio's `select!` picks its branch at random), and hook runs end
(`PluginReload`); the probe loop goes on, and a server that is not silent answers
(`PoolFairSpec` of `UpstreamPool`; callers may stop anywhere). In `Server` the pool hands out its threads, a reload runs to its end, a
request is answered or hangs for good, and the dropped runtime lets the process
end. Nothing is assumed of clients, operators and upstreams: none has
to connect, send, edit, call, answer or recover. A plugin that loops for ever
would keep the read lock, block reloads and hang its connection; the fairness of
`ReturnHook` and `UnlockRead` excludes it, since the code has no limit on it.

Deadlock is checked in every run but these: `reload_race`, which has no reader and
runs out of steps once its edit and its request are spent, and the three of
`ShippedPlugins`, where time is bounded and, as shipped, nothing is left to
happen when it is up.

## 4. Proofs

All theorems hold for every value of the constants that meets the assumptions
(`ASSUME`, evaluated by TLC in every run): finitely many connections, a pipeline
of known plugins, versions that give a source to each plugin, a number of targets,
a hash with natural values, a counter with at least one value, a channel with room
for at least one event, loaders with names of their own, a file content that is no
certificate and no key, a pool with at least one thread, a bucket that holds and
regains at least one token. `UpstreamPool` takes those of `Balancer` and that its
targets are the balancer's.

| Theorem | Statement | Argument |
|---|---|---|
| `RequestPipelineProofs!TypeCorrect` | `[]TypeOK` | `TypeOK` is not inductive: a function that returns moves to the next position, which exists only if it was called at one. `HookCalls` says so. |
| `RequestPipelineProofs!NoBypass` | `[]NoPluginBypassed` | `GuardInv`, below |
| `RequestPipelineProofs!RejectStops` | `RejectStopsPipeline` | `GuardInv` |
| `RequestPipelineProofs!MetricsBalance` | `[]RequestsBalance` | inductive over the types; each action adds a connection to `InRequest` and to `requests`, or takes it out and adds to `durations` and one of `replied`, `dropped` |
| `BalancerProofs!TypeCorrect` | `[]TypeOK` | with `Idle`: `active` stays zero, so that `LeastActive` chooses an element |
| `BalancerProofs!StableChoiceCorrect` | `[]StableChoice` | `ScanInv`: the vector of an undisturbed scan is exactly the set of alive targets before its position |
| `HealthCheckProofs!TypeCorrect` | `[]TypeOK` | inductive |
| `HealthCheckProofs!SettledStaysCorrect` | `SettledStays` | from the types, action by action |
| `PluginReloadProofs!TypeCorrect` | `[]TypeOK` | inductive; the channel never exceeds its capacity |
| `PluginReloadProofs!AnsweredIsLiveCorrect` | `[]AnsweredIsLive` | `AskedInv`: what was asked for is on the disk, in the map being built from the read of the file on, and has lived once the answer is out; uses `FreshInv`, that the disk is ahead of all that was read |
| `PluginReloadProofs!NoRollbackCorrect` | `NoRollback` | `FreshInv`, below |
| `PluginReloadProofs!NoEditLostCorrect` | `[]NoEditLost` | `EditInv` and `FreshInv`, below |
| `PluginReloadProofs!ReloadsAreCausedCorrect` | `ReloadsAreCaused` | the number of changes in `events`, `channel` and `pending`, by what `Append` and `Tail` do to it; a read appends an event that is no change |
| `RequestPipelineProofs!ContextIsFresh` | `[]FreshContext` | inductive: `Collect` starts from an empty context, and a step that sets one of its fields notes it in the history |
| `GatewayProofs!Implements` | `ImplementsGateway` | `GuardInv`: when a run ends without a rejection the positions that ran are the guards of the sources in force, so the step is a `Clear`; `Unanswered`: a request under way has no answer, so every exit is a `Finish`. All other steps stutter or are `ChangePolicy`, `Arrive` or `Forward`. |
| `BalancerProofs!StickyKeyCorrect` | `[]StickyKey` | `StickyInv`: the vectors of two undisturbed scans list the alive targets before their positions in the same order, so that one is a prefix of the other; at the end they are equal |
| `BalancerProofs!RotationCorrect` | `RoundRobinRotation` | `RotationInv`, below |
| `UpstreamPoolProofs!PoolTypeCorrect`, `PoolSettledStays` | `[]TypeOK`, `SettledStays` | a step of the pool is a step of `HealthCheck` or leaves its variables alone |
| `UpstreamPoolProofs!PoolImplementsBalancer` | `PoolSpec => B!Spec` | a step of the pool is a step of `Balancer` or leaves its variables alone |
| `UpstreamPoolProofs!PoolStableChoice`, `PoolStickyKey`, `PoolRotation` | the properties of `Balancer`, of the pool | `PoolImplementsBalancer` and the theorems of `BalancerProofs`, instantiated |
| `UpstreamPoolProofs!RequestsFollowCorrect` | `RequestsFollow` | `SettledStep` for the flag; `Collects`: a scan puts a target into its vector exactly if it finds it alive, and a pick returns an element of the vector |
| `ServerProofs!ServerTypeCorrect` | `[]TypeOK` | `QueueInv` (the queue and the stages agree) and the cardinality of `Served` |
| `ServerProofs!MatchedPairCorrect` | `[]MatchedPair` | `PairInv`: also the pair a reload has built and not stored yet matches |
| `ServerProofs!RotationStaysCorrect` | `RotationStays` | `PairInv`: a reload that stores has read a certificate, and the only one that reloads under way have read is the new one |
| `ShippedPluginsProofs!PluginsTypeCorrect` | `[]TypeOK` | inductive |
| `ShippedPluginsProofs!OnlyAuthorizedCorrect`, `AuthorizedPassesCorrect` | the two invariants | `RunInv`: what the plugins that ran have established of the request at each position, and that the role is that of its own credentials; `NoRoleIsPublic` closes the case of an error in `auth` |
| `ShippedPluginsProofs!ApiV2ProtectedCorrect` | `[]ApiV2Protected` | `RunInv`: a request that is routed to `api_v2` was not rejected and has a path of `/api/v2/`, for which `authz` asked for one of the two roles |

`NoPluginBypassed` speaks of the moment after `Send`, four stages after the run it
is about. `GuardInv` carries the fact along: inside the `on_request` run the
sources are those of the snapshot and the positions already called are exactly
the guards before the current position (and at it, while it is being called),
unless a plugin has rejected; `ctx.rejected` agrees with the history; and a
request in any later stage has passed all guards without a rejection. The reload
preserves it because it needs all runs to be over.

`NoRollback` compares a swap with the sources it replaces, which were read long
before. `FreshInv` has three parts: who can be inside a load at all while nobody
used `POST /reload` (`main` before the watch exists, the watcher after: never
two); no version that was read, published or lived is ahead of the disk; and what
a load has read of a file is at least as new as the sources it will replace.
`EditInv` is the first half of `NoEditLost`, an edit that was never live is on its
way; the second follows, since without `POST /reload` the shared version is the
newest that ever lived. A reload that began earlier and read the file before the edit is
the hard case: the edit's own event is then still to come, and `pending` is set
only after `Tick` has cleared it. A plugin may occur twice in the pipeline, and
plugins outside it may be edited; the proof covers both.

`RoundRobinRotation` says of a ticket that its target was not served in this
rotation. `RotationInv` describes the rotation while the flags stand still: the
targets served are those at the last positions before the counter's, modulo the
number of alive targets. The arithmetic (`SplitUnique`, `Split`, `RestOfNext`) is
the uniqueness of quotient and remainder, proved from the laws of `%` and `\div`;
`IncreasingCardinality` turns the ascending vector of a scan into a number of
targets.

Model-checked only: the liveness properties, which are out of the prover's reach.
Most have a safety core that is proved:

| Liveness | What is proved of it |
|---|---|
| `EveryEditGoesLive`, `WatcherKeepsUp` | `NoEditLost`: the watcher always has cause to load what is not live; `NoRollback`: what is live stays |
| `WatcherRests` | `ReloadsAreCaused`: a measure that every reload lowers and only edits raise |
| `FlagConverges`, `DownIsLeftAlone`, `UpIsFound` | `SettledStays`, `RequestsFollow`: what they arrive at is stable |
| `RotationReachesClients` | `RotationStays`: likewise |
| `AcceptedIsServed`, `ShutdownCompletes` | `TypeOK`: the queue and the stages agree, so that no connection waits outside the queue |
| `HooksFinish`, `WriterGetsLock` | nothing beyond the types |

The counterexamples of the violating runs are TLC's; nothing is proved of them.

## 5. Not modelled, and what is left

* `plugins/lib/jwt.lua` and the hash functions: cryptography and string matching.
  `ShippedPlugins` has their verdict as a class of credential.
* The codec helpers of `engine.rs` (`json.encode`, `base64`, `hmac`, `uuid`): pure
  functions of strings, without state, which tests reach better than a model; what
  was noticed while reading them is listed above.
* `config.rs`: derived parsing; it gives the constants their values.
* `generate_self_signed_cert`: called by nobody.
* The wording and layout of responses, logs and metrics, and the headers that
  `transform.lua` sets.

Left for later: measures for `HooksFinish` and `ShutdownCompletes`, as
`ReloadsAreCaused` is one for `WatcherRests`; the base64 functions as operators
against a reference.
