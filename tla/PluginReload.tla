---------------------------- MODULE PluginReload ----------------------------
(***************************************************************************)
(* Hot reload of the Lua sources: PluginSources::load                      *)
(* (src/src/lua/engine.rs), the file watcher (src/src/watcher.rs), POST    *)
(* /reload and GET /plugins (src/src/admin.rs), and the order in which     *)
(* main() starts them (src/src/main.rs).  Every reload reads the files one *)
(* by one without a lock and takes the write lock only to swap the result  *)
(* in, so two reloads can finish in the order opposite to the one in which *)
(* they read.                                                              *)
(***************************************************************************)
EXTENDS Integers, Sequences, FiniteSets

CONSTANTS
    Plugins,      \* the plugin files
    Pipeline,     \* cfg.pipeline as proxy.toml had it when the proxy started
    Admins,       \* connections to the admin API
    Readers,      \* connection threads, which run the hooks
    ChannelCap,   \* capacity of the watcher's channel (32 in the code)
    MaxEdits,     \* bound: changes made to the plugin files
    MaxReloads    \* bound: POST /reload requests

ASSUME PipelineAssumption == Pipeline \in Seq(Plugins)
ASSUME BoundsAssumption ==
    /\ ChannelCap \in Nat \ {0}
    /\ MaxEdits \in Nat
    /\ MaxReloads \in Nat
ASSUME LoaderNames == {"main", "watcher"} \cap (Admins \cup Readers) = {}

Loaders == {"main", "watcher"} \cup Admins

(* A file's content: its version, and whether it can be read at all.  A    *)
(* file that cannot be read is missing from PluginSources.sources.         *)
Content == [ver : Nat, there : BOOLEAN]
Unread == [ver |-> 0, there |-> FALSE]

VARIABLES
    disk,      \* disk[p]: the content of file p
    srcs,      \* srcs[p]: the content of p in the shared PluginSources.sources
    pc,        \* pc[l]: "off", "idle", "load", "wait" (for the write lock) or "ok"
    at,        \* at[l]: next position of the pipeline that l reads
    buf,       \* buf[l]: the `sources' map l is building
    holders,   \* threads that hold the read lock
    events,    \* file events not yet in the channel (inotify and notify thread)
    channel,   \* the watcher's mpsc channel
    watching,  \* watcher.watch() has been called
    pending,   \* the watcher's `pending'
    edits,     \* number of changes made
    reloads,   \* number of POST /reload made
    asked,     \* history: asked[a][p] is p's version on disk when a asked for its reload
    watched,   \* history: watched[p] is p's newest version made under watch
    lived      \* history: lived[p] is p's newest version that was ever shared

fileVars == <<disk, edits, watched>>
srcVars == <<srcs, lived>>
loadVars == <<pc, at, buf>>
watchVars == <<events, channel, watching, pending>>
adminVars == <<reloads, asked>>
vars == <<fileVars, srcVars, loadVars, watchVars, holders, adminVars>>

EventKinds == {"change", "other"}

(* The type invariant: mpsc::channel never holds more than its capacity,   *)
(* and a load stays within the pipeline.                                   *)
TypeOK ==
    /\ disk \in [Plugins -> Content]
    /\ srcs \in [Plugins -> Content]
    /\ pc \in [Loaders -> {"off", "idle", "load", "wait", "ok"}]
    /\ at \in [Loaders -> 1..(Len(Pipeline) + 1)]
    /\ buf \in [Loaders -> [Plugins -> Content]]
    /\ holders \subseteq Readers
    /\ events \in Seq(EventKinds)
    /\ channel \in Seq(EventKinds) /\ Len(channel) <= ChannelCap
    /\ watching \in BOOLEAN /\ pending \in BOOLEAN
    /\ edits \in 0..MaxEdits /\ reloads \in 0..MaxReloads
    /\ watched \in [Plugins -> Nat] /\ lived \in [Plugins -> Nat]
    /\ asked \in [Admins -> [Plugins -> Nat]]

(* main() has parsed proxy.toml and enters PluginSources::load. *)
Init ==
    /\ disk = [p \in Plugins |-> [ver |-> 0, there |-> TRUE]]
    /\ srcs = [p \in Plugins |-> Unread]
    /\ pc = [l \in Loaders |-> IF l = "main" THEN "load" ELSE "off"]
    /\ at = [l \in Loaders |-> 1]
    /\ buf = [l \in Loaders |-> [p \in Plugins |-> Unread]]
    /\ holders = {}
    /\ events = <<>> /\ channel = <<>>
    /\ watching = FALSE /\ pending = FALSE
    /\ edits = 0 /\ reloads = 0
    /\ watched = [p \in Plugins |-> 0] /\ lived = [p \in Plugins |-> 0]
    /\ asked = [a \in Admins |-> [p \in Plugins |-> 0]]

-----------------------------------------------------------------------------
(* The operator *)

(* External: the watch reports events once it is installed. *)
Notify(kind) == events' = IF watching THEN Append(events, kind) ELSE events

(* A file is written, created or removed. *)
Edit(p, there) ==
    /\ edits < MaxEdits
    /\ there \/ disk[p].there
    /\ edits' = edits + 1
    /\ disk' = [disk EXCEPT ![p] = [ver |-> @.ver + 1, there |-> there]]
    /\ watched' = IF watching THEN [watched EXCEPT ![p] = disk[p].ver + 1] ELSE watched
    /\ Notify("change")
    /\ UNCHANGED <<srcVars, loadVars, channel, watching, pending, holders, adminVars>>

-----------------------------------------------------------------------------
(* PluginSources::load and the swap, for every loader *)

BeginLoad(l) ==
    /\ pc' = [pc EXCEPT ![l] = "load"]
    /\ at' = [at EXCEPT ![l] = 1]
    /\ buf' = [buf EXCEPT ![l] = [p \in Plugins |-> Unread]]

ReadFileGivesUp(l) ==                 \* mutant: stops at the first file it cannot read
    /\ pc[l] = "load" /\ at[l] <= Len(Pipeline)
    /\ LET p == Pipeline[at[l]]
       IN  /\ buf' = [buf EXCEPT ![l][p] = disk[p]]
           /\ IF disk[p].there THEN Notify("other") ELSE UNCHANGED events
           /\ at' = [at EXCEPT ![l] = IF disk[p].there THEN @ + 1 ELSE Len(Pipeline) + 1]
    /\ UNCHANGED <<pc, fileVars, srcVars, channel, watching, pending, holders, adminVars>>

(* read_to_string of the next file; opening it is an event of its own,     *)
(* which notify 6 reports as an access (external).                         *)
ReadFile(l) ==
    /\ pc[l] = "load" /\ at[l] <= Len(Pipeline)
    /\ LET p == Pipeline[at[l]]
       IN  /\ buf' = [buf EXCEPT ![l][p] = disk[p]]
           /\ IF disk[p].there THEN Notify("other") ELSE UNCHANGED events
    /\ at' = [at EXCEPT ![l] = @ + 1]
    /\ UNCHANGED <<pc, fileVars, srcVars, channel, watching, pending, holders, adminVars>>

(* srcs.write(): a waiting writer keeps new readers out (std's RwLock on   *)
(* Linux prefers writers).                                                 *)
AwaitWriteLock(l) ==
    /\ l # "main" /\ pc[l] = "load" /\ at[l] = Len(Pipeline) + 1
    /\ pc' = [pc EXCEPT ![l] = "wait"]
    /\ UNCHANGED <<at, buf, fileVars, srcVars, watchVars, holders, adminVars>>

(* What is left to do after the swap: the watcher goes back to its loop,   *)
(* the admin handler answers.                                              *)
After(l) == IF l \in Admins THEN "ok" ELSE "idle"

(* The shared PluginSources becomes what loader l has built.  load() is    *)
(* given the configuration of the start: the pipeline never changes.       *)
Share(l) ==
    /\ srcs' = buf[l]
    /\ lived' = [p \in Plugins |-> IF buf[l][p].ver > lived[p] THEN buf[l][p].ver ELSE lived[p]]

SwapForgotten(l) ==                   \* mutant: the result of load is dropped
    /\ pc[l] = "wait" /\ holders = {}
    /\ pc' = [pc EXCEPT ![l] = After(l)]
    /\ UNCHANGED <<at, buf, fileVars, srcVars, watchVars, holders, adminVars>>

(* *srcs.write().unwrap() = new; load() never returns an error, so there   *)
(* is no failing branch.                                                   *)
Swap(l) ==
    /\ pc[l] = "wait" /\ holders = {}
    /\ Share(l)
    /\ pc' = [pc EXCEPT ![l] = After(l)]
    /\ UNCHANGED <<at, buf, fileVars, watchVars, holders, adminVars>>

-----------------------------------------------------------------------------
(* main() *)

(* The loaded sources become the shared ones; nobody else has them yet. *)
Publish ==
    /\ pc["main"] = "load" /\ at["main"] = Len(Pipeline) + 1
    /\ Share("main")
    /\ pc' = [pc EXCEPT !["main"] = "ok"]
    /\ UNCHANGED <<at, buf, fileVars, watchVars, holders, adminVars>>

(* spawn_watcher, then the admin API and the listeners. *)
StartServing ==
    /\ pc["main"] = "ok" /\ ~watching
    /\ watching' = TRUE
    /\ pc' = [l \in Loaders |-> IF l = "main" THEN "ok" ELSE "idle"]
    /\ UNCHANGED <<at, buf, events, channel, pending, fileVars, srcVars, holders, adminVars>>

-----------------------------------------------------------------------------
(* The watcher *)

SendUnbounded ==                      \* mutant: the channel has no capacity
    /\ events # <<>>
    /\ channel' = Append(channel, Head(events))
    /\ events' = Tail(events)
    /\ UNCHANGED <<watching, pending, fileVars, srcVars, loadVars, holders, adminVars>>

(* notify's thread: tx.blocking_send(event) waits for room in the channel. *)
SendEvent ==
    /\ events # <<>> /\ Len(channel) < ChannelCap
    /\ channel' = Append(channel, Head(events))
    /\ events' = Tail(events)
    /\ UNCHANGED <<watching, pending, fileVars, srcVars, loadVars, holders, adminVars>>

WakesAlways(kind) == TRUE             \* mutant: the match on the kind is dropped

(* Create, Modify or Remove of a .lua file; an access is not. *)
Wakes(kind) == kind = "change"

ReceiveLast ==                        \* mutant: the last event decides alone
    /\ pc["watcher"] = "idle" /\ channel # <<>>
    /\ pending' = Wakes(Head(channel))
    /\ channel' = Tail(channel)
    /\ UNCHANGED <<events, watching, fileVars, srcVars, loadVars, holders, adminVars>>

(* rx.recv() is ready in the select. *)
Receive ==
    /\ pc["watcher"] = "idle" /\ channel # <<>>
    /\ pending' = (pending \/ Wakes(Head(channel)))
    /\ channel' = Tail(channel)
    /\ UNCHANGED <<events, watching, fileVars, srcVars, loadVars, holders, adminVars>>

(* debounce.tick() is ready in the select; without `pending' it does nothing. *)
Tick ==
    /\ pc["watcher"] = "idle" /\ pending
    /\ pending' = FALSE
    /\ BeginLoad("watcher")
    /\ UNCHANGED <<events, channel, watching, fileVars, srcVars, holders, adminVars>>

-----------------------------------------------------------------------------
(* The admin API and the hooks *)

(* POST /reload comes in, for the files as they are now. *)
Ask(a) ==
    /\ pc[a] = "idle" /\ reloads < MaxReloads
    /\ reloads' = reloads + 1
    /\ asked' = [asked EXCEPT ![a] = [p \in Plugins |-> disk[p].ver]]

PostReloadJoins(a) ==                 \* mutant: joins the load that the watcher is in
    /\ Ask(a)
    /\ IF pc["watcher"] \in {"load", "wait"}
       THEN pc' = [pc EXCEPT ![a] = "ok"] /\ UNCHANGED <<at, buf>>
       ELSE BeginLoad(a)
    /\ UNCHANGED <<fileVars, srcVars, watchVars, holders>>

(* PluginSources::load for this request alone, whatever else is loading. *)
PostReload(a) ==
    /\ Ask(a)
    /\ BeginLoad(a)
    /\ UNCHANGED <<fileVars, srcVars, watchVars, holders>>

(* {"status":"ok","message":"plugins reloaded"} *)
Respond(a) ==
    /\ pc[a] = "ok"
    /\ pc' = [pc EXCEPT ![a] = "idle"]
    /\ UNCHANGED <<at, buf, fileVars, srcVars, watchVars, holders, adminVars>>

LockReadBarging(r) ==                 \* mutant: readers overtake a waiting writer
    /\ watching /\ r \notin holders
    /\ holders' = holders \cup {r}
    /\ UNCHANGED <<fileVars, srcVars, loadVars, watchVars, adminVars>>

(* A hook run or GET /plugins takes the read lock and keeps it to its end. *)
LockRead(r) ==
    /\ watching /\ r \notin holders
    /\ \A l \in Loaders : pc[l] # "wait"
    /\ holders' = holders \cup {r}
    /\ UNCHANGED <<fileVars, srcVars, loadVars, watchVars, adminVars>>

UnlockRead(r) ==
    /\ r \in holders
    /\ holders' = holders \ {r}
    /\ UNCHANGED <<fileVars, srcVars, loadVars, watchVars, adminVars>>

Operator == \E p \in Plugins, there \in BOOLEAN : Edit(p, there)

LoadStep(l) == ReadFile(l) \/ AwaitWriteLock(l) \/ Swap(l)

Next ==
    \/ Operator
    \/ \E l \in Loaders : LoadStep(l)
    \/ Publish \/ StartServing
    \/ SendEvent \/ Receive \/ Tick
    \/ \E a \in Admins : PostReload(a) \/ Respond(a)
    \/ \E r \in Readers : LockRead(r) \/ UnlockRead(r)

(* Every task runs on when it can, the hooks end, and both branches of the *)
(* watcher's select get their turn; nobody must edit, reload or call.      *)
Fairness ==
    /\ \A l \in Loaders : WF_vars(LoadStep(l))
    /\ WF_vars(Publish) /\ WF_vars(StartServing)
    /\ WF_vars(SendEvent) /\ WF_vars(Receive) /\ WF_vars(Tick)
    /\ \A a \in Admins : WF_vars(Respond(a))
    /\ \A r \in Readers : WF_vars(UnlockRead(r))

Spec == Init /\ [][Next]_vars

FairSpec == Spec /\ Fairness

-----------------------------------------------------------------------------
(* Properties *)

(* When POST /reload answers "plugins reloaded" (admin.rs:90), every file   *)
(* of the pipeline as it was when the request was made has been live, or a *)
(* newer version of it has: also when the watcher loads and swaps at the   *)
(* same time, and when the files change while they are read.               *)
AnsweredIsLive ==
    \A a \in Admins : pc[a] = "ok" =>
        \A i \in DOMAIN Pipeline : lived[Pipeline[i]] >= asked[a][Pipeline[i]]

(* Every change made under watch goes live: the watcher's events, channel  *)
(* and `pending' lose none, also when it arrives during a reload.          *)
EveryEditGoesLive ==
    \A p \in Plugins : \A v \in 1..MaxEdits : (watched[p] = v) ~> (lived[p] >= v)

(* l has read file p in the load it is in. *)
HasRead(l, p) == \E i \in 1..(at[l] - 1) : Pipeline[i] = p

(* A change of p has not been seen yet, or is noted, or a load of the      *)
(* watcher is still to read p or has read all of it that was edited.       *)
OnItsWay(p) ==
    \/ \E i \in DOMAIN events : events[i] = "change"
    \/ \E i \in DOMAIN channel : channel[i] = "change"
    \/ pending
    \/ pc["watcher"] = "load" /\ ~HasRead("watcher", p)
    \/ pc["watcher"] \in {"load", "wait"} /\ buf["watcher"][p].ver >= watched[p]

(* No change made under watch is forgotten on its way through inotify, the *)
(* channel, `pending' and a reload that is under way when it is made: as   *)
(* long as it has never been live, or is not live though nobody has used   *)
(* POST /reload, the watcher still has cause to load it.                   *)
NoEditLost ==
    \A i \in DOMAIN Pipeline : LET p == Pipeline[i] IN
        lived[p] < watched[p] \/ (reloads = 0 /\ srcs[p].ver < watched[p]) => OnItsWay(p)

UpToDate == \A p \in Plugins : srcs[p].ver >= watched[p]

(* A change made under watch stays live (watcher.rs:13: "plugins/          *)
(* 디렉토리를 감시하여 변경 시 Lua 소스 자동 리로드").                              *)
EditsStayLive == <>[]UpToDate

(* The watcher by itself keeps that promise: while nobody uses POST        *)
(* /reload, the changes go live and stay so.                               *)
WatcherKeepsUp == <>[](reloads = 0 => UpToDate)

(* While nobody uses POST /reload, no reload brings an older version of a  *)
(* file back, also not one that read the files while they were edited.     *)
NoRollback == [][reloads = 0 => \A p \in Plugins : srcs'[p].ver >= srcs[p].ver]_srcs

(* When the files are left alone the watcher comes to rest: the reads of a *)
(* reload do not set off the next one.                                     *)
WatcherRests == <>[](pc["watcher"] \in {"off", "idle"} /\ ~pending)

Changes(q) == Cardinality({i \in DOMAIN q : q[i] = "change"})

(* What can still make the watcher load: changes queued, and one noted. *)
Causes == Changes(events) + Changes(channel) + (IF pending THEN 1 ELSE 0)

(* Every reload of the watcher is paid for by an edit: each one uses up a  *)
(* cause, and nothing but an edit makes one, neither the reads of a reload *)
(* nor what the admin API and the hooks do.  The debounce joins causes and *)
(* makes none, so there are at most as many reloads as edits.              *)
ReloadsAreCaused == [][edits' = edits => Causes' <= Causes /\ (Tick => Causes' < Causes)]_vars

(* A reload that waits for the write lock gets it, whatever hooks run. *)
WriterGetsLock == \A l \in Loaders : (pc[l] = "wait") ~> (pc[l] # "wait")
=============================================================================
