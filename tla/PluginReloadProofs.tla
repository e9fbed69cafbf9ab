------------------------- MODULE PluginReloadProofs -------------------------
(***************************************************************************)
(* Theorems about PluginReload, for every set of plugins, admin            *)
(* connections and connection threads, every pipeline and every capacity   *)
(* of the watcher's channel.                                               *)
(***************************************************************************)
EXTENDS PluginReload, FiniteSetTheorems, TLAPS

LEMMA PipelineType == Pipeline \in Seq(Plugins) /\ Len(Pipeline) \in Nat /\ 1 \in 1..(Len(Pipeline) + 1)
  BY PipelineAssumption

(* Beginning, reading for and sharing a load keep the types. *)
LEMMA BeginLoadType ==
    ASSUME TypeOK, NEW l \in Loaders, BeginLoad(l)
    PROVE  /\ pc' \in [Loaders -> {"off", "idle", "load", "wait", "ok"}]
           /\ at' \in [Loaders -> 1..(Len(Pipeline) + 1)]
           /\ buf' \in [Loaders -> [Plugins -> Content]]
  <1>1. [p \in Plugins |-> Unread] \in [Plugins -> Content]
    BY DEF Unread, Content
  <1> QED
    BY <1>1, PipelineType DEF BeginLoad, TypeOK

LEMMA ShareType ==
    ASSUME TypeOK, NEW l \in Loaders, Share(l)
    PROVE  srcs' \in [Plugins -> Content] /\ lived' \in [Plugins -> Nat]
  <1>1. buf[l] \in [Plugins -> Content]
    BY DEF TypeOK
  <1>2. \A p \in Plugins : (IF buf[l][p].ver > lived[p] THEN buf[l][p].ver ELSE lived[p]) \in Nat
    BY <1>1 DEF TypeOK, Content
  <1> QED
    BY <1>1, <1>2 DEF Share

LEMMA NotifyType ==
    ASSUME TypeOK, NEW kind \in EventKinds, Notify(kind)
    PROVE  events' \in Seq(EventKinds)
  BY DEF Notify, TypeOK

LEMMA TypeInit == Init => TypeOK
  <1> SUFFICES ASSUME Init PROVE TypeOK
    OBVIOUS
  <1>1. Unread \in Content /\ [ver |-> 0, there |-> TRUE] \in Content
    BY DEF Unread, Content
  <1>2. events \in Seq(EventKinds) /\ channel \in Seq(EventKinds) /\ Len(channel) <= ChannelCap
    BY BoundsAssumption DEF Init
  <1>3. at \in [Loaders -> 1..(Len(Pipeline) + 1)]
    BY PipelineType DEF Init
  <1>4. pc \in [Loaders -> {"off", "idle", "load", "wait", "ok"}]
    BY DEF Init
  <1>5. edits \in 0..MaxEdits /\ reloads \in 0..MaxReloads
    BY BoundsAssumption DEF Init
  <1> QED
    BY <1>1, <1>2, <1>3, <1>4, <1>5, PipelineAssumption DEF Init, TypeOK

LEMMA TypeStep == TypeOK /\ [Next]_vars => TypeOK'
  <1> SUFFICES ASSUME TypeOK, [Next]_vars PROVE TypeOK'
    OBVIOUS
  <1> USE DEF fileVars, srcVars, loadVars, watchVars, adminVars
  <1>1. ASSUME NEW p \in Plugins, NEW there \in BOOLEAN, Edit(p, there) PROVE TypeOK'
    <2>1. [ver |-> disk[p].ver + 1, there |-> there] \in Content /\ disk[p].ver + 1 \in Nat
      BY DEF TypeOK, Content
    <2>2. events' \in Seq(EventKinds)
      BY <1>1, NotifyType DEF Edit, EventKinds
    <2>3. disk' \in [Plugins -> Content] /\ watched' \in [Plugins -> Nat]
      BY <1>1, <2>1 DEF Edit, TypeOK
    <2>4. edits' \in 0..MaxEdits
      BY <1>1, BoundsAssumption DEF Edit, TypeOK
    <2> QED
      BY <1>1, <2>2, <2>3, <2>4 DEF Edit, TypeOK
  <1>2. ASSUME NEW l \in Loaders, ReadFile(l) PROVE TypeOK'
    <2>1. at[l] \in 1..Len(Pipeline) /\ at[l] + 1 \in 1..(Len(Pipeline) + 1)
      BY <1>2, PipelineType DEF ReadFile, TypeOK
    <2>2. Pipeline[at[l]] \in Plugins
      BY <2>1, PipelineType
    <2>3. [buf[l] EXCEPT ![Pipeline[at[l]]] = disk[Pipeline[at[l]]]] \in [Plugins -> Content]
      BY <2>2 DEF TypeOK
    <2>4. buf' = [buf EXCEPT ![l] = [buf[l] EXCEPT ![Pipeline[at[l]]] = disk[Pipeline[at[l]]]]]
      BY <1>2 DEF ReadFile
    <2>5. events' \in Seq(EventKinds)
      BY <1>2, NotifyType DEF ReadFile, EventKinds, TypeOK
    <2>6. buf' \in [Loaders -> [Plugins -> Content]] /\ at' \in [Loaders -> 1..(Len(Pipeline) + 1)]
      BY <1>2, <2>1, <2>3, <2>4 DEF ReadFile, TypeOK
    <2> QED
      BY <1>2, <2>5, <2>6 DEF ReadFile, TypeOK
  <1>3. ASSUME NEW l \in Loaders, AwaitWriteLock(l) PROVE TypeOK'
    BY <1>3 DEF AwaitWriteLock, TypeOK
  <1>4. ASSUME NEW l \in Loaders, Swap(l) PROVE TypeOK'
    <2>1. After(l) \in {"ok", "idle"}
      BY DEF After
    <2> QED
      BY <1>4, <2>1, ShareType DEF Swap, TypeOK
  <1>5. CASE Publish
    <2>1. "main" \in Loaders
      BY DEF Loaders
    <2> QED
      BY <1>5, <2>1, ShareType DEF Publish, TypeOK
  <1>6. CASE StartServing
    BY <1>6 DEF StartServing, TypeOK
  <1>7. CASE SendEvent
    <2>1. Head(events) \in EventKinds /\ Tail(events) \in Seq(EventKinds)
      BY <1>7 DEF SendEvent, TypeOK
    <2>2. channel' \in Seq(EventKinds) /\ Len(channel') = Len(channel) + 1
      BY <1>7, <2>1 DEF SendEvent, TypeOK
    <2>3. Len(channel') <= ChannelCap
      BY <1>7, <2>2, BoundsAssumption DEF SendEvent, TypeOK
    <2> QED
      BY <1>7, <2>1, <2>2, <2>3 DEF SendEvent, TypeOK
  <1>8. CASE Receive
    <2>1. channel' \in Seq(EventKinds) /\ Len(channel') = Len(channel) - 1 /\ Len(channel) \in Nat
      BY <1>8 DEF Receive, TypeOK
    <2>2. Len(channel') <= ChannelCap
      BY <2>1, BoundsAssumption DEF TypeOK
    <2>3. pending' \in BOOLEAN
      BY <1>8, Zenon DEF Receive, Wakes, TypeOK
    <2> QED
      BY <1>8, <2>1, <2>2, <2>3 DEF Receive, TypeOK
  <1>9. CASE Tick
    <2>1. "watcher" \in Loaders
      BY DEF Loaders
    <2> QED
      BY <1>9, <2>1, BeginLoadType DEF Tick, TypeOK
  <1>10. ASSUME NEW a \in Admins, PostReload(a) PROVE TypeOK'
    <2>1. a \in Loaders
      BY DEF Loaders
    <2>2. reloads' \in 0..MaxReloads
      BY <1>10, BoundsAssumption DEF PostReload, Ask, TypeOK
    <2>3. [p \in Plugins |-> disk[p].ver] \in [Plugins -> Nat]
      BY DEF TypeOK, Content
    <2>4. asked' \in [Admins -> [Plugins -> Nat]]
      BY <1>10, <2>3 DEF PostReload, Ask, TypeOK
    <2> QED
      BY <1>10, <2>1, <2>2, <2>4, BeginLoadType DEF PostReload, Ask, TypeOK
  <1>11. ASSUME NEW a \in Admins, Respond(a) PROVE TypeOK'
    BY <1>11 DEF Respond, TypeOK
  <1>12. ASSUME NEW r \in Readers, LockRead(r) \/ UnlockRead(r) PROVE TypeOK'
    BY <1>12 DEF LockRead, UnlockRead, TypeOK
  <1>13. CASE UNCHANGED vars
    BY <1>13 DEF vars, TypeOK
  <1> QED
    BY <1>1, <1>2, <1>3, <1>4, <1>5, <1>6, <1>7, <1>8, <1>9, <1>10, <1>11, <1>12, <1>13
       DEF Next, Operator, LoadStep

(* The state of the reload keeps its type: the watcher's channel never     *)
(* holds more than its capacity, and no load runs past the pipeline.       *)
THEOREM TypeCorrect == Spec => []TypeOK
  BY TypeInit, TypeStep, PTL DEF Spec

-----------------------------------------------------------------------------
(* Versions only grow *)

InPipeline(p) == \E i \in 1..Len(Pipeline) : Pipeline[i] = p

(* Who may be loading: before the watch only main, afterwards not main; an *)
(* admin connection only if a reload was asked for.                        *)
WhoLoads ==
    /\ pc["main"] \in {"load", "ok"}
    /\ watching => pc["main"] = "ok"
    /\ ~watching => \A l \in Loaders \ {"main"} : pc[l] = "off"
    /\ reloads = 0 => \A a \in Admins : pc[a] \in {"off", "idle"}
    /\ \A l \in Loaders : pc[l] = "wait" => at[l] = Len(Pipeline) + 1

(* Nobody holds a version newer than the disk's, and a file that is not in *)
(* the pipeline is read by nobody.                                         *)
NotAhead ==
    \A p \in Plugins :
        /\ srcs[p].ver <= disk[p].ver /\ watched[p] <= disk[p].ver
        /\ \A l \in Loaders : buf[l][p].ver <= disk[p].ver
        /\ ~InPipeline(p) => srcs[p].ver = 0 /\ \A l \in Loaders : buf[l][p].ver = 0
        /\ pc["main"] = "load" => srcs[p].ver = 0 /\ lived[p] = 0

(* While nobody uses POST /reload, what the only load under way has read   *)
(* is at least as new as what is shared.                                   *)
LoadIsNewer ==
    reloads = 0 =>
        \A p \in Plugins :
            /\ pc["watcher"] \in {"load", "wait"} /\ HasRead("watcher", p) =>
                    buf["watcher"][p].ver >= srcs[p].ver
            /\ lived[p] = srcs[p].ver

FreshInv == WhoLoads /\ NotAhead /\ LoadIsNewer

LEMMA LoaderFacts ==
    /\ "main" \in Loaders /\ "watcher" \in Loaders /\ Admins \subseteq Loaders
    /\ "main" \notin Admins /\ "watcher" \notin Admins /\ "main" # "watcher"
    /\ \A l \in Loaders : l \in {"main", "watcher"} \/ l \in Admins
  BY LoaderNames DEF Loaders

LEMMA VersionTypes ==
    ASSUME TypeOK, NEW p \in Plugins
    PROVE  /\ disk[p].ver \in Nat /\ srcs[p].ver \in Nat
           /\ watched[p] \in Nat /\ lived[p] \in Nat
           /\ \A l \in Loaders : buf[l][p].ver \in Nat
  BY DEF TypeOK, Content

(* What a read does to the map it fills and to what counts as read. *)
LEMMA ReadEffect ==
    ASSUME TypeOK, NEW l \in Loaders, ReadFile(l)
    PROVE  /\ \A m \in Loaders \ {l} : buf'[m] = buf[m] /\ at'[m] = at[m]
           /\ at'[l] = at[l] + 1 /\ at[l] \in 1..Len(Pipeline) /\ Pipeline[at[l]] \in Plugins
           /\ \A p \in Plugins :
                  /\ buf'[l][p] = IF p = Pipeline[at[l]] THEN disk[p] ELSE buf[l][p]
                  /\ HasRead(l, p)' <=> HasRead(l, p) \/ p = Pipeline[at[l]]
  <1> DEFINE q == Pipeline[at[l]]
  <1>1. at[l] \in 1..Len(Pipeline) /\ q \in Plugins
    BY PipelineType DEF ReadFile, TypeOK
  <1>2. /\ buf' = [buf EXCEPT ![l] = [buf[l] EXCEPT ![q] = disk[q]]]
        /\ at' = [at EXCEPT ![l] = at[l] + 1]
    BY DEF ReadFile
  <1>3. at'[l] = at[l] + 1 /\ \A m \in Loaders \ {l} : buf'[m] = buf[m] /\ at'[m] = at[m]
    BY <1>2 DEF TypeOK
  <1>4. \A p \in Plugins : buf'[l][p] = IF p = q THEN disk[p] ELSE buf[l][p]
    BY <1>1, <1>2 DEF TypeOK
  <1>5. 1..(at'[l] - 1) = 1..(at[l] - 1) \cup {at[l]}
    BY <1>1, <1>3, PipelineType
  <1>6. \A p \in Plugins : HasRead(l, p)' <=> HasRead(l, p) \/ p = q
    BY <1>5 DEF HasRead
  <1> QED
    BY <1>1, <1>3, <1>4, <1>6

(* A load starts with an empty map, having read nothing. *)
LEMMA BeginEffect ==
    ASSUME TypeOK, NEW l \in Loaders, BeginLoad(l)
    PROVE  /\ \A m \in Loaders \ {l} : buf'[m] = buf[m] /\ at'[m] = at[m] /\ pc'[m] = pc[m]
           /\ pc'[l] = "load"
           /\ \A p \in Plugins : buf'[l][p].ver = 0 /\ ~HasRead(l, p)'
  <1>1. at'[l] = 1 /\ pc'[l] = "load" /\ buf'[l] = [p \in Plugins |-> Unread]
    BY DEF BeginLoad, TypeOK
  <1>2. \A p \in Plugins : ~HasRead(l, p)'
    BY <1>1 DEF HasRead
  <1>3. \A m \in Loaders \ {l} : buf'[m] = buf[m] /\ at'[m] = at[m] /\ pc'[m] = pc[m]
    BY DEF BeginLoad, TypeOK
  <1> QED
    BY <1>1, <1>2, <1>3 DEF Unread

(* A load at the end of the pipeline has read all of it. *)
LEMMA AllRead ==
    ASSUME NEW l \in Loaders, at[l] = Len(Pipeline) + 1, NEW p, InPipeline(p)
    PROVE  HasRead(l, p)
  BY PipelineType DEF InPipeline, HasRead

(* While nobody uses POST /reload, what is about to be shared is at least  *)
(* as new as what is shared.                                               *)
LEMMA SharesNewer ==
    ASSUME TypeOK, FreshInv, reloads = 0, NEW l \in Loaders,
           Swap(l) \/ (Publish /\ l = "main"), NEW p \in Plugins
    PROVE  buf[l][p].ver >= srcs[p].ver
  <1>1. CASE l = "main"
    <2>1. srcs[p].ver = 0
      BY <1>1 DEF FreshInv, WhoLoads, NotAhead, Swap, Publish
    <2> QED
      BY <2>1, VersionTypes
  <1>2. CASE l # "main"
    <2>1. l = "watcher" /\ pc[l] = "wait" /\ at[l] = Len(Pipeline) + 1
      BY <1>2, LoaderFacts DEF FreshInv, WhoLoads, Swap
    <2>2. CASE InPipeline(p)
      <3>1. HasRead(l, p)
        BY <2>1, <2>2, AllRead
      <3> QED
        BY <2>1, <3>1 DEF FreshInv, LoadIsNewer
    <2>3. CASE ~InPipeline(p)
      <3>1. srcs[p].ver = 0
        BY <2>3 DEF FreshInv, NotAhead
      <3> QED
        BY <3>1, VersionTypes
    <2> QED
      BY <2>2, <2>3
  <1> QED
    BY <1>1, <1>2

LEMMA WhoLoadsStep == TypeOK /\ FreshInv /\ [Next]_vars => WhoLoads'
  <1> SUFFICES ASSUME TypeOK, FreshInv, [Next]_vars PROVE WhoLoads'
    OBVIOUS
  <1> USE DEF fileVars, srcVars, loadVars, watchVars, adminVars
  <1>0. WhoLoads
    BY DEF FreshInv
  <1>1. CASE Operator
    BY <1>0, <1>1 DEF Operator, Edit, WhoLoads
  <1>2. ASSUME NEW l \in Loaders, ReadFile(l) PROVE WhoLoads'
    <2>1. pc' = pc /\ watching' = watching /\ reloads' = reloads /\ pc[l] = "load"
      BY <1>2 DEF ReadFile
    <2>2. \A m \in Loaders : pc[m] = "wait" => at'[m] = at[m]
      BY <1>2, <2>1, ReadEffect
    <2> QED
      BY <1>0, <2>1, <2>2 DEF WhoLoads
  <1>3. ASSUME NEW l \in Loaders, AwaitWriteLock(l) PROVE WhoLoads'
    BY <1>0, <1>3, LoaderFacts DEF AwaitWriteLock, WhoLoads, TypeOK
  <1>4. ASSUME NEW l \in Loaders, Swap(l) PROVE WhoLoads'
    BY <1>0, <1>4, LoaderFacts DEF Swap, After, WhoLoads, TypeOK
  <1>5. CASE Publish
    BY <1>0, <1>5, LoaderFacts DEF Publish, WhoLoads, TypeOK
  <1>6. CASE StartServing
    BY <1>0, <1>6, LoaderFacts DEF StartServing, WhoLoads, TypeOK
  <1>7. CASE SendEvent \/ Receive
    BY <1>0, <1>7 DEF SendEvent, Receive, WhoLoads
  <1>8. CASE Tick
    <2>1. watching' = watching /\ reloads' = reloads /\ pc["watcher"] = "idle" /\ BeginLoad("watcher")
      BY <1>8 DEF Tick
    <2> QED
      BY <1>0, <2>1, BeginEffect, LoaderFacts DEF WhoLoads
  <1>9. ASSUME NEW a \in Admins, PostReload(a) PROVE WhoLoads'
    <2>1. watching' = watching /\ reloads' = reloads + 1 /\ pc[a] = "idle" /\ BeginLoad(a)
      BY <1>9 DEF PostReload, Ask
    <2>2. reloads' # 0
      BY <2>1 DEF TypeOK
    <2> QED
      BY <1>0, <2>1, <2>2, BeginEffect, LoaderFacts DEF WhoLoads
  <1>10. ASSUME NEW a \in Admins, Respond(a) PROVE WhoLoads'
    BY <1>0, <1>10, LoaderFacts DEF Respond, WhoLoads, TypeOK
  <1>11. ASSUME NEW r \in Readers, LockRead(r) \/ UnlockRead(r) PROVE WhoLoads'
    BY <1>0, <1>11 DEF LockRead, UnlockRead, WhoLoads
  <1>12. CASE UNCHANGED vars
    BY <1>0, <1>12 DEF vars, WhoLoads
  <1> QED
    BY <1>1, <1>2, <1>3, <1>4, <1>5, <1>6, <1>7, <1>8, <1>9, <1>10, <1>11, <1>12
       DEF Next, LoadStep

(* The steps that leave versions, maps and loaders alone. *)
Aside == UNCHANGED <<disk, watched, srcs, lived, pc, at, buf>>

(* Sharing raises `lived' to what is shared. *)
LEMMA ShareEffect ==
    ASSUME TypeOK, NEW l \in Loaders, Share(l), NEW p \in Plugins
    PROVE  /\ srcs'[p] = buf[l][p]
           /\ lived'[p] >= lived[p] /\ lived'[p] >= buf[l][p].ver
           /\ buf[l][p].ver >= lived[p] => lived'[p] = buf[l][p].ver
  <1>1. srcs'[p] = buf[l][p]
    BY DEF Share
  <1>2. lived'[p] = IF buf[l][p].ver > lived[p] THEN buf[l][p].ver ELSE lived[p]
    BY DEF Share
  <1> QED
    BY <1>1, <1>2, VersionTypes

LEMMA NotAheadStep == TypeOK /\ FreshInv /\ [Next]_vars => NotAhead'
  <1> SUFFICES ASSUME TypeOK, FreshInv, [Next]_vars, NEW p \in Plugins
               PROVE  /\ srcs'[p].ver <= disk'[p].ver /\ watched'[p] <= disk'[p].ver
                      /\ \A l \in Loaders : buf'[l][p].ver <= disk'[p].ver
                      /\ ~InPipeline(p) => srcs'[p].ver = 0 /\ \A l \in Loaders : buf'[l][p].ver = 0
                      /\ pc'["main"] = "load" => srcs'[p].ver = 0 /\ lived'[p] = 0
    BY DEF NotAhead, InPipeline
  <1> USE DEF fileVars, srcVars, loadVars, watchVars, adminVars
  <1> DEFINE Goal ==
               /\ srcs'[p].ver <= disk'[p].ver /\ watched'[p] <= disk'[p].ver
               /\ \A l \in Loaders : buf'[l][p].ver <= disk'[p].ver
               /\ ~InPipeline(p) => srcs'[p].ver = 0 /\ \A l \in Loaders : buf'[l][p].ver = 0
               /\ pc'["main"] = "load" => srcs'[p].ver = 0 /\ lived'[p] = 0
  <1>0. /\ srcs[p].ver <= disk[p].ver /\ watched[p] <= disk[p].ver
        /\ \A l \in Loaders : buf[l][p].ver <= disk[p].ver
        /\ ~InPipeline(p) => srcs[p].ver = 0 /\ \A l \in Loaders : buf[l][p].ver = 0
        /\ pc["main"] = "load" => srcs[p].ver = 0 /\ lived[p] = 0
    BY DEF FreshInv, NotAhead
  <1>00. pc["main"] \in {"load", "ok"}
    BY DEF FreshInv, WhoLoads
  <1>1. ASSUME NEW q \in Plugins, NEW there \in BOOLEAN, Edit(q, there) PROVE Goal
    <2>1. /\ disk'[p].ver = IF p = q THEN disk[p].ver + 1 ELSE disk[p].ver
          /\ watched'[p] \in {watched[p], disk'[p].ver}
      BY <1>1 DEF Edit, TypeOK
    <2>2. UNCHANGED <<srcs, lived, pc, buf>>
      BY <1>1 DEF Edit
    <2>3. disk'[p].ver \in Nat /\ disk[p].ver <= disk'[p].ver
      BY <2>1, VersionTypes
    <2>4. srcs[p].ver <= disk'[p].ver /\ watched'[p] <= disk'[p].ver
      BY <1>0, <2>1, <2>3, VersionTypes
    <2>5. \A l \in Loaders : buf[l][p].ver <= disk'[p].ver
      BY <1>0, <2>3, VersionTypes
    <2> QED
      BY <1>0, <2>2, <2>4, <2>5
  <1>2. ASSUME NEW l \in Loaders, ReadFile(l) PROVE Goal
    <2>1. UNCHANGED <<srcs, lived, pc, disk, watched>>
      BY <1>2 DEF ReadFile
    <2>2. \A m \in Loaders : buf'[m][p] \in {buf[m][p], disk[p]}
      BY <1>2, ReadEffect
    <2>3. ~InPipeline(p) => \A m \in Loaders : buf'[m][p] = buf[m][p]
      BY <1>2, ReadEffect DEF InPipeline
    <2>4. \A m \in Loaders : buf'[m][p].ver <= disk[p].ver
      BY <1>0, <2>2, VersionTypes
    <2> QED
      BY <1>0, <2>1, <2>3, <2>4
  <1>3. ASSUME NEW l \in Loaders, AwaitWriteLock(l) PROVE Goal
    BY <1>0, <1>3, LoaderFacts DEF AwaitWriteLock, TypeOK
  <1>4. ASSUME NEW l \in Loaders, Share(l), UNCHANGED <<disk, watched, buf>>, pc'["main"] # "load"
        PROVE  Goal
    BY <1>0, <1>4, ShareEffect
  <1>5. ASSUME NEW l \in Loaders, Swap(l) PROVE Goal
    <2>1. pc["main"] # "load" \/ l # "main"
      BY <1>5 DEF Swap
    <2>2. CASE pc'["main"] # "load"
      BY <1>4, <1>5, <2>2 DEF Swap
    <2>3. CASE pc'["main"] = "load"
      <3>1. pc["main"] = "load" /\ pc[l] = "wait"
        BY <1>5, <2>3, LoaderFacts DEF Swap, After, TypeOK
      <3>2. ~watching /\ l # "main"
        BY <3>1 DEF FreshInv, WhoLoads
      <3> QED
        BY <3>1, <3>2 DEF FreshInv, WhoLoads
    <2> QED
      BY <2>2, <2>3
  <1>6. CASE Publish
    <2>1. pc'["main"] = "ok"
      BY <1>6, LoaderFacts DEF Publish, TypeOK
    <2> QED
      BY <1>4, <1>6, <2>1, LoaderFacts DEF Publish
  <1>7. CASE StartServing
    <2>1. pc'["main"] = "ok" /\ UNCHANGED <<disk, watched, srcs, lived, buf>>
      BY <1>7, LoaderFacts DEF StartServing
    <2> QED
      BY <1>0, <2>1
  <1>8. ASSUME NEW l \in Loaders \ {"main"}, BeginLoad(l), UNCHANGED <<disk, watched, srcs, lived>>
        PROVE  Goal
    <2>1. pc'["main"] = pc["main"]
      BY <1>8, BeginEffect, LoaderFacts
    <2>2. buf'[l][p].ver = 0 /\ \A m \in Loaders \ {l} : buf'[m][p] = buf[m][p]
      BY <1>8, BeginEffect
    <2>3. \A m \in Loaders : buf'[m][p].ver <= disk[p].ver
      BY <1>0, <2>2, VersionTypes
    <2> QED
      BY <1>0, <1>8, <2>1, <2>2, <2>3
  <1>9. CASE Tick
    BY <1>8, <1>9, LoaderFacts DEF Tick
  <1>10. ASSUME NEW a \in Admins, PostReload(a) PROVE Goal
    BY <1>8, <1>10, LoaderFacts DEF PostReload, Ask
  <1>11. ASSUME NEW a \in Admins, Respond(a) PROVE Goal
    BY <1>0, <1>11, LoaderFacts DEF Respond, TypeOK
  <1>12. CASE Aside
    BY <1>0, <1>12 DEF Aside
  <1>13. CASE SendEvent \/ Receive \/ UNCHANGED vars
    BY <1>12, <1>13 DEF SendEvent, Receive, vars, Aside
  <1>14. ASSUME NEW r \in Readers, LockRead(r) \/ UnlockRead(r) PROVE Goal
    BY <1>12, <1>14 DEF LockRead, UnlockRead, Aside
  <1> QED
    BY <1>1, <1>2, <1>3, <1>5, <1>6, <1>7, <1>9, <1>10, <1>11, <1>13, <1>14
       DEF Next, Operator, LoadStep

LEMMA LoadIsNewerStep == TypeOK /\ FreshInv /\ [Next]_vars => LoadIsNewer'
  <1> DEFINE Loading == pc["watcher"] \in {"load", "wait"}
             Newer(p) == Loading /\ HasRead("watcher", p) => buf["watcher"][p].ver >= srcs[p].ver
  <1> SUFFICES ASSUME TypeOK, FreshInv, [Next]_vars, reloads' = 0, NEW p \in Plugins
               PROVE  Newer(p)' /\ lived'[p] = srcs'[p].ver
    BY DEF LoadIsNewer
  <1> USE DEF fileVars, srcVars, loadVars, watchVars, adminVars
  <1>0. reloads = 0
    BY DEF TypeOK, Next, Operator, Edit, LoadStep, ReadFile, AwaitWriteLock, Swap, Publish,
       StartServing, SendEvent, Receive, Tick, PostReload, Ask, Respond, LockRead, UnlockRead, vars
  <1>1. Newer(p) /\ lived[p] = srcs[p].ver
    BY <1>0 DEF FreshInv, LoadIsNewer
  <1>2. ASSUME NEW q \in Plugins, NEW there \in BOOLEAN, Edit(q, there)
        PROVE  Newer(p)' /\ lived'[p] = srcs'[p].ver
    BY <1>1, <1>2 DEF Edit, HasRead
  <1>3. ASSUME NEW l \in Loaders, ReadFile(l) PROVE Newer(p)' /\ lived'[p] = srcs'[p].ver
    <2>1. UNCHANGED <<srcs, lived, pc>>
      BY <1>3 DEF ReadFile
    <2>2. CASE l = "watcher"
      <3>1. CASE p = Pipeline[at[l]]
        <4>1. buf'[l][p] = disk[p] /\ disk[p].ver >= srcs[p].ver
          BY <1>3, <3>1, ReadEffect, VersionTypes DEF FreshInv, NotAhead
        <4> QED
          BY <1>1, <2>1, <2>2, <4>1
      <3>2. CASE p # Pipeline[at[l]]
        BY <1>1, <1>3, <2>1, <2>2, <3>2, ReadEffect
      <3> QED
        BY <3>1, <3>2
    <2>3. CASE l # "watcher"
      <3>1. buf'["watcher"] = buf["watcher"] /\ at'["watcher"] = at["watcher"]
        BY <1>3, <2>3, ReadEffect, LoaderFacts
      <3> QED
        BY <1>1, <2>1, <3>1 DEF HasRead
    <2> QED
      BY <2>2, <2>3
  <1>4. ASSUME NEW l \in Loaders, AwaitWriteLock(l) PROVE Newer(p)' /\ lived'[p] = srcs'[p].ver
    <2>1. UNCHANGED <<srcs, lived, at, buf>> /\ (Loading' => Loading)
      BY <1>4, LoaderFacts DEF AwaitWriteLock, TypeOK
    <2> QED
      BY <1>1, <2>1 DEF HasRead
  <1>5. ASSUME NEW l \in Loaders, Swap(l) \/ (Publish /\ l = "main")
        PROVE  Newer(p)' /\ lived'[p] = srcs'[p].ver
    <2>1. Share(l)
      BY <1>5 DEF Swap, Publish
    <2>2. buf[l][p].ver >= srcs[p].ver
      BY <1>0, <1>5, SharesNewer
    <2>3. lived'[p] = srcs'[p].ver
      BY <1>1, <2>1, <2>2, ShareEffect
    <2>4. ~Loading'
      <3>1. CASE l = "main"
        <4>1. CASE Publish
          <5>1. ~watching
            BY <4>1 DEF Publish, FreshInv, WhoLoads
          <5> QED
            BY <4>1, <5>1, LoaderFacts DEF Publish, FreshInv, WhoLoads, TypeOK
        <4>2. CASE Swap(l)
          BY <3>1, <4>2 DEF Swap, FreshInv, WhoLoads
        <4> QED
          BY <1>5, <4>1, <4>2
      <3>2. CASE l # "main"
        <4>1. l = "watcher" /\ Swap(l)
          BY <1>0, <1>5, <3>2, LoaderFacts DEF Swap, FreshInv, WhoLoads
        <4> QED
          BY <4>1, LoaderFacts DEF Swap, After, TypeOK
      <3> QED
        BY <3>1, <3>2
    <2> QED
      BY <2>3, <2>4
  <1>6. CASE Publish
    BY <1>5, <1>6, LoaderFacts
  <1>7. CASE StartServing
    <2>1. UNCHANGED <<srcs, lived>> /\ ~Loading'
      BY <1>7, LoaderFacts DEF StartServing
    <2> QED
      BY <1>1, <2>1
  <1>8. CASE Tick
    <2>1. UNCHANGED <<srcs, lived>> /\ ~HasRead("watcher", p)'
      BY <1>8, BeginEffect, LoaderFacts DEF Tick
    <2> QED
      BY <1>1, <2>1
  <1>9. ASSUME NEW a \in Admins, PostReload(a) PROVE FALSE
    BY <1>9 DEF PostReload, Ask, TypeOK
  <1>10. ASSUME NEW a \in Admins, Respond(a) PROVE Newer(p)' /\ lived'[p] = srcs'[p].ver
    <2>1. UNCHANGED <<srcs, lived, at, buf>> /\ (Loading' => Loading)
      BY <1>10, LoaderFacts DEF Respond, TypeOK
    <2> QED
      BY <1>1, <2>1 DEF HasRead
  <1>11. CASE Aside
    BY <1>1, <1>11 DEF Aside, HasRead
  <1>12. CASE SendEvent \/ Receive \/ UNCHANGED vars
    BY <1>11, <1>12 DEF SendEvent, Receive, vars, Aside
  <1>13. ASSUME NEW r \in Readers, LockRead(r) \/ UnlockRead(r)
         PROVE  Newer(p)' /\ lived'[p] = srcs'[p].ver
    BY <1>11, <1>13 DEF LockRead, UnlockRead, Aside
  <1> QED
    BY <1>2, <1>3, <1>4, <1>5, <1>6, <1>7, <1>8, <1>9, <1>10, <1>12, <1>13
       DEF Next, Operator, LoadStep

LEMMA FreshInit == Init => FreshInv
  <1> SUFFICES ASSUME Init PROVE FreshInv
    OBVIOUS
  <1>1. WhoLoads
    BY LoaderFacts DEF Init, WhoLoads
  <1>2. NotAhead
    BY DEF Init, NotAhead, Unread
  <1>3. LoadIsNewer
    BY LoaderFacts DEF Init, LoadIsNewer, Unread
  <1> QED
    BY <1>1, <1>2, <1>3 DEF FreshInv

LEMMA FreshCorrect == Spec => [](TypeOK /\ FreshInv)
  <1>1. Init => TypeOK /\ FreshInv
    BY TypeInit, FreshInit
  <1>2. TypeOK /\ FreshInv /\ [Next]_vars => (TypeOK /\ FreshInv)'
    BY TypeStep, WhoLoadsStep, NotAheadStep, LoadIsNewerStep DEF FreshInv
  <1> QED
    BY <1>1, <1>2, PTL DEF Spec

(* The watcher alone never brings an older version of a file back: with    *)
(* any number of files, in any pipeline, edited at any moment of a reload. *)
THEOREM NoRollbackCorrect == Spec => NoRollback
  <1> USE DEF fileVars, srcVars, loadVars, watchVars, adminVars
  <1>1. TypeOK /\ FreshInv /\ [Next]_vars =>
            [reloads = 0 => \A p \in Plugins : srcs'[p].ver >= srcs[p].ver]_srcs
    <2> SUFFICES ASSUME TypeOK, FreshInv, [Next]_vars, srcs' # srcs, reloads = 0, NEW p \in Plugins
                 PROVE  srcs'[p].ver >= srcs[p].ver
      OBVIOUS
    <2>1. PICK l \in Loaders : Swap(l) \/ (Publish /\ l = "main")
      BY LoaderFacts
         DEF Next, Operator, Edit, LoadStep, ReadFile, AwaitWriteLock, StartServing, SendEvent,
             Receive, Tick, PostReload, Respond, LockRead, UnlockRead, vars
    <2>2. srcs' = buf[l]
      BY <2>1 DEF Swap, Publish, Share
    <2> QED
      BY <2>1, <2>2, SharesNewer
  <1> QED
    BY <1>1, FreshCorrect, PTL DEF Spec, NoRollback

-----------------------------------------------------------------------------
(* No edit is lost *)

(* An edit that has never been live is on its way to the watcher. *)
EditInv == \A p \in Plugins : InPipeline(p) /\ lived[p] < watched[p] => OnItsWay(p)

Has(q) == \E i \in DOMAIN q : q[i] = "change"

LEMMA HasAppend ==
    ASSUME NEW q \in Seq(EventKinds), NEW k \in EventKinds
    PROVE  Has(Append(q, k)) <=> Has(q) \/ k = "change"
  <1>1. /\ DOMAIN q = 1..Len(q) /\ Len(q) \in Nat
        /\ DOMAIN Append(q, k) = 1..(Len(q) + 1) /\ Append(q, k)[Len(q) + 1] = k
        /\ \A i \in 1..Len(q) : Append(q, k)[i] = q[i]
    OBVIOUS
  <1>2. 1..(Len(q) + 1) = 1..Len(q) \cup {Len(q) + 1}
    BY <1>1
  <1> QED
    BY <1>1, <1>2 DEF Has

LEMMA HasHead ==
    ASSUME NEW q \in Seq(EventKinds), q # <<>>, Has(q)
    PROVE  Head(q) = "change" \/ Has(Tail(q))
  <1>1. /\ DOMAIN q = 1..Len(q) /\ Len(q) \in Nat /\ Len(q) > 0 /\ Head(q) = q[1]
        /\ Tail(q) \in Seq(EventKinds) /\ Len(Tail(q)) = Len(q) - 1
        /\ DOMAIN Tail(q) = 1..(Len(q) - 1)
        /\ \A i \in 1..(Len(q) - 1) : Tail(q)[i] = q[i + 1]
    OBVIOUS
  <1>2. PICK i \in 1..Len(q) : q[i] = "change"
    BY <1>1 DEF Has
  <1>3. CASE i = 1
    BY <1>1, <1>2, <1>3
  <1>4. CASE i # 1
    <2>1. i - 1 \in 1..(Len(q) - 1) /\ q[(i - 1) + 1] = "change"
      BY <1>1, <1>2, <1>4
    <2>2. Tail(q)[i - 1] = "change"
      BY <1>1, <2>1
    <2> QED
      BY <1>1, <2>1, <2>2 DEF Has
  <1> QED
    BY <1>3, <1>4

(* Queued events are kept by what only adds to them. *)
LEMMA NotifyKeeps ==
    ASSUME TypeOK, NEW k \in EventKinds, Notify(k)
    PROVE  /\ Has(events) => Has(events')
           /\ watching /\ k = "change" => Has(events')
  BY HasAppend DEF Notify, TypeOK

LEMMA OnItsWayHas ==
    ASSUME NEW p
    PROVE  OnItsWay(p) <=>
              \/ Has(events) \/ Has(channel) \/ pending
              \/ pc["watcher"] = "load" /\ ~HasRead("watcher", p)
              \/ pc["watcher"] \in {"load", "wait"} /\ buf["watcher"][p].ver >= watched[p]
  BY DEF OnItsWay, Has

LEMMA EditStep == TypeOK /\ FreshInv /\ EditInv /\ [Next]_vars => EditInv'
  <1> SUFFICES ASSUME TypeOK, FreshInv, EditInv, [Next]_vars,
                      NEW p \in Plugins, InPipeline(p), lived'[p] < watched'[p]
               PROVE  OnItsWay(p)'
    BY DEF EditInv, InPipeline
  <1> USE DEF fileVars, srcVars, loadVars, watchVars, adminVars
  <1> DEFINE Way == \/ Has(events) \/ Has(channel) \/ pending
                    \/ pc["watcher"] = "load" /\ ~HasRead("watcher", p)
                    \/ pc["watcher"] \in {"load", "wait"} /\ buf["watcher"][p].ver >= watched[p]
  <1>0. (OnItsWay(p) <=> Way) /\ (OnItsWay(p)' <=> Way')
    BY OnItsWayHas DEF OnItsWay, Has
  <1> SUFFICES Way'
    BY <1>0
  <1>00. lived[p] < watched[p] => Way
    BY <1>0 DEF EditInv
  <1>1. ASSUME NEW q \in Plugins, NEW there \in BOOLEAN, Edit(q, there) PROVE Way'
    <2>1. Notify("change") /\ "change" \in EventKinds /\ UNCHANGED <<lived, pc, at, buf, channel, pending>>
      BY <1>1 DEF Edit, EventKinds
    <2>2. CASE watching
      BY <2>1, <2>2, NotifyKeeps
    <2>3. CASE ~watching
      <3>1. watched' = watched /\ events' = events
        BY <1>1, <2>1, <2>3 DEF Edit, Notify
      <3> QED
        BY <1>00, <2>1, <3>1 DEF HasRead
    <2> QED
      BY <2>2, <2>3
  <1>2. ASSUME NEW l \in Loaders, ReadFile(l) PROVE Way'
    <2>1. UNCHANGED <<lived, pc, channel, pending, watched>>
      BY <1>2 DEF ReadFile
    <2>2. Has(events) => Has(events')
      <3>1. Notify("other") \/ events' = events
        BY <1>2 DEF ReadFile
      <3> QED
        BY <3>1, NotifyKeeps DEF EventKinds
    <2>3. Way
      BY <1>00, <2>1
    <2>4. CASE l = "watcher"
      <3>1. p # Pipeline[at[l]] => buf'[l][p] = buf[l][p] /\ (HasRead(l, p)' <=> HasRead(l, p))
        BY <1>2, ReadEffect
      <3>2. CASE p # Pipeline[at[l]]
        BY <2>1, <2>2, <2>3, <2>4, <3>1, <3>2
      <3>3. CASE p = Pipeline[at[l]]
        <4>1. buf'[l][p].ver >= watched[p] /\ pc[l] = "load"
          <5>1. buf'[l][p] = disk[p]
            BY <1>2, <3>3, ReadEffect
          <5>2. pc[l] = "load"
            BY <1>2 DEF ReadFile
          <5> QED
            BY <5>1, <5>2, VersionTypes DEF FreshInv, NotAhead
        <4> QED
          BY <2>1, <2>4, <4>1
      <3> QED
        BY <3>2, <3>3
    <2>5. CASE l # "watcher"
      <3>1. buf'["watcher"] = buf["watcher"] /\ at'["watcher"] = at["watcher"]
        BY <1>2, <2>5, ReadEffect, LoaderFacts
      <3> QED
        BY <2>1, <2>2, <2>3, <3>1 DEF HasRead
    <2> QED
      BY <2>4, <2>5
  <1>3. ASSUME NEW l \in Loaders, AwaitWriteLock(l) PROVE Way'
    <2>1. UNCHANGED <<lived, at, buf, watched, events, channel, pending>>
      BY <1>3 DEF AwaitWriteLock
    <2>2. Way
      BY <1>00, <2>1
    <2>3. CASE l = "watcher"
      <3>1. HasRead(l, p) /\ pc'[l] = "wait"
        BY <1>3, AllRead DEF AwaitWriteLock, TypeOK
      <3> QED
        BY <2>1, <2>2, <2>3, <3>1
    <2>4. CASE l # "watcher"
      <3>1. pc'["watcher"] = pc["watcher"]
        BY <1>3, <2>4, LoaderFacts DEF AwaitWriteLock, TypeOK
      <3> QED
        BY <2>1, <2>2, <3>1 DEF HasRead
    <2> QED
      BY <2>3, <2>4
  <1>4. ASSUME NEW l \in Loaders, Share(l), UNCHANGED <<at, buf, watched, events, channel, pending>>,
               l # "watcher" => pc'["watcher"] = pc["watcher"],
               l = "watcher" => pc[l] = "wait"
        PROVE  Way'
    <2>1. lived'[p] >= lived[p] /\ lived'[p] >= buf[l][p].ver
      BY <1>4, ShareEffect
    <2>2. lived'[p] \in Nat
      BY <1>4, ShareType
    <2>3. lived[p] < watched[p] /\ buf[l][p].ver < watched[p]
      BY <1>4, <2>1, <2>2, VersionTypes
    <2>4. Way
      BY <1>00, <2>3
    <2>5. CASE l = "watcher"
      <3>1. ~(buf["watcher"][p].ver >= watched[p])
        BY <2>3, <2>5, VersionTypes
      <3>2. Has(events) \/ Has(channel) \/ pending
        BY <1>4, <2>4, <2>5, <3>1
      <3> QED
        BY <1>4, <3>2
    <2>6. CASE l # "watcher"
      BY <1>4, <2>4, <2>6 DEF HasRead
    <2> QED
      BY <2>5, <2>6
  <1>5. ASSUME NEW l \in Loaders, Swap(l) PROVE Way'
    <2>1. l # "watcher" => pc'["watcher"] = pc["watcher"]
      BY <1>5, LoaderFacts DEF Swap, TypeOK
    <2> QED
      BY <1>4, <1>5, <2>1 DEF Swap
  <1>6. CASE Publish
    <2>1. pc'["watcher"] = pc["watcher"]
      BY <1>6, LoaderFacts DEF Publish, TypeOK
    <2> QED
      BY <1>4, <1>6, <2>1, LoaderFacts DEF Publish
  <1>7. CASE StartServing
    <2>1. UNCHANGED <<lived, watched, events, channel, pending>> /\ pc["watcher"] = "off"
      BY <1>7, LoaderFacts DEF StartServing, FreshInv, WhoLoads
    <2>2. Has(events) \/ Has(channel) \/ pending
      BY <1>00, <2>1
    <2> QED
      BY <2>1, <2>2
  <1>8. CASE SendEvent
    <2>1. UNCHANGED <<lived, watched, pc, at, buf, pending>>
      BY <1>8 DEF SendEvent
    <2>2. /\ events \in Seq(EventKinds) /\ channel \in Seq(EventKinds) /\ events # <<>>
          /\ Head(events) \in EventKinds
          /\ channel' = Append(channel, Head(events)) /\ events' = Tail(events)
      BY <1>8 DEF SendEvent, TypeOK
    <2>3. Has(events) \/ Has(channel) => Has(events') \/ Has(channel')
      BY <2>2, HasAppend, HasHead
    <2> QED
      BY <1>00, <2>1, <2>3 DEF HasRead
  <1>9. CASE Receive
    <2>1. UNCHANGED <<lived, watched, pc, at, buf, events>>
      BY <1>9 DEF Receive
    <2>2. /\ channel \in Seq(EventKinds) /\ channel # <<>> /\ channel' = Tail(channel)
          /\ pending' = (pending \/ Wakes(Head(channel)))
      BY <1>9 DEF Receive, TypeOK
    <2>3. Has(channel) => Has(channel') \/ pending'
      BY <2>2, HasHead DEF Wakes
    <2>4. pending => pending'
      BY <2>2
    <2> QED
      BY <1>00, <2>1, <2>3, <2>4 DEF HasRead
  <1>10. CASE Tick
    BY <1>10, BeginEffect, LoaderFacts DEF Tick
  <1>11. ASSUME NEW a \in Admins, PostReload(a) PROVE Way'
    <2>1. /\ UNCHANGED <<lived, watched, events, channel, pending>>
          /\ BeginLoad(a) /\ a \in Loaders /\ a # "watcher"
      BY <1>11, LoaderFacts DEF PostReload, Ask
    <2>2. /\ pc'["watcher"] = pc["watcher"] /\ at'["watcher"] = at["watcher"]
          /\ buf'["watcher"] = buf["watcher"]
      BY <2>1, BeginEffect, LoaderFacts
    <2> QED
      BY <1>00, <2>1, <2>2 DEF HasRead
  <1>12. ASSUME NEW a \in Admins, Respond(a) PROVE Way'
    <2>1. UNCHANGED <<lived, watched, at, buf, events, channel, pending>> /\ pc'["watcher"] = pc["watcher"]
      BY <1>12, LoaderFacts DEF Respond, TypeOK
    <2> QED
      BY <1>00, <2>1 DEF HasRead
  <1>13. ASSUME NEW r \in Readers, LockRead(r) \/ UnlockRead(r) PROVE Way'
    BY <1>00, <1>13 DEF LockRead, UnlockRead, HasRead
  <1>14. CASE UNCHANGED vars
    BY <1>00, <1>14 DEF vars, HasRead
  <1> QED
    BY <1>1, <1>2, <1>3, <1>5, <1>6, <1>7, <1>8, <1>9, <1>10, <1>11, <1>12, <1>13, <1>14
       DEF Next, Operator, LoadStep

(* Every edit under watch of a file of the pipeline that is not live yet   *)
(* still has an event queued, a note taken or a load that will see it,     *)
(* for every capacity of the channel and any number of admin reloads.      *)
THEOREM NoEditLostCorrect == Spec => []NoEditLost
  <1>1. Init => EditInv
    BY DEF Init, EditInv
  <1>2. TypeOK /\ FreshInv /\ EditInv => NoEditLost
    <2> SUFFICES ASSUME TypeOK, FreshInv, EditInv, NEW i \in DOMAIN Pipeline,
                        \/ lived[Pipeline[i]] < watched[Pipeline[i]]
                        \/ reloads = 0 /\ srcs[Pipeline[i]].ver < watched[Pipeline[i]]
                 PROVE  OnItsWay(Pipeline[i])
      BY DEF NoEditLost
    <2>1. Pipeline[i] \in Plugins /\ InPipeline(Pipeline[i])
      BY PipelineType DEF InPipeline
    <2>2. lived[Pipeline[i]] < watched[Pipeline[i]]
      BY <2>1 DEF FreshInv, LoadIsNewer
    <2> QED
      BY <2>1, <2>2 DEF EditInv
  <1> QED
    BY <1>1, <1>2, FreshCorrect, EditStep, PTL DEF Spec

-----------------------------------------------------------------------------
(* What POST /reload answers *)

(* What an admin connection asked for is on the disk, in the map it builds *)
(* once it has read the file, and live once it answers.                    *)
AskedInv ==
    \A a \in Admins, p \in Plugins :
        /\ asked[a][p] <= disk[p].ver
        /\ pc[a] \in {"load", "wait"} /\ HasRead(a, p) => buf[a][p].ver >= asked[a][p]
        /\ pc[a] = "ok" /\ InPipeline(p) => lived[p] >= asked[a][p]

LEMMA AskedStep == TypeOK /\ FreshInv /\ AskedInv /\ [Next]_vars => AskedInv'
  <1> DEFINE Asked(a, p) ==
               /\ asked[a][p] <= disk[p].ver
               /\ pc[a] \in {"load", "wait"} /\ HasRead(a, p) => buf[a][p].ver >= asked[a][p]
               /\ pc[a] = "ok" /\ InPipeline(p) => lived[p] >= asked[a][p]
  <1> SUFFICES ASSUME TypeOK, FreshInv, AskedInv, [Next]_vars, NEW a \in Admins, NEW p \in Plugins
               PROVE  Asked(a, p)'
    BY DEF AskedInv
  <1> USE DEF fileVars, srcVars, loadVars, watchVars, adminVars
  <1>0. Asked(a, p) /\ a \in Loaders /\ a # "main" /\ a # "watcher" /\ asked[a][p] \in Nat
    BY LoaderFacts DEF AskedInv, TypeOK
  <1>00. InPipeline(p)' <=> InPipeline(p)
    BY DEF InPipeline
  <1>1. ASSUME NEW q \in Plugins, NEW there \in BOOLEAN, Edit(q, there) PROVE Asked(a, p)'
    <2>1. disk'[p].ver = IF p = q THEN disk[p].ver + 1 ELSE disk[p].ver
      BY <1>1 DEF Edit, TypeOK
    <2>2. UNCHANGED <<lived, pc, at, buf, asked>>
      BY <1>1 DEF Edit
    <2>3. asked[a][p] <= disk'[p].ver
      BY <1>0, <2>1, VersionTypes
    <2> QED
      BY <1>0, <1>00, <2>2, <2>3 DEF HasRead
  <1>2. ASSUME NEW l \in Loaders, ReadFile(l) PROVE Asked(a, p)'
    <2>1. UNCHANGED <<lived, pc, disk, asked>>
      BY <1>2 DEF ReadFile
    <2>2. HasRead(a, p)' => (HasRead(a, p) /\ buf'[a][p] = buf[a][p]) \/ buf'[a][p] = disk[p]
      <3>1. CASE l = a
        BY <1>2, <3>1, ReadEffect
      <3>2. CASE l # a
        BY <1>0, <1>2, <3>2, ReadEffect DEF HasRead
      <3> QED
        BY <3>1, <3>2
    <2> QED
      BY <1>0, <1>00, <2>1, <2>2, VersionTypes
  <1>3. ASSUME NEW l \in Loaders, AwaitWriteLock(l) PROVE Asked(a, p)'
    <2>1. UNCHANGED <<lived, disk, at, buf, asked>>
      BY <1>3 DEF AwaitWriteLock
    <2>2. pc'[a] = pc[a] \/ (pc[a] = "load" /\ pc'[a] = "wait")
      BY <1>0, <1>3 DEF AwaitWriteLock, TypeOK
    <2> QED
      BY <1>0, <1>00, <2>1, <2>2 DEF HasRead
  <1>4. ASSUME NEW l \in Loaders, Share(l), UNCHANGED <<disk, at, buf, asked>>,
               l # a => pc'[a] = pc[a],
               l = a => pc[a] = "wait" /\ pc'[a] = "ok"
        PROVE  Asked(a, p)'
    <2>1. lived'[p] >= lived[p] /\ lived'[p] >= buf[l][p].ver /\ lived'[p] \in Nat
      BY <1>4, ShareEffect, ShareType
    <2>2. CASE l = a
      <3>1. InPipeline(p) => HasRead(a, p)
        BY <1>0, <1>4, <2>2, AllRead DEF FreshInv, WhoLoads
      <3> QED
        BY <1>0, <1>00, <1>4, <2>1, <2>2, <3>1, VersionTypes
    <2>3. CASE l # a
      <3>1. pc[a] = "ok" /\ InPipeline(p) => lived'[p] >= asked[a][p]
        BY <1>0, <2>1, VersionTypes
      <3> QED
        BY <1>0, <1>00, <1>4, <2>3, <3>1 DEF HasRead
    <2> QED
      BY <2>2, <2>3
  <1>5. ASSUME NEW l \in Loaders, Swap(l) PROVE Asked(a, p)'
    <2>1. l # a => pc'[a] = pc[a]
      BY <1>0, <1>5 DEF Swap, TypeOK
    <2>2. l = a => pc[a] = "wait" /\ pc'[a] = "ok"
      BY <1>0, <1>5 DEF Swap, After, TypeOK
    <2> QED
      BY <1>4, <1>5, <2>1, <2>2 DEF Swap
  <1>6. CASE Publish
    <2>1. "main" # a /\ pc'[a] = pc[a]
      BY <1>0, <1>6, LoaderFacts DEF Publish, TypeOK
    <2> QED
      BY <1>4, <1>6, <2>1, LoaderFacts DEF Publish
  <1>7. CASE StartServing
    BY <1>0, <1>00, <1>7 DEF StartServing
  <1>8. ASSUME NEW l \in Loaders, l # a, BeginLoad(l), UNCHANGED <<disk, lived>>,
               asked'[a] = asked[a]
        PROVE  Asked(a, p)'
    <2>1. pc'[a] = pc[a] /\ at'[a] = at[a] /\ buf'[a] = buf[a]
      BY <1>0, <1>8, BeginEffect
    <2> QED
      BY <1>0, <1>00, <1>8, <2>1 DEF HasRead
  <1>9. CASE Tick
    BY <1>0, <1>8, <1>9, LoaderFacts DEF Tick
  <1>10. ASSUME NEW b \in Admins, PostReload(b) PROVE Asked(a, p)'
    <2>1. BeginLoad(b) /\ UNCHANGED <<disk, lived>> /\ b \in Loaders
      BY <1>10, LoaderFacts DEF PostReload
    <2>2. CASE b # a
      <3>1. asked'[a] = asked[a]
        BY <1>10, <2>2 DEF PostReload, Ask, TypeOK
      <3> QED
        BY <1>8, <2>1, <2>2, <3>1
    <2>3. CASE b = a
      <3>1. asked'[a][p] = disk[p].ver
        BY <1>10, <2>3 DEF PostReload, Ask, TypeOK
      <3>2. pc'[a] = "load" /\ ~HasRead(a, p)'
        BY <2>1, <2>3, BeginEffect
      <3> QED
        BY <2>1, <3>1, <3>2, VersionTypes
    <2> QED
      BY <2>2, <2>3
  <1>11. ASSUME NEW b \in Admins, Respond(b) PROVE Asked(a, p)'
    <2>1. UNCHANGED <<disk, lived, at, buf, asked>> /\ pc'[a] \in {pc[a], "idle"}
      BY <1>0, <1>11 DEF Respond, TypeOK
    <2> QED
      BY <1>0, <1>00, <2>1 DEF HasRead
  <1>12. CASE Aside /\ asked' = asked
    BY <1>0, <1>00, <1>12 DEF Aside, HasRead
  <1>13. CASE SendEvent \/ Receive \/ UNCHANGED vars
    BY <1>12, <1>13 DEF SendEvent, Receive, vars, Aside
  <1>14. ASSUME NEW r \in Readers, LockRead(r) \/ UnlockRead(r) PROVE Asked(a, p)'
    BY <1>12, <1>14 DEF LockRead, UnlockRead, Aside
  <1> QED
    BY <1>1, <1>2, <1>3, <1>5, <1>6, <1>7, <1>9, <1>10, <1>11, <1>13, <1>14
       DEF Next, Operator, LoadStep

(* POST /reload answers only once what it was asked to load has been live, *)
(* for any number of admin connections reloading beside the watcher.       *)
THEOREM AnsweredIsLiveCorrect == Spec => []AnsweredIsLive
  <1>1. Init => AskedInv
    <2> SUFFICES ASSUME Init PROVE AskedInv
      OBVIOUS
    <2>1. \A a \in Admins : pc[a] = "off"
      BY LoaderFacts DEF Init
    <2>2. \A a \in Admins, p \in Plugins : asked[a][p] = 0 /\ disk[p].ver = 0
      BY DEF Init
    <2> QED
      BY <2>1, <2>2 DEF AskedInv
  <1>2. AskedInv => AnsweredIsLive
    <2> SUFFICES ASSUME AskedInv, NEW a \in Admins, pc[a] = "ok", NEW i \in DOMAIN Pipeline
                 PROVE  lived[Pipeline[i]] >= asked[a][Pipeline[i]]
      BY DEF AnsweredIsLive
    <2>1. Pipeline[i] \in Plugins /\ InPipeline(Pipeline[i])
      BY PipelineType DEF InPipeline
    <2> QED
      BY <2>1 DEF AskedInv
  <1> QED
    BY <1>1, <1>2, FreshCorrect, AskedStep, PTL DEF Spec

-----------------------------------------------------------------------------
(* Reloads are caused by edits *)

Places(q) == {i \in DOMAIN q : q[i] = "change"}

One(k) == IF k = "change" THEN 1 ELSE 0

LEMMA ChangesType ==
    ASSUME NEW q \in Seq(EventKinds)
    PROVE  IsFiniteSet(Places(q)) /\ Changes(q) \in Nat /\ Changes(q) = Cardinality(Places(q))
  <1>1. DOMAIN q = 1..Len(q) /\ Len(q) \in Nat
    OBVIOUS
  <1>2. IsFiniteSet(1..Len(q)) /\ Places(q) \in SUBSET (1..Len(q))
    BY <1>1, FS_Interval DEF Places
  <1>3. IsFiniteSet(Places(q))
    BY <1>2, FS_Subset
  <1> QED
    BY <1>3, FS_CardinalityType DEF Changes, Places

LEMMA OneType ==
    /\ One("change") = 1
    /\ \A k : (k # "change" => One(k) = 0) /\ One(k) \in Nat
  BY DEF One

LEMMA ChangesAppend ==
    ASSUME NEW q \in Seq(EventKinds), NEW k \in EventKinds
    PROVE  Changes(Append(q, k)) = Changes(q) + One(k)
  <1>1. /\ DOMAIN q = 1..Len(q) /\ Len(q) \in Nat /\ Append(q, k) \in Seq(EventKinds)
        /\ DOMAIN Append(q, k) = 1..(Len(q) + 1) /\ Append(q, k)[Len(q) + 1] = k
        /\ \A i \in 1..Len(q) : Append(q, k)[i] = q[i]
    OBVIOUS
  <1>2. 1..(Len(q) + 1) = 1..Len(q) \cup {Len(q) + 1} /\ Len(q) + 1 \notin 1..Len(q)
    BY <1>1
  <1>3. Places(Append(q, k)) = IF k = "change" THEN Places(q) \cup {Len(q) + 1} ELSE Places(q)
    BY <1>1, <1>2 DEF Places
  <1>4. Len(q) + 1 \notin Places(q)
    BY <1>1, <1>2 DEF Places
  <1>5. /\ IsFiniteSet(Places(q)) /\ Changes(q) = Cardinality(Places(q))
        /\ Changes(Append(q, k)) = Cardinality(Places(Append(q, k)))
        /\ Changes(q) \in Nat
    BY <1>1, ChangesType
  <1>6. Cardinality(Places(q) \cup {Len(q) + 1}) = Cardinality(Places(q)) + 1
    BY <1>4, <1>5, FS_AddElement
  <1>7. CASE k = "change"
    BY <1>3, <1>5, <1>6, <1>7 DEF One
  <1>8. CASE k # "change"
    BY <1>3, <1>5, <1>8 DEF One
  <1> QED
    BY <1>7, <1>8

LEMMA ChangesTail ==
    ASSUME NEW q \in Seq(EventKinds), q # <<>>
    PROVE  Changes(q) = Changes(Tail(q)) + One(Head(q))
  <1>1. /\ DOMAIN q = 1..Len(q) /\ Len(q) \in Nat /\ Len(q) > 0 /\ Head(q) = q[1]
        /\ Tail(q) \in Seq(EventKinds)
        /\ DOMAIN Tail(q) = 1..(Len(q) - 1)
        /\ \A i \in 1..(Len(q) - 1) : Tail(q)[i] = q[i + 1]
    OBVIOUS
  <1> DEFINE f == [i \in Places(Tail(q)) |-> i + 1]
             R == Places(q) \ {1}
  <1>2. \A i \in Places(Tail(q)) : i \in Int /\ i + 1 \in R
    BY <1>1 DEF Places
  <1>3. \A j \in R : j \in Int /\ j - 1 \in Places(Tail(q)) /\ (j - 1) + 1 = j
    <2> SUFFICES ASSUME NEW j \in R PROVE j \in Int /\ j - 1 \in Places(Tail(q)) /\ (j - 1) + 1 = j
      OBVIOUS
    <2>1. j \in 2..Len(q) /\ q[j] = "change"
      BY <1>1 DEF Places
    <2>2. j - 1 \in 1..(Len(q) - 1) /\ (j - 1) + 1 = j
      BY <1>1, <2>1
    <2>3. Tail(q)[j - 1] = q[(j - 1) + 1]
      BY <1>1, <2>2
    <2>4. Tail(q)[j - 1] = "change"
      BY <2>1, <2>2, <2>3
    <2> QED
      BY <1>1, <2>1, <2>2, <2>4 DEF Places
  <1> HIDE DEF R
  <1>4. f \in [Places(Tail(q)) -> R]
    BY <1>2
  <1>5. f \in Injection(Places(Tail(q)), R)
    BY <1>2, <1>4 DEF Injection, IsInjective
  <1>6. f \in Surjection(Places(Tail(q)), R)
    BY <1>3, <1>4 DEF Surjection
  <1>7. Cardinality(R) = Cardinality(Places(Tail(q)))
    <2>1. ExistsBijection(Places(Tail(q)), R)
      BY <1>5, <1>6 DEF ExistsBijection, Bijection
    <2> QED
      BY <1>1, <2>1, ChangesType, FS_Bijection
  <1>8. 1 \in Places(q) <=> Head(q) = "change"
    BY <1>1 DEF Places
  <1>a. /\ IsFiniteSet(Places(q)) /\ Changes(q) = Cardinality(Places(q))
        /\ Changes(q) \in Nat /\ Changes(Tail(q)) \in Nat
        /\ Changes(Tail(q)) = Cardinality(Places(Tail(q)))
    BY <1>1, ChangesType
  <1>9. CASE Head(q) = "change"
    <2>1. Cardinality(R) = Cardinality(Places(q)) - 1
      BY <1>8, <1>9, <1>a, FS_RemoveElement DEF R
    <2>2. One(Head(q)) = 1
      BY <1>9 DEF One
    <2> QED
      BY <1>7, <1>a, <2>1, <2>2
  <1>10. CASE Head(q) # "change"
    <2>1. R = Places(q)
      BY <1>8, <1>10 DEF R
    <2>2. One(Head(q)) = 0
      BY <1>10 DEF One
    <2> QED
      BY <1>7, <1>a, <2>1, <2>2
  <1> QED
    BY <1>9, <1>10

(* Each action but an edit, on what can cause a reload. *)
LEMMA CausesStep ==
    ASSUME TypeOK, Next, edits' = edits
    PROVE  Causes' <= Causes /\ (Tick => Causes' < Causes)
  <1> USE DEF fileVars, srcVars, loadVars, watchVars, adminVars
  <1> DEFINE P == IF pending THEN 1 ELSE 0
  <1>0. /\ events \in Seq(EventKinds) /\ channel \in Seq(EventKinds)
        /\ Changes(events) \in Nat /\ Changes(channel) \in Nat
        /\ Causes = Changes(events) + Changes(channel) + P
        /\ Causes' = Changes(events') + Changes(channel') + P'
    BY ChangesType DEF TypeOK, Causes, Changes
  <1>1. Tick => Causes' < Causes
    BY <1>0 DEF Tick
  <1> SUFFICES Causes' <= Causes
    BY <1>1
  <1>2. ASSUME UNCHANGED <<events, channel, pending>> PROVE Causes' <= Causes
    BY <1>0, <1>2
  <1>3. ASSUME NEW p \in Plugins, NEW there \in BOOLEAN, Edit(p, there) PROVE FALSE
    BY <1>3 DEF Edit, TypeOK
  <1>4. ASSUME NEW l \in Loaders, ReadFile(l) PROVE Causes' <= Causes
    <2>1. UNCHANGED <<channel, pending>> /\ (Notify("other") \/ events' = events)
      BY <1>4 DEF ReadFile
    <2>2. Changes(events') = Changes(events)
      <3>1. events' = events \/ events' = Append(events, "other")
        BY <2>1 DEF Notify
      <3>2. Changes(Append(events, "other")) = Changes(events) + One("other")
        BY <1>0, ChangesAppend DEF EventKinds
      <3>3. One("other") = 0
        BY DEF One
      <3>4. Changes(Append(events, "other")) = Changes(events)
        <4>1. Changes(events) \in Nat
          BY <1>0
        <4> QED
          BY <3>2, <3>3, <4>1
      <3>5. CASE events' = events
        BY <3>5
      <3>6. CASE events' = Append(events, "other")
        BY <3>4, <3>6
      <3> QED
        BY <3>1, <3>5, <3>6
    <2> QED
      BY <1>0, <2>1, <2>2
  <1>5. ASSUME NEW l \in Loaders, AwaitWriteLock(l) \/ Swap(l) PROVE Causes' <= Causes
    BY <1>2, <1>5 DEF AwaitWriteLock, Swap
  <1>6. CASE Publish \/ StartServing
    BY <1>2, <1>6 DEF Publish, StartServing
  <1>7. CASE SendEvent
    <2>1. /\ events # <<>> /\ Head(events) \in EventKinds
          /\ channel' = Append(channel, Head(events)) /\ events' = Tail(events) /\ pending' = pending
      BY <1>0, <1>7 DEF SendEvent
    <2>2. Changes(channel') = Changes(channel) + One(Head(events))
      BY <1>0, <2>1, ChangesAppend
    <2>3. Changes(events) = Changes(events') + One(Head(events))
      BY <1>0, <2>1, ChangesTail
    <2>4. Changes(events') \in Nat /\ One(Head(events)) \in Nat
      <3>1. Tail(events) \in Seq(EventKinds)
        BY <1>0, <2>1
      <3> QED
        BY <2>1, <3>1, ChangesType, OneType
    <2> QED
      BY <1>0, <2>1, <2>2, <2>3, <2>4
  <1>8. CASE Receive
    <2>1. /\ channel # <<>> /\ channel' = Tail(channel) /\ events' = events
          /\ pending' = (pending \/ Wakes(Head(channel)))
      BY <1>8 DEF Receive
    <2>2. Changes(channel) = Changes(channel') + One(Head(channel))
      BY <1>0, <2>1, ChangesTail
    <2>3. P' <= P + One(Head(channel))
      <3>1. CASE Head(channel) = "change"
        <4>1. One(Head(channel)) = 1
          BY <3>1, OneType
        <4> QED
          BY <4>1
      <3>2. CASE Head(channel) # "change"
        <4>1. pending' = pending
          BY <2>1, <3>2 DEF Wakes, TypeOK
        <4>2. One(Head(channel)) = 0
          BY <3>2, OneType
        <4> QED
          BY <4>1, <4>2
      <3> QED
        BY <3>1, <3>2
    <2>4. Changes(channel') \in Nat /\ One(Head(channel)) \in Nat
      <3>1. Tail(channel) \in Seq(EventKinds)
        BY <1>0, <2>1
      <3> QED
        BY <2>1, <3>1, ChangesType, OneType
    <2> QED
      BY <1>0, <2>1, <2>2, <2>3, <2>4
  <1>9. CASE Tick
    BY <1>0, <1>9 DEF Tick
  <1>10. ASSUME NEW a \in Admins, PostReload(a) \/ Respond(a) PROVE Causes' <= Causes
    BY <1>2, <1>10 DEF PostReload, Ask, Respond
  <1>11. ASSUME NEW r \in Readers, LockRead(r) \/ UnlockRead(r) PROVE Causes' <= Causes
    BY <1>2, <1>11 DEF LockRead, UnlockRead
  <1> QED
    BY <1>3, <1>4, <1>5, <1>6, <1>7, <1>8, <1>9, <1>10, <1>11 DEF Next, Operator, LoadStep

(* The watcher reloads at most once per edit, for every pipeline, every    *)
(* capacity of the channel and any number of admin reloads: the events     *)
(* that its own reads cause come to nothing.                               *)
THEOREM ReloadsAreCausedCorrect == Spec => ReloadsAreCaused
  <1>1. TypeOK /\ [Next]_vars =>
            [edits' = edits => Causes' <= Causes /\ (Tick => Causes' < Causes)]_vars
    BY CausesStep
  <1> QED
    BY <1>1, TypeCorrect, PTL DEF Spec, ReloadsAreCaused
=============================================================================
