------------------------- MODULE MCRequestPipeline --------------------------
(***************************************************************************)
(* Small instances of RequestPipeline for TLC: a pipeline of a plugin that *)
(* guards requests and one that routes them.                               *)
(***************************************************************************)
EXTENDS RequestPipeline

MCPlugins == {"auth", "transform"}
MCPipeline == <<"auth", "transform">>

Source(defs) == [there |-> TRUE, ok |-> TRUE, defs |-> defs]
Missing == [there |-> FALSE, ok |-> FALSE, defs |-> {}]
Broken(defs) == [there |-> TRUE, ok |-> FALSE, defs |-> defs]

Sources(auth, transform) == [p \in MCPlugins |-> IF p = "auth" THEN auth ELSE transform]

(* The plugins as shipped; the guard removed, broken half-way or emptied;  *)
(* the router joining the guards.                                          *)
Shipped == Sources(Source({"on_request"}), Source({"on_route"}))
NoGuard == Sources(Missing, Source({"on_request", "on_route"}))
BrokenGuard == Sources(Broken({"on_request"}), Source({"on_route"}))
EmptyGuard == Sources(Source({}), Source({"on_request"}))

OneVersion == {Sources(Source({"on_request"}), Source({"on_route", "on_response"}))}
AllVersions == {Shipped, NoGuard, BrokenGuard, EmptyGuard}

(* The guard as shipped, and removed. *)
GuardRemoved == {Shipped, Sources(Missing, Source({"on_route"}))}

=============================================================================
