-------------------------- MODULE MCShippedPlugins --------------------------
(* Instances of ShippedPlugins for TLC. *)
EXTENDS ShippedPlugins

All == {Pipeline[i] : i \in 1..5}

(* No reload: the plugins as shipped. *)
AsShipped == {All}

(* Everything, one plugin missing, one plugin left, nothing. *)
SomeMissing == {All, All \ {"auth"}, All \ {"authz"}, All \ {"transform"}, {"transform"}, {"authz"}, {}}
=============================================================================
