----------------------------- MODULE MCBalancer -----------------------------
(* Small instances of Balancer for TLC. *)
EXTENDS Balancer

MCHash == [k \in Keys |-> IF k = "k1" THEN 3 ELSE 4]

=============================================================================
