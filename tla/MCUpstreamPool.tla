--------------------------- MODULE MCUpstreamPool ---------------------------
(* Small instances of UpstreamPool for TLC. *)
EXTENDS UpstreamPool

MCHash == [k \in Keys |-> 3]

=============================================================================
