------------------------------ MODULE MCServer ------------------------------
(* Small instances of Server for TLC. *)
EXTENDS Server

MCKeyOf == [x \in Certs |-> x + 10]

=============================================================================
