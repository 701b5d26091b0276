-------------------------- MODULE MCThreadRegistry --------------------------
(* Small registries for TLC. *)
EXTENDS ThreadRegistry, TLC

=============================================================================
