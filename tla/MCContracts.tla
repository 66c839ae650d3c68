---------------------------- MODULE MCContracts -----------------------------
(* Small instances of Contracts. *)
EXTENDS Contracts

CONSTANTS c1, c2
=============================================================================
