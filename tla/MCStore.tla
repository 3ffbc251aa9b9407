------------------------------ MODULE MCStore ------------------------------
(* The in-process Store on a small instance: an expired, a live and a      *)
(* permanent entry can stand under each of two keys.                       *)
EXTENDS MemoryStore

MCTtls == {1, Never}
=============================================================================
