---------------------------- MODULE MCMemoryStore ----------------------------
(* Finite instances of MemoryStore. *)
EXTENDS MemoryStore, TLC
=============================================================================
