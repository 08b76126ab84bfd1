------------------------------ MODULE MCTestLock ------------------------------
(***************************************************************************)
(* Finite instances of TestLock.                                           *)
(***************************************************************************)
EXTENDS TestLock, TLC
===============================================================================
