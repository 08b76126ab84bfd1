-------------------------- MODULE MCSampleService --------------------------
(***************************************************************************)
(* A finite instance of SampleService: a page of one row where the code's  *)
(* page has 50, so that a table of two rows overflows it, and a pool of    *)
(* two connections that UserService can use up.                            *)
(***************************************************************************)
EXTENDS SampleService
=============================================================================
