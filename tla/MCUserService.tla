---------------------------- MODULE MCUserService ----------------------------
(* Finite instances of UserService. *)
EXTENDS UserService, TLC

\* Every token was issued when its user had every role.
EveryRole == {Roles}
=============================================================================
