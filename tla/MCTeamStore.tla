---------------------------- MODULE MCTeamStore ----------------------------
(* TeamStore on two teams, one of them yet to be created. *)
EXTENDS TeamStore

OneLimitEach == {[rpm |-> 2, tpm |-> Unset], [rpm |-> Unset, tpm |-> 2]}
=============================================================================
