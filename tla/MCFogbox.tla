------------------------------ MODULE MCFogbox ------------------------------
(* TLC instances of Fogbox. *)
EXTENDS Fogbox

(* Every name is used at one router. *)
OwnNames == {<<"r1", "a">>, <<"r2", "b">>}
OneUpload == {<<"r1", "a">>}

(* Phones at both routers use the same name. *)
SameNames == {<<"r1", "a">>, <<"r2", "a">>}
=============================================================================
