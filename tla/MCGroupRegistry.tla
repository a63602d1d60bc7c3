-------------------------- MODULE MCGroupRegistry --------------------------
(* Two incarnations of one worker, another worker, and a null identity.      *)
EXTENDS GroupRegistry

Identities == {<<2, 1>>, <<2, 2>>, <<1, 3>>, <<0, 1>>}
=============================================================================
