------------------------------- MODULE MCDraw -------------------------------
(* Draw over two weeks, with two attempts of the job. *)
EXTENDS Draw

SomeKeys == {<<"latest", 0>>, <<"status", 0>>}
=============================================================================
