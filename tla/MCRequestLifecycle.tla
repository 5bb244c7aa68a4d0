------------------------- MODULE MCRequestLifecycle -------------------------
(* An instance of RequestLifecycle for TLC.                                *)
EXTENDS RequestLifecycleProofs

\* No value, one, an unsafe one, and two.
MCHeaders == {<<>>, <<"safe">>, <<"unsafe">>, <<"safe", "safe">>}
=============================================================================
