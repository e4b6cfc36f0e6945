---------------------------- MODULE MCMetaPipeline ----------------------------
(* MetaPipeline for TLC: an analysis finds nothing or two insights, whose  *)
(* keys a second analysis repeats.                                         *)
EXTENDS MetaPipeline

MCTwo == {<<>>, <<"k1", "k2">>}
===============================================================================
