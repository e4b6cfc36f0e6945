--------------------------- MODULE MCSwarmRunner ----------------------------
(* SwarmRunner for TLC: custom plans with an agent nobody knows, a quality *)
(* step before its input exists, and two quality steps.                    *)
EXTENDS SwarmRunner

MCCustoms == {<<"unknown", "fetch">>, <<"quality", "fetch">>,
              <<"fetch", "normalize", "quality", "quality">>,
              <<"fetch", "normalize", "fetch", "quality">>}
=============================================================================
