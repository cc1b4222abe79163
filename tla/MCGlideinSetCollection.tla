---------------------- MODULE MCGlideinSetCollection ----------------------
(* Instances of GlideinSetCollection for TLC. *)
EXTENDS GlideinSetCollection

OneCollection  == {<<"ospool">>}
TwoCollections == {<<"ospool">>, <<"path">>}
OneSet         == {<<"cpu">>}
TwoSets        == {<<"cpu">>, <<"gpu">>}
SigningKey     == {<<"collector", "sigkey">>}
Prometheus     == {<<"prometheus">>}
=============================================================================
