-------------------------- MODULE MCConfigReload --------------------------
(* ConfigReload for TLC: a console edit and a model refresh that publishes,  *)
(* which take their locks in opposite orders, and a refresh that does not    *)
(* publish.                                                                  *)
EXTENDS ConfigReload

CONSTANTS edit, refresh, rename

ThreeWriters == {edit, refresh, rename}
Orders == [w \in Writers |-> CASE w = edit -> <<"publisher", "provider">>
                               [] w = refresh -> <<"provider", "publisher">>
                               [] w = rename -> <<"provider">>]
===========================================================================
