--------------------------- MODULE MCRouteReload ---------------------------
(* A small instance of RouteReload for TLC: versions and policies that the *)
(* gateway accepts, and one of each that it refuses.                       *)
EXTENDS RouteReload

CONSTANTS v1, v2, bad, r1, r2, d1, d2, unloadable, e1, e2

TheVersions == {v1, v2, bad}
GoodVersions == {v1, v2}
TwoRoutes == {r1, r2}
OneRoute == {r1}
TheDocs == {d1, d2, unloadable}
GoodDocs == {d1, d2}
TwoEditors == {e1, e2}
=============================================================================
