--------------------------- MODULE MCDeltaReports ---------------------------
(* Small instances of DeltaReports: an entity x with one, two or three     *)
(* descriptions and an entity y with one or two; four ways to cluster      *)
(* them, up to three levels deep.                                          *)
EXTENDS DeltaReports, TLC

CONSTANTS x, y, c0, c1, c2

Graph(xs, ys) == x :> xs @@ y :> ys
MCGraphs == {Graph({1, 2}, {1, 3}), Graph({1, 2, 3}, {3}), Graph({2, 3}, {1, 3}), Graph({1}, {})}

Community(members, parent, level) ==
    [members |-> members, parent |-> parent, level |-> level]
MCClusterings ==
    {c0 :> Community({x}, NoCid, 0),
     c0 :> Community({x, y}, NoCid, 0) @@ c1 :> Community({x}, c0, 1),
     c0 :> Community({x, y}, NoCid, 0) @@ c1 :> Community({x}, c0, 1) @@ c2 :> Community({x}, c1, 2),
     c0 :> Community({y}, NoCid, 0) @@ c1 :> Community({x}, NoCid, 0)}
=============================================================================
