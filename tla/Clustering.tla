------------------------------ MODULE Clustering ------------------------------
(***************************************************************************)
(* What the clustering nodes share: the sensor, its tiles, hits, and which *)
(* hits belong together.  A hit is a record with the arrival number id,    *)
(* the pixel's x and y, and the toa; its energy plays no part.             *)
(***************************************************************************)
EXTENDS Integers, FiniteSets

CONSTANTS Width,      \* the sensor has Width x Width pixels (256)
          TileSize,   \* pixels are grouped in squares of this edge (1)
          MaxDt       \* max_dt: hits at least so far apart in time stay apart

ASSUME SensorAssumption ==
    /\ {Width, TileSize} \subseteq Nat \ {0}
    /\ Width % TileSize = 0
    /\ MaxDt \in Nat

Abs(n) == IF n < 0 THEN -n ELSE n

Tiles == Width \div TileSize        \* tiles along an edge

\* coord::linearize(tile_size), the tile a pixel lies in, and
\* coord::linearize_tiled, for an offset counted in tiles.
Linearize(h) == Tiles * (h.x \div TileSize) + (h.y \div TileSize)
LinearizeTiled(off) == Tiles * off[1] + off[2]

\* coord::is_valid_neighbor: the pixel TileSize further lies on the sensor.
IsValidNeighbor(h, off) ==
    /\ h.x + off[1] * TileSize \in 0..(Width - 1)
    /\ h.y + off[2] * TileSize \in 0..(Width - 1)

\* Two hits lie in the same tile or in tiles that touch, corners included.
Adjacent(g, h) ==
    /\ Abs((g.x \div TileSize) - (h.x \div TileSize)) <= 1
    /\ Abs((g.y \div TileSize) - (h.y \div TileSize)) <= 1

\* Pixels that touch or coincide: the neighborhood of a tile size of 1.
Touching(g, h) == Abs(g.x - h.x) <= 1 /\ Abs(g.y - h.y) <= 1

\* The first and the last toa of a set of hits.
FirstToa(c) == CHOOSE t \in {h.toa : h \in c} : \A h \in c : t <= h.toa
LastToa(c) == CHOOSE t \in {h.toa : h \in c} : \A h \in c : h.toa <= t

\* The clustering rule: hit h belongs to the open cluster c, a set of hits.
Joins(h, c) ==
    /\ Abs(h.toa - LastToa(c)) < MaxDt
    /\ \E g \in c : Adjacent(g, h)
=============================================================================
