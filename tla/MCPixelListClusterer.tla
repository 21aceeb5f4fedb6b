------------------------- MODULE MCPixelListClusterer -------------------------
EXTENDS PixelListClusterer

\* Three tiles in a chain, the middle one adjacent to both others. The tiles
\* of <<1, 5>> and <<2, 1>> are not adjacent, although their places in the
\* matrix are: one ends a row and the other starts the next.
MCHitPixels == {<<1, 2>>, <<1, 5>>, <<2, 1>>}
=============================================================================
