------------------------- MODULE MCTwoStepClustering -------------------------
EXTENDS TwoStepClustering

\* Three pixels in a diagonal row, and one so far from them that a group with it
\* and any other is cut.
MCHitPixels == {<<10, 10>>, <<11, 11>>, <<12, 12>>, <<20, 20>>}
=============================================================================
