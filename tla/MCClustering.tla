---------------------------- MODULE MCClustering ----------------------------
(* Features 0, 1, 2 of which the neighbours are alike: clusters can grow    *)
(* into each other, and meet.                                              *)
EXTENDS Clustering

MCFeature == {0, 1, 2}
=============================================================================
