---------------------------- MODULE MCPointSites ----------------------------
(* A small instance of PointSites.                                         *)
EXTENDS PointSites
=============================================================================
