---------------------------- MODULE MCTrackingHub ----------------------------
(* TLC instance of the tracking hub: connections are interchangeable.      *)
EXTENDS TrackingHub, TLC

MCSymmetry == Permutations(Conns)

=============================================================================
