---------------------------- MODULE MCRideService ----------------------------
(* Model-checking instance of RideService.  Trips and drivers are model    *)
(* values; symmetry over them is used only by the safety runs.            *)
EXTENDS RideService, TLC

MCSymmetry == Permutations(Trips) \cup Permutations(Drivers)
=============================================================================
