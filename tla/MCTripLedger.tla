---------------------------- MODULE MCTripLedger ----------------------------
(* Model-checking instance of TripLedger: trips and drivers are model     *)
(* values, interchangeable, so TLC may use symmetry over them.            *)
EXTENDS TripLedger, TLC

MCSymmetry == Permutations(Trips) \cup Permutations(Drivers)
=============================================================================
