---------------------------- MODULE MCPtzCamera ----------------------------
(* Instances of PtzCamera for TLC.                                         *)
EXTENDS PtzCameraProps, TLC

\* Requests of one kind are interchangeable (safety runs only).
Symmetry == Permutations(Moves) \cup Permutations(Stops)
=============================================================================
