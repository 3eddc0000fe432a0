------------------------- MODULE MCMovementEpisodes -------------------------
(* Model-checking instance of MovementEpisodes: two interchangeable devices.*)
EXTENDS MovementEpisodes, TLC

CONSTANTS mouse, trackball

TwoDevices == {mouse, trackball}
Symmetry == Permutations(TwoDevices)
=============================================================================
