-------------------------- MODULE MCMovementMetrics --------------------------
(* Model-checking instance of MovementMetrics: cursor samples on two         *)
(* monitors with two workspaces, or on no known one.  Null is a model value. *)
(* All lengths of the instance are whole numbers: the deltas are unit        *)
(* vectors at right angles, one slanted, and none; the cursor positions are  *)
(* the corners of a triangle with sides 3, 4 and 5.                          *)
EXTENDS MovementMetrics

CONSTANTS left, right, one, two

Euclid(x, y) == CHOOSE n \in 0 .. 9 : n * n = x * x + y * y

At(x, y) == [x |-> x, y |-> y]
AllDeltas == {Zero, At(1, 0), At(0, 1), At(-3, 4), Null}
OneDelta == {At(1, 0)}
Triangle == {Zero, At(3, 0), At(3, 4)}
OneCursor == {At(3, 4)}

AllPlaces == {<<left, one>>, <<right, one>>, <<right, two>>, <<Null, Null>>}
TwoPlaces == {<<left, one>>, <<right, one>>}

\* The two monitors of TwoPlaces can be exchanged.
Sides == Permutations({left, right})
=============================================================================
