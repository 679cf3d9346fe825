------------------------------ MODULE MCWindow ------------------------------
(* The instance of Window that TLC checks. *)
EXTENDS Window, TLC

CONSTANTS w1, w2, b1, static, k1, h1, h2

OwnObjects == {w1, w2}
RoutedObjects == {b1}
ClassObjects == {static, k1}
Handles == {h1, h2}

Symmetry == Permutations(OwnObjects) \cup Permutations(Handles)
=============================================================================
