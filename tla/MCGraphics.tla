----------------------------- MODULE MCGraphics -----------------------------
(* The instance of Graphics that TLC checks. *)
EXTENDS Graphics

CONSTANTS c1, c2, t1, t2, l1, l2

TwoChains == {c1, c2}
TwoTextures == {t1, t2}
TwoLayers == {l1, l2}

\* no area, two sizes that differ in both dimensions, and one between them
SomeSizes == {<<0, 0>>, <<1, 1>>, <<2, 1>>, <<2, 2>>}

\* The swap chains and the layers share the device and the thread, and nothing
\* else: a behaviour has either.
Apart == \/ \A c \in Chain : ~Made(c)
         \/ Textures = {} /\ \A l \in Layer : layer[l] = None

\* chains, textures and layers are interchangeable
Symmetry == Permutations(TwoChains) \cup Permutations(TwoTextures) \cup Permutations(TwoLayers)
=============================================================================
