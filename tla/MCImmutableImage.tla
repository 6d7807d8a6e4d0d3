--------------------------- MODULE MCImmutableImage ----------------------------
(* Small instances of ImmutableImage.  Source s1 has two builds that differ, *)
(* and the first of them two manifests.                                      *)
EXTENDS ImmutableImage, TLC

CONSTANTS s1, s2, c1, c2, c3, d1, d2, d3, d4

MCSources == {s1, s2}
MCConfigs == {c1, c2, c3}
MCDigests == {d1, d2, d3, d4}
MCSourceOf == (c1 :> s1) @@ (c2 :> s1) @@ (c3 :> s2)
MCConfigOf == (d1 :> c1) @@ (d2 :> c1) @@ (d3 :> c2) @@ (d4 :> c3)
MCSymmetry == Permutations({d1, d2})
===============================================================================
