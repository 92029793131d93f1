----------------------------------- MODULE MCPool ----------------------------------
(* Instances of the decode pool: which clips show which asset.                     *)
EXTENDS DecodePool, TLC
CONSTANTS a1, a2, c1, c2, w1, w2
MCAssets == {a1, a2}
MCClips == {c1, c2}
MCAssetOf == (c1 :> a1) @@ (c2 :> a2)
MCWorkers == {w1, w2}
====================================================================================
