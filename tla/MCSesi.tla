-------------------------------- MODULE MCSesi --------------------------------
(***************************************************************************)
(* Instances of Sesi for TLC.                                              *)
(***************************************************************************)
EXTENDS Sesi, TLC

CONSTANTS b1, b2, l1, l2, l3, m1, m2, k1, k2, k3

DuaPeramban == {b1, b2}
TigaLaman == {l1, l2, l3}
\* Two pages of one browser and one of another.
MilikUji == (l1 :> b1) @@ (l2 :> b1) @@ (l3 :> b2)
DuaMinta == {m1, m2}
TigaKerja == {k1, k2, k3}
=============================================================================
