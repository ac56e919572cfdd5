------------------------------- MODULE MCSopPdf -------------------------------
(***************************************************************************)
(* Instances of SopPdf for TLC.                                            *)
(***************************************************************************)
EXTENDS SopPdf, TLC

CONSTANTS d1, d2, u1, u2

SatuDokumen == {d1}
DuaDokumen == {d1, d2}
DuaUpaya == {u1, u2}

\* Every attempt signs the same submission.
PaketSama == [u \in Upaya |-> Dokumen]

\* u1 signs one submission, the others another.
PaketTerpisah == [u \in Upaya |-> IF u = u1 THEN {d1} ELSE {d2}]

\* The directory lists the files of u1 first and those of d1 before those of d2.
UrutanUpaya == u1 :> 0 @@ u2 :> 2
UrutanDokumen == d1 :> 0 @@ d2 :> 1
PosisiUrut == [f \in Upaya \X Dokumen |-> UrutanUpaya[f[1]] + UrutanDokumen[f[2]]]
=============================================================================
