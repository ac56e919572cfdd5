------------------------------ MODULE MCSopFlow ------------------------------
(***************************************************************************)
(* Instances of SopBalapan for TLC.                                        *)
(***************************************************************************)
EXTENDS SopBalapan, TLC

CONSTANTS s1, s2, o1, p1, p2, p3, k1, k2

SatuSop == {s1}
DuaSop == {s1, s2}
SatuOpd == {o1}
SemuaMilikO1 == [s \in Sop |-> o1]
SatuPengajuan == {k1}
DuaPengajuan == {k1, k2}
SatuProses == {p1}
DuaProses == {p1, p2}
TigaProses == {p1, p2, p3}

\* Requests and submissions are interchangeable: no action names one of them.
Simetri == Permutations(Proses) \cup Permutations(Pengajuan)
=============================================================================
