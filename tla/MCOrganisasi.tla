----------------------------- MODULE MCOrganisasi -----------------------------
(***************************************************************************)
(* Instances of Organisasi for TLC.                                        *)
(***************************************************************************)
EXTENDS Organisasi, TLC

CONSTANTS o1, o2, u1, u2, p1, p2

DuaOpd == {o1, o2}
DuaPengguna == {u1, u2}
DuaPermintaan == {p1, p2}

\* Nothing tells OPDs, accounts or requests apart.
Simetri == Permutations(Opd) \cup Permutations(Pengguna) \cup Permutations(Permintaan)
=============================================================================
