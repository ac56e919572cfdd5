---------------------------- MODULE MCWagoWebhook ----------------------------
(***************************************************************************)
(* Instances of WagoWebhook for TLC.                                       *)
(***************************************************************************)
EXTENDS WagoWebhook, TLC

CONSTANTS w1, w2, h1

DuaPekerja == {w1, w2}
SatuPekerja == {w1}
SatuPenerima == {h1}
MundurUji == <<1, 2>>
Simetri == Permutations(Pekerja)
=============================================================================
