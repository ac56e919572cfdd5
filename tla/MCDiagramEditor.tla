-------------------------- MODULE MCDiagramEditor --------------------------
(***************************************************************************)
(* An instance of DiagramEditor for TLC: one editor and two tabs.          *)
(***************************************************************************)
EXTENDS DiagramEditor

CONSTANT a

SatuPenyunting == {a}
UbahUji == [c \in SatuPenyunting |-> [langkah |-> 1, pelaksana |-> 0]]
SegarUji == [c \in SatuPenyunting |-> 0]
=============================================================================
