---------------------------- MODULE MCSopEditor ----------------------------
(***************************************************************************)
(* Instances of SopEditor for TLC: two editors of one version.  The first  *)
(* edits the actors and then the steps, or the steps twice, the second the *)
(* steps once.                                                             *)
(***************************************************************************)
EXTENDS SopEditor

CONSTANTS a, b

DuaPenyunting == {a, b}
UbahUji == [c \in DuaPenyunting |-> IF c = a THEN [langkah |-> 2, pelaksana |-> 1]
                                             ELSE [langkah |-> 1, pelaksana |-> 0]]
SegarUji == [c \in DuaPenyunting |-> IF c = a THEN 1 ELSE 0]
=============================================================================
