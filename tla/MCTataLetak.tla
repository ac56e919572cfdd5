----------------------------- MODULE MCTataLetak -----------------------------
(***************************************************************************)
(* Instances of TataLetak for TLC.                                         *)
(***************************************************************************)
EXTENDS TataLetak

\* What the two numbers add to hashId of conn-1-to-2, conn-1-yes-2 or conn-1-no-2,
\* with one digit each; the rest is the same for edges with the same label.
SidikSatuDigit(s, e) ==
    LET bobot(i) == (s + 1) * (i + 31) + 7 * s
    IN  bobot(5) * e.dari + bobot(IF e.label = 1 THEN 11 ELSE 10) * e.ke
=============================================================================
