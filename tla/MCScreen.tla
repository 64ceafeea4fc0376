------------------------------- MODULE MCScreen -------------------------------
(* Sizes on both sides of every threshold of the layout: 50 and 90 columns, *)
(* 3 and 14 rows, and a width whose shares round down.                      *)
EXTENDS TrfxScreen

MCHeights  == {2, 3, 13, 14, 40}
MCWidths   == {0, 49, 50, 89, 90, 100, 133}
MCPercents == {-5, 0, 1, 60, 99, 100}
=============================================================================
