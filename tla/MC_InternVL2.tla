----------------------------- MODULE MC_InternVL2 -----------------------------
(* Bounded inputs for InternVL2Preprocess: max_num up to MaxNum keeps the  *)
(* orders of same-count grids enumerable; 33 exercises the max_num check. *)
EXTENDS InternVL2Preprocess

CONSTANTS none

MaxNum == 6

\* Square, 5:4 (midway between the 2x1 and 1x2 grids' ratios), 3:1, tall,
\* and out of range.
MCDims == {<<1000, 1000>>, <<1250, 1000>>, <<900, 300>>, <<448, 1344>>, <<9, 448>>}

MCNums == {0, 1, 2, 4, MaxNum, 33}

MCInputSizes == {9, 448, 1000}
==============================================================================
