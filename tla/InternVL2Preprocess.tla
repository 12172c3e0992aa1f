------------------------- MODULE InternVL2Preprocess -------------------------
(***************************************************************************)
(* InternVL2PreProcessor.preprocess_image (mm/adapter/                     *)
(* internvl2_preprocessor.py): dynamic tiling of one image.                *)
(*                                                                         *)
(* The call checks its arguments, picks the tile grid (i columns, j rows)  *)
(* whose aspect ratio is closest to the image's among the grids with       *)
(* min_num..max_num tiles, resizes the image to (input_size*i,             *)
(* input_size*j), crops the i*j tiles and optionally appends a thumbnail.  *)
(* Pixel kernels (resize, crop, to_tensor, normalize) are abstracted to    *)
(* the rectangles they are given. Aspect ratios are compared as exact      *)
(* fractions.                                                              *)
(*                                                                         *)
(* _get_target_ratios sorts set(target_ratios) by tile count only, so the  *)
(* order of grids with the same count is the iteration order of a Python   *)
(* set: the model lets it be any order.                                    *)
(***************************************************************************)
EXTENDS Integers, Sequences, FiniteSets, SequencesExt

CONSTANTS
  ImageKinds,   \* {"pil", "mm", "other"}: what isinstance sees
  Dims,         \* image sizes <<width, height>> that calls pass
  InputSizes,   \* values passed as input_size
  Nums,         \* values passed as min_num and max_num
  None          \* model value: no call outcome yet

VARIABLES
  last   \* what the last preprocess_image call returned or raised

vars == <<last>>

MAX_IMAGE_SIZE == 8192
MIN_IMAGE_SIZE == 10

-----------------------------------------------------------------------------
(* _get_target_ratios(min_num, max_num).                                   *)

Product(r) == r[1] * r[2]

\* Mutant: the lower bound min_num <= i*j is dropped.
TargetRatioSetNoMin(minNum, maxNum) ==
  {r \in (1..maxNum) \X (1..maxNum) : Product(r) <= maxNum}

\* The grids (i, j) with min_num <= i*j <= max_num.
TargetRatioSet(minNum, maxNum) ==
  {r \in (1..maxNum) \X (1..maxNum) : minNum <= Product(r) /\ Product(r) <= maxNum}

\* The sequences that list the grids with tile counts counts[1], counts[2],
\* ... in that order, grids of one count in any order.
RECURSIVE OrdersByCount(_, _)
OrdersByCount(R, counts) ==
  IF counts = <<>> THEN {<<>>}
  ELSE {g \o rest : g \in SetToSeqs({r \in R : Product(r) = Head(counts)}),
                    rest \in OrdersByCount(R, Tail(counts))}

\* sorted(set(target_ratios), key=i*j): every order of the set that is
\* sorted by tile count.
TargetRatios(minNum, maxNum) ==
  LET R == TargetRatioSet(minNum, maxNum)
  IN  OrdersByCount(R, SetToSortSeq({Product(r) : r \in R}, <))

-----------------------------------------------------------------------------
(* _find_closest_aspect_ratio and _calculate_target_dimensions.            *)

\* abs(width/height - i/j) as the fraction [num, den]; den = 0 is inf.
RatioDiff(width, height, r) ==
  [num |-> IF width * r[2] >= r[1] * height THEN width * r[2] - r[1] * height
                                            ELSE r[1] * height - width * r[2],
   den |-> height * r[2]]

Infinity == [num |-> 1, den |-> 0]

Less(d1, d2) == d1.num * d2.den < d2.num * d1.den
Same(d1, d2) == d1.num * d2.den = d2.num * d1.den

\* Mutant: best_ratio_diff is not updated on an improvement.
ClosestStepKeepsDiff(width, height, imageSize, best, ratio) ==
  LET diff == RatioDiff(width, height, ratio) IN
  IF Less(diff, best.diff) THEN [best EXCEPT !.ratio = ratio]
  ELSE IF Same(diff, best.diff) /\
          2 * width * height > imageSize * imageSize * Product(ratio)
    THEN [best EXCEPT !.ratio = ratio]
  ELSE best

\* One iteration of the loop over target_ratios.
ClosestStep(width, height, imageSize, best, ratio) ==
  LET diff == RatioDiff(width, height, ratio) IN
  IF Less(diff, best.diff) THEN [diff |-> diff, ratio |-> ratio]
  ELSE IF Same(diff, best.diff) /\
          2 * width * height > imageSize * imageSize * Product(ratio)
    THEN [best EXCEPT !.ratio = ratio]
  ELSE best

FindClosestAspectRatio(width, height, order, imageSize) ==
  FoldLeft(LAMBDA best, ratio : ClosestStep(width, height, imageSize, best, ratio),
           [diff |-> Infinity, ratio |-> <<1, 1>>], order).ratio

-----------------------------------------------------------------------------
(* preprocess_image.                                                       *)

\* The argument checks, in the order the code makes them.
CheckArgs(kind, dim, inputSize, minNum, maxNum) ==
  CASE kind = "other" -> "TypeError(image)"
    [] minNum <= 0 \/ minNum > 4 \/ minNum > maxNum -> "ValueError(min_num)"
    [] maxNum < minNum \/ maxNum > 32 -> "ValueError(max_num)"
    [] dim[1] > MAX_IMAGE_SIZE \/ dim[2] > MAX_IMAGE_SIZE
       \/ dim[1] < MIN_IMAGE_SIZE \/ dim[2] < MIN_IMAGE_SIZE -> "ValueError(image size)"
    [] inputSize < 10 \/ inputSize > 8192 -> "ValueError(input_size)"
    [] OTHER -> "OK"

\* Mutant: the row is counted from -1 (top off by one tile).
TileOffByOne(k, tw, s) ==
  LET cols == tw \div s
  IN  [top |-> ((k \div cols) - 1) * s, left |-> (k % cols) * s, height |-> s, width |-> s]

\* Mutant: row and column swapped.
TileSwapped(k, tw, s) ==
  LET cols == tw \div s
  IN  [top |-> (k % cols) * s, left |-> (k \div cols) * s, height |-> s, width |-> s]

\* The crop box of tile k (0-based) of an image resized to width tw.
Tile(k, tw, s) ==
  LET cols == tw \div s
      left == (k % cols) * s
      top == (k \div cols) * s
      right == ((k % cols) + 1) * s
      bottom == ((k \div cols) + 1) * s
  IN  [top |-> top, left |-> left, height |-> bottom - top, width |-> right - left]

\* The outcome of a call that got through the checks with grid r.
Tiled(dim, s, minNum, maxNum, thumb, r) ==
  LET blocks == Product(r)
      tw == s * r[1]
      th == s * r[2]
      tiles == [k \in 1..blocks |-> Tile(k - 1, tw, s)]
  IN  [code |-> "OK", dim |-> dim, size |-> s, minNum |-> minNum, maxNum |-> maxNum,
       targets |-> TargetRatioSet(minNum, maxNum), grid |-> r,
       resized |-> <<tw, th>>, tiles |-> tiles,
       thumbnail |-> thumb /\ Len(tiles) # 1]

PreprocessImage(kind, dim, s, minNum, maxNum, thumb) ==
  LET code == CheckArgs(kind, dim, s, minNum, maxNum) IN
  IF code # "OK" THEN {[code |-> code]}
  ELSE {Tiled(dim, s, minNum, maxNum, thumb,
              FindClosestAspectRatio(dim[1], dim[2], order, s)) :
          order \in TargetRatios(minNum, maxNum)}

Init == last = None

\* One call of preprocess_image.
Call ==
  /\ last = None
  /\ \E kind \in ImageKinds, dim \in Dims, s \in InputSizes,
        minNum \in Nums, maxNum \in Nums, thumb \in BOOLEAN :
       last' \in PreprocessImage(kind, dim, s, minNum, maxNum, thumb)

\* The caller takes the tensor (or the exception).
Return ==
  /\ last # None
  /\ last' = None

Next == Call \/ Return

Spec == Init /\ [][Next]_vars

-----------------------------------------------------------------------------
(* Properties.                                                             *)

Box == [top : Nat, left : Nat, height : Nat, width : Nat]

TypeOK ==
  last = None \/ last.code # "OK" \/
  /\ last.grid \in (1..32) \X (1..32)
  /\ last.tiles \in Seq(Box)
  /\ last.thumbnail \in BOOLEAN

Succeeded == last # None /\ last.code = "OK"

AbsDiff(a, b) == IF a >= b THEN a - b ELSE b - a

\* The crops of preprocess_image tile the resized image exactly: every
\* tile is input_size square, lies inside the resized image, no two tiles
\* overlap, and together they cover it (the column count is derived from
\* the resized width, the row from the tile index).
TilesPartitionResized ==
  Succeeded =>
    LET t == last.tiles
        s == last.size
    IN  /\ \A k \in DOMAIN t :
             /\ t[k].height = s /\ t[k].width = s
             /\ t[k].left % s = 0 /\ t[k].top % s = 0
             /\ t[k].left + s <= last.resized[1] /\ t[k].top + s <= last.resized[2]
        /\ \A k, m \in DOMAIN t : k # m =>
             t[k].left # t[m].left \/ t[k].top # t[m].top
        /\ Len(t) * s * s = last.resized[1] * last.resized[2]

\* The grid chosen has the aspect ratio closest to the image's among all
\* grids of min_num..max_num tiles (reference: the minimum of
\* |w/h - i/j| over the targets, compared as fractions).
ChosenRatioClosest ==
  Succeeded =>
    LET w == last.dim[1]
        h == last.dim[2]
        g == last.grid
    IN  \A r \in last.targets :
          AbsDiff(w * g[2], g[1] * h) * r[2] <= AbsDiff(w * r[2], r[1] * h) * g[2]

\* preprocess_image crops between min_num and max_num tiles (the grid is
\* one of _get_target_ratios', or the (1, 1) fallback).
TileCountWithinRange ==
  Succeeded => last.minNum <= Len(last.tiles) /\ Len(last.tiles) <= last.maxNum

=============================================================================
