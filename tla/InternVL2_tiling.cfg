SPECIFICATION Spec
CONSTANTS
  none = none
  None = none
  ImageKinds = {"pil", "mm", "other"}
  Dims <- MCDims
  InputSizes <- MCInputSizes
  Nums <- MCNums
INVARIANT TypeOK
INVARIANT TilesPartitionResized
INVARIANT ChosenRatioClosest
INVARIANT TileCountWithinRange
