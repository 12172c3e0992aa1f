SPECIFICATION Spec
CONSTANTS
  none = none
  nan = nan
  None = none
  NotANumber = nan
  MaxImages = 2
  Constructed <- MCConstructed
  Frames <- MCFrames
  VideoInputs <- MCVideos
  PixelOverrides <- MCPixels
  PatchOverrides = {none, 5}
  MergeOverrides = {none}
  TemporalOverrides = {none, 1}
  MeanOverrides <- MCMeans
  StdOverrides <- MCStds
  SizeOverrides <- MCSizes
INVARIANT TypeOK
INVARIANT ResizeHonoursBrokenBound
