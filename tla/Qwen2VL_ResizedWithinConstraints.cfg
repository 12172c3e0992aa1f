SPECIFICATION Spec
CONSTANTS
  none = none
  nan = nan
  None = none
  NotANumber = nan
  MaxImages = 2
  Constructed <- MCConstructed
  Frames <- MCFrames
  VideoInputs <- MCVideos
  PixelOverrides <- MCPixelsFew
  PatchOverrides = {none}
  MergeOverrides = {none}
  TemporalOverrides = {none}
  MeanOverrides = {none}
  StdOverrides = {none}
  SizeOverrides <- MCSizesFew
INVARIANT ResizedWithinConstraints
