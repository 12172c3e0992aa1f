SPECIFICATION Spec
CONSTANTS
  MaxObjects = 5
  ArrayInputs <- MCArrayInputs
  TorchInputs <- MCTorchInputs
  PillowModes = {"RGB", "L"}
  BytesArgs = {"bytes", "int", "surrogate"}
  AudioInputs <- MCAudioInputs
  SrArgs = {"none", "zero"}
INVARIANT TypeOK
INVARIANT ImageKeepsSource
