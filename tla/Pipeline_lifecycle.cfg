CONSTANTS
  p1 = p1
  p2 = p2
  c1 = c1
  None = None
  Pipes <- MCPipes
  Callers <- MCCallers
  PipesOf <- MCPipesOf
  ExtBases <- MCExtBases
  OpKinds <- MCOpKinds
  ConfigOk = {TRUE, FALSE}
  InitParams <- MCInitParams
  FnParams <- MCFnParams
  DecoKwargs <- MCDecoKwargs
  CallKwargs <- MCCallKwargs
  MaxOps = 3
  MaxRuns = 2
  MaxDepth = 1
SPECIFICATION Spec
INVARIANT TypeOK
INVARIANT DefReturnsBuilt
