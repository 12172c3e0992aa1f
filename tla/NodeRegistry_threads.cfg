CONSTANTS
  p1 = p1
  p2 = p2
  c1 = c1
  c2 = c2
  None = None
  Pipes <- ThreadPipes
  Callers <- ThreadCallers
  PipesOf <- ThreadPipesOf
  ExtBases <- MCExtBases
  OpKinds <- MCOpKinds
  MaxOps = 2
  MaxDepth = 1
SPECIFICATION RegSpec
INVARIANT NodeIdsUnique
