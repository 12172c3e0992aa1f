SPECIFICATION Spec
CONSTANTS
  none = none
  None = none
  Builders <- MCBuilders
  Names <- MCNames
  Pairs <- MCPairs
  Modes <- MCModes
  Rounds <- MCRounds
  Triples <- MCTriples
  Scales <- MCScales
  Layouts <- MCLayouts
  IntArgs <- MCIntArgs
INVARIANT TypeOK
INVARIANT RecordedArgsMatchDecl
