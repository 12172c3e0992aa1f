SPECIFICATION Spec
\* The threads stop once their call bounds are spent.
CHECK_DEADLOCK FALSE
CONSTANTS
  c1 = c1
  p1 = p1
  k1 = k1
  None = None
  cbA = cbA
  rawInt = rawInt
  Configurers = {c1}
  PyThreads = {p1}
  CppThreads = {k1}
  UserCallbacks = {cbA}
  Requests <- MCRequests
  Messages = {"utf8", "bytes"}
  MaxRegs = 2
  MaxLogs = 2
INVARIANT DeliveredAtLevel
