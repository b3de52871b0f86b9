CONSTANTS
  A = A  B = B  L1 = L1  L2 = L2  x = x  y = y  UX = UX  UY = UY  SDEI = SDEI  id1 = id1  id9 = id9
  CallNames <- MCCallNames
  Labels <- MCLabels
  FieldNames <- MCFieldNames
  Regs = {0, 1}
  Pads = {FALSE}
  BitPos = {0, 1, 2}
  Values = {v1}
  IdVals = {id1}
  LogFids = {id1, id9}
  FidValue <- MCFidValue
  LogVals = {0, 1, 2}
  Logs <- MCLogs
  DefLabels = {LBL}
  MaxLines = 4
  Unbound = Unbound
  FeatureOf <- MCFeatureOf
  NoFeature = NoFeature
  UpperOf <- MCUpperOf
  ArgRes = 0
SYMMETRY Symmetry
SPECIFICATION GenSpec
INVARIANT AcceptedFileYieldsHeaders
