CONSTANTS
  A = A  B = B  L1 = L1  L2 = L2  x = x  y = y  UX = UX  UY = UY  SDEI = SDEI
  CallNames <- MCCallNames
  Labels <- MCLabels
  FieldNames <- MCFieldNames
  Regs = {0, 1}
  Pads = {FALSE}
  BitPos = {0, 1, 2}
  Values = {v1}
  IdVals = {id1}
  DefLabels = {LBL}
  MaxLines = 5
  Unbound = Unbound
  FeatureOf <- MCFeatureOf
  NoFeature = NoFeature
  UpperOf <- MCUpperOf
  ArgRes = 0
SYMMETRY Symmetry
SPECIFICATION Spec
INVARIANT BackRefsMatchRows
