SPECIFICATION Spec
CONSTANTS
  app = app
  tool = tool
  a1 = a1
  a2 = a2
  b1 = b1
  Process = {app, tool}
  Thread = {a1, b1}
  ProcessOf <- MCProcessOf
  Nobody = Nobody
  Stopper = {b1}
  MaxServers = 2
PROPERTIES
  ResumesLost
CHECK_DEADLOCK FALSE
SYMMETRY MCSymmetry
