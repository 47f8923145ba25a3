SPECIFICATION FairSpec
CONSTANTS
  initial = initial
  zero = zero
  alice = alice
  krbtgt = krbtgt
  c1 = c1
  c2 = c2
  None = None
  Name <- MCName
  InitialName = initial
  NewNames <- MCNewNames
  Principal = {alice}
  Service = {krbtgt}
  MaxCaches = 1
  MaxCreds = 1
  MaxObjects = 2
  h1 = h1
  h2 = h2
  Client = {c1, c2}
  Handle = {h1, h2}
INVARIANTS
  HandlesHaveOwners
  ServerTypeOK
  HandlesLeadToObjects
PROPERTIES
  RundownKeepsData
  ServerImplementsContext
  GivenBack
CHECK_DEADLOCK FALSE
